---------------------------- MODULE WorkerQueue ----------------------------
(***************************************************************************)
(* The four queues of background work: outbox events, notifications,       *)
(* integration jobs and payment webhooks.                                  *)
(*                                                                         *)
(* A worker claims a record for a limited time, renews the claim while a   *)
(* provider does the work, and records the outcome if the claim is still   *)
(* in the name of its process.  A worker is one pass of a process through  *)
(* one queue: the passes of a cycle run side by side, and when one of them *)
(* fails the next cycle begins beside the others.  Staff retry and cancel records by reading a document    *)
(* and saving it later.  The queues differ in which states can be claimed  *)
(* or retried, in what a failure and a retry write, and in whether the     *)
(* attempts are limited; the operators below name the differences.         *)
(*                                                                         *)
(* Integration jobs belong to a connector, which counts failures and which *)
(* staff switch on and off.                                                *)
(*                                                                         *)
(* Times are times left, counted down by Tick.  The states of the queues   *)
(* have one name each: "pending" is also queued and received, "done" is    *)
(* published, sent, succeeded, processed and ignored.                      *)
(***************************************************************************)
EXTENDS Integers

CONSTANTS
    Job,          \* idempotency keys and event ids
    Worker,       \* passes of processes through a queue
    WorkerId,     \* processes
    IdOf,         \* IdOf[w]: the process of worker w
    Mortal,       \* the processes that may die
    Ask,          \* requests of staff to retry or cancel
    MaxAttempts,  \* attempts of a record
    Ttl,          \* lifetime of a claim
    MaxDelay,     \* longest delay after a failure
    NoWorker

ASSUME QueueAssumption ==
    /\ IdOf \in [Worker -> WorkerId]
    /\ Mortal \subseteq WorkerId
    /\ NoWorker \notin Worker \cup WorkerId
    /\ MaxAttempts \in Nat \ {0}
    /\ Ttl \in Nat \ {0}
    /\ MaxDelay \in Nat \ {0}

VARIABLES
    kind,   \* kind[j]: the queue of record j
    rec,    \* rec[j]: the record
    work,   \* work[w]: what worker w is doing
    ask,    \* ask[s]: how far request s of staff has come
    conn,   \* the connector of the integration jobs
    last,   \* history: the last worker that claimed j
    over    \* history: a claim of j lapsed at work, or staff overwrote news

vars == <<kind, rec, work, ask, conn, last, over>>

-----------------------------------------------------------------------------
(* How the queues differ *)

Kinds == {"outbox", "notification", "integration", "webhook"}

Waiting(k) == {"pending"} \cup (IF k = "notification" THEN {} ELSE {"failed"})

Limited(k) == k # "webhook"

AfterFailure(k, terminal) ==
    CASE terminal /\ k = "integration"   -> "dead_letter"
      [] ~terminal /\ k = "notification" -> "pending"
      [] OTHER                           -> "failed"

Retryable(k, r) ==
    \/ r.status = "failed"
    \/ r.status = "dead_letter" /\ k = "integration"
    \/ r.status = "processing" /\ r.left = 0 /\ k \in {"outbox", "webhook"}

Cancellable(k, r) == k = "notification" /\ r.status \in {"pending", "failed"}

AttemptsAfterRetry(k, a) == IF k \in {"notification", "integration"} THEN 0 ELSE a

\* Staff's copy of a webhook is saved only if no other copy was saved since;
\* the workers' updates do not count as saves.
Versioned(k) == k = "webhook"

\* lockedBy is not selected by default.
OwnerHidden(k) == k \in {"notification", "webhook"}

Backoff(a) == IF 2 ^ a \in 0 .. MaxDelay THEN 2 ^ a ELSE MaxDelay

-----------------------------------------------------------------------------
(* Records *)

Record ==
    [status   : {"absent", "pending", "processing", "failed", "done",
                 "dead_letter", "cancelled"},
     attempts : 0 .. MaxAttempts,            \* a webhook may have more
     wait     : 0 .. MaxDelay,               \* until nextAttemptAt
     owner    : WorkerId \cup {NoWorker},    \* lockedBy
     left     : 0 .. Ttl,                    \* until lockExpiresAt
     saves    : Nat]                         \* __v

Absent == [status |-> "absent", attempts |-> 0, wait |-> 0,
           owner |-> NoWorker, left |-> 0, saves |-> 0]

AtWork == {"claimed", "working", "sent", "refused"}

Activity ==
    [pc      : {"idle", "succeeded", "unsuccessful", "dead"} \cup AtWork,
     job     : Job,
     attempt : 0 .. MaxAttempts,             \* attempts of the claimed record
     lost    : BOOLEAN,                      \* leaseLost of the heartbeat
     fresh   : BOOLEAN]                      \* the connector is as it was read

Request ==
    [pc : {"idle", "read", "closed"}, what : {"retry", "cancel"},
     job : Job, seen : Record]

Connector ==
    [status : {"disabled", "active", "degraded", "revoked"}, fails : 0 .. 3]

Usable == conn.status \in {"active", "degraded"}

HasConnector == \E j \in Job : kind[j] = "integration"

\* A worker without work, whose last record was j.
Resting(j) ==
    [pc |-> "idle", job |-> j, attempt |-> 0, lost |-> FALSE, fresh |-> FALSE]

Unasked(j) == [pc |-> "idle", what |-> "retry", job |-> j, seen |-> Absent]

Working(w, j) == work[w].pc \in AtWork /\ work[w].job = j

Init ==
    /\ kind \in [Job -> Kinds]
    /\ rec = [j \in Job |-> Absent]
    /\ work \in [Worker -> {Resting(j) : j \in Job}]
    /\ ask \in [Ask -> {Unasked(j) : j \in Job}]
    /\ conn = [status |-> "active", fails |-> 0]
    /\ last = [j \in Job |-> NoWorker]
    /\ over = [j \in Job |-> FALSE]

-----------------------------------------------------------------------------
(* A record is created, once for its key, perhaps for later *)

Enqueue(j) ==
    /\ rec[j].status = "absent"
    /\ kind[j] = "integration" => conn.status = "active"
    /\ \E t \in 0 .. MaxDelay :
          /\ t > 0 => kind[j] = "notification"
          /\ rec' = [rec EXCEPT ![j].status = "pending", ![j].wait = t]
    /\ UNCHANGED <<kind, work, ask, conn, last, over>>

-----------------------------------------------------------------------------
(* Workers *)

\* Mutant of Claimable: a claim that has lapsed is not taken over.
ClaimableWaiting(j) ==
    /\ kind[j] = "integration" => Usable
    /\ Limited(kind[j]) => rec[j].attempts < MaxAttempts
    /\ rec[j].status \in Waiting(kind[j]) /\ rec[j].wait = 0

\* Mutant of Claimable: a claim is taken over before it has lapsed.
ClaimableEarly(j) ==
    /\ kind[j] = "integration" => Usable
    /\ Limited(kind[j]) => rec[j].attempts < MaxAttempts
    /\ \/ rec[j].status \in Waiting(kind[j]) /\ rec[j].wait = 0
       \/ rec[j].status = "processing"

Claimable(j) ==
    /\ kind[j] = "integration" => Usable
    /\ Limited(kind[j]) => rec[j].attempts < MaxAttempts
    /\ \/ rec[j].status \in Waiting(kind[j]) /\ rec[j].wait = 0
       \/ rec[j].status = "processing" /\ rec[j].left = 0

\* One findOneAndUpdate; the connectors that may run are read just before.
Claim(w, j) ==
    LET a == IF rec[j].attempts < MaxAttempts \/ Limited(kind[j])
             THEN rec[j].attempts + 1 ELSE rec[j].attempts
    IN  /\ work[w].pc = "idle"
        /\ Claimable(j)
        /\ rec' = [rec EXCEPT ![j].status = "processing", ![j].attempts = a,
                              ![j].owner = IdOf[w], ![j].left = Ttl]
        /\ work' = [work EXCEPT ![w] = [pc |-> "claimed", job |-> j,
                                        attempt |-> a, lost |-> FALSE,
                                        fresh |-> FALSE]]
        /\ last' = [last EXCEPT ![j] = w]
        /\ UNCHANGED <<kind, ask, conn, over>>

\* The template, the payload or the connector is loaded, if it is there.
Prepare(w) ==
    LET integrates == kind[work[w].job] = "integration"
    IN  /\ work[w].pc = "claimed"
        /\ \E next \in {"working", "refused"} :
              /\ next = "working" /\ integrates => Usable
              /\ work' = [work EXCEPT ![w].pc = next, ![w].fresh = integrates]
        /\ UNCHANGED <<kind, rec, ask, conn, last, over>>

\* Mutant of Mine: a record in processing is taken for the worker's own.
MineByStatus(w) == rec[work[w].job].status = "processing"

\* The record is in processing and locked by this worker's process.
Mine(w) == /\ rec[work[w].job].status = "processing"
           /\ rec[work[w].job].owner = IdOf[w]

\* The claim is renewed, or the renewal is refused or fails.
Heartbeat(w) ==
    LET j == work[w].job
    IN  /\ work[w].pc = "working" /\ ~work[w].lost
        /\ \/ /\ Mine(w) /\ rec[j].left > 0
              /\ rec' = [rec EXCEPT ![j].left = Ttl]
              /\ UNCHANGED work
           \/ /\ work' = [work EXCEPT ![w].lost = TRUE]
              /\ UNCHANGED rec
        /\ UNCHANGED <<kind, ask, conn, last, over>>

\* The provider answers, or throws.
Deliver(w) ==
    /\ work[w].pc = "working"
    /\ \E next \in {"sent", "refused"} : work' = [work EXCEPT ![w].pc = next]
    /\ UNCHANGED <<kind, rec, ask, conn, last, over>>

\* The outcome is written, and for an integration job reported to the
\* connector; a worker that has lost its claim leaves the record alone.
Conclude(w, pc, r) ==
    LET j == work[w].job
    IN  /\ IF Mine(w) /\ ~(pc = "succeeded" /\ work[w].lost)
           THEN /\ rec' = [rec EXCEPT ![j] = r]
                /\ work' = [work EXCEPT ![w] =
                               IF kind[j] = "integration"
                               THEN [@ EXCEPT !.pc = pc] ELSE Resting(j)]
           ELSE /\ work' = [work EXCEPT ![w] = Resting(j)]
                /\ UNCHANGED rec
        /\ UNCHANGED <<kind, ask, conn, last, over>>

RecordSuccess(w) ==
    /\ work[w].pc = "sent"
    /\ Conclude(w, "succeeded",
                [rec[work[w].job] EXCEPT !.status = "done", !.wait = 0,
                                         !.owner = NoWorker, !.left = 0])

RecordFailure(w) ==
    LET j        == work[w].job
        terminal == Limited(kind[j]) /\ work[w].attempt >= MaxAttempts
    IN  /\ work[w].pc = "refused"
        /\ Conclude(w, "unsuccessful",
                    [rec[j] EXCEPT
                       !.status = AfterFailure(kind[j], terminal),
                       !.wait = IF terminal THEN 0 ELSE Backoff(work[w].attempt),
                       !.owner = NoWorker, !.left = 0])

\* Mutant of Savable: the connector has no version.
SavableAlways(w) == TRUE

\* The connector was not saved since this worker read it.
Savable(w) == work[w].fresh

\* A save of the connector makes every other copy of it stale.
Stale(W) == [w \in Worker |-> [W[w] EXCEPT !.fresh = FALSE]]

Report(w) ==
    LET c == IF work[w].pc = "succeeded"
             THEN [status |-> "active", fails |-> 0]
             ELSE LET f == IF conn.fails < 3 THEN conn.fails + 1 ELSE 3
                  IN  [status |-> IF conn.status = "active" /\ f = 3
                                  THEN "degraded" ELSE conn.status,
                       fails |-> f]
    IN  /\ work[w].pc \in {"succeeded", "unsuccessful"}
        /\ IF Savable(w)
           THEN /\ conn' = c
                /\ work' = Stale([work EXCEPT ![w] = Resting(@.job)])
           ELSE /\ work' = [work EXCEPT ![w] = Resting(@.job)]
                /\ UNCHANGED conn
        /\ UNCHANGED <<kind, rec, ask, last, over>>

Dead(j) == [Resting(j) EXCEPT !.pc = "dead"]

\* All passes of a process end with it.
Die(p) ==
    /\ p \in Mortal
    /\ \E w \in Worker : IdOf[w] = p /\ work[w].pc # "dead"
    /\ work' = [w \in Worker |->
                   IF IdOf[w] = p THEN Dead(work[w].job) ELSE work[w]]
    /\ UNCHANGED <<kind, rec, ask, conn, last, over>>

\* What a worker goes on with.
WorkStep(w) ==
    Prepare(w) \/ Deliver(w) \/ RecordSuccess(w) \/ RecordFailure(w) \/ Report(w)

-----------------------------------------------------------------------------
(* Staff *)

\* The document is read and looked at.
Read(s, j, what) ==
    /\ ask[s].pc = "idle"
    /\ IF what = "retry"
       THEN /\ Retryable(kind[j], rec[j])
            /\ kind[j] = "integration" => conn.status = "active"
       ELSE Cancellable(kind[j], rec[j])
    /\ ask' = [ask EXCEPT ![s] = [pc |-> "read", what |-> what, job |-> j,
                                  seen |-> rec[j]]]
    /\ UNCHANGED <<kind, rec, work, conn, last, over>>

\* The fields that were changed on the document are written, whatever the
\* record is by now.  The owner and the expiry of a claim are changed if the
\* document had them; an owner the query did not select is always unset.
Save(s) ==
    LET j    == ask[s].job
        seen == ask[s].seen
        r    == [rec[j] EXCEPT
                   !.status   = IF ask[s].what = "retry" THEN "pending"
                                                         ELSE "cancelled",
                   !.attempts = IF ask[s].what = "retry"
                                THEN AttemptsAfterRetry(kind[j], @) ELSE @,
                   !.wait     = 0,
                   !.owner    = IF seen.owner # NoWorker \/ OwnerHidden(kind[j])
                                THEN NoWorker ELSE @,
                   !.left     = IF seen.owner # NoWorker \/ seen.left > 0
                                THEN 0 ELSE @,
                   !.saves    = IF Versioned(kind[j]) THEN @ + 1 ELSE @]
    IN  /\ ask[s].pc = "read"
        /\ ask' = [ask EXCEPT ![s] = [Unasked(j) EXCEPT !.pc = "closed"]]
        /\ IF Versioned(kind[j]) /\ rec[j].saves # seen.saves
           THEN UNCHANGED <<rec, over>>
           ELSE /\ rec' = [rec EXCEPT ![j] = r]
                /\ over' = [over EXCEPT ![j] = @ \/ rec[j] # seen]
        /\ UNCHANGED <<kind, work, conn, last>>

\* The connector is saved only if it is as it was read, so that reading and
\* saving it are one step.
SetConnector(status) ==
    /\ HasConnector
    /\ conn.status = "revoked" => status = "revoked"
    /\ conn' = [status |-> status,
                fails  |-> IF status = "active" THEN 0 ELSE conn.fails]
    /\ work' = Stale(work)
    /\ UNCHANGED <<kind, rec, ask, last, over>>

\* An active connector whose connection is changed is switched off.
UpdateConnector ==
    /\ HasConnector
    /\ conn.status # "revoked"
    /\ \E status \in {"disabled", conn.status} :
          /\ status # conn.status => conn.status = "active"
          /\ conn' = [conn EXCEPT !.status = status]
    /\ work' = Stale(work)
    /\ UNCHANGED <<kind, rec, ask, last, over>>

-----------------------------------------------------------------------------

Minus1(n) == IF n > 0 THEN n - 1 ELSE 0

Tick ==
    /\ \E j \in Job : rec[j].left > 0 \/ rec[j].wait > 0
    /\ rec' = [j \in Job |-> [rec[j] EXCEPT !.left = Minus1(@),
                                            !.wait = Minus1(@)]]
    /\ over' = [j \in Job |->
                   \/ over[j]
                   \/ rec[j].left = 1 /\ \E w \in Worker : Working(w, j)]
    /\ UNCHANGED <<kind, work, ask, conn, last>>

Next ==
    \/ \E j \in Job : Enqueue(j)
    \/ \E w \in Worker, j \in Job : Claim(w, j)
    \/ \E w \in Worker : WorkStep(w) \/ Heartbeat(w)
    \/ \E p \in WorkerId : Die(p)
    \/ \E s \in Ask, j \in Job, what \in {"retry", "cancel"} : Read(s, j, what)
    \/ \E s \in Ask : Save(s)
    \/ \E status \in {"active", "disabled", "revoked"} : SetConnector(status)
    \/ UpdateConnector
    \/ Tick

Spec == Init /\ [][Next]_vars

\* Processes loop, providers answer, staff requests that have begun end.
Fairness ==
    /\ \A w \in Worker : WF_vars(WorkStep(w))
    /\ \A w \in Worker :
          IdOf[w] \notin Mortal => WF_vars(\E j \in Job : Claim(w, j))
    /\ \A s \in Ask : WF_vars(Save(s))
    /\ WF_vars(Tick)

FairSpec == Spec /\ Fairness

-----------------------------------------------------------------------------
(* Properties *)

\* Every document keeps its type; in particular no record of a queue with a
\* limit is claimed more often than that.
TypeOK ==
    /\ kind \in [Job -> Kinds]
    /\ rec \in [Job -> Record]
    /\ work \in [Worker -> Activity]
    /\ ask \in [Ask -> Request]
    /\ conn \in Connector
    /\ last \in [Job -> Worker \cup {NoWorker}]
    /\ over \in [Job -> BOOLEAN]

\* Two workers are at work on one record only if the claim of one lapsed
\* while it was at work, or if staff saved a copy that was out of date.
OneWorkerAtATime ==
    \A j \in Job : \/ over[j]
                   \/ \A v, w \in Worker : Working(v, j) /\ Working(w, j) => v = w

WritesOutcome(w) == /\ work[w].pc \in {"sent", "refused"}
                    /\ work'[w].pc # work[w].pc
                    /\ rec'[work[w].job] # rec[work[w].job]

\* A worker writes an outcome only if no other process has claimed the record
\* after it.  Another pass of its own process may have, as the two go by one
\* name, but only after a claim lapsed at work or staff overwrote news.
StaleOwnersRejected ==
    [][\A w \in Worker : WritesOutcome(w) =>
          LET j == work[w].job
          IN  \/ last[j] = w
              \/ over[j] /\ IdOf[last[j]] = IdOf[w]]_vars

\* The promise without the exception: workers "reject stale ownership", also
\* that of a pass which the next cycle of its process has overtaken.
StalePassesRejected ==
    [][\A w \in Worker : WritesOutcome(w) => last[work[w].job] = w]_vars

\* The report of a job does not switch on a connector that staff have
\* switched off or revoked while the job ran.
SwitchedOffStaysOff ==
    [][\A w \in Worker :
          /\ work[w].pc \in {"succeeded", "unsuccessful"}
          /\ work'[w].pc = "idle"
          /\ ~Usable
          => conn'.status = conn.status]_vars

Settled(j) == \/ rec[j].status \in {"done", "cancelled", "dead_letter"}
              \/ rec[j].status = "failed" /\ rec[j].attempts = MaxAttempts

\* No worker will claim this record again: its last attempt died with its
\* worker, or staff retried it without a new attempt.
Abandoned(j) == rec[j].attempts = MaxAttempts

\* A record of a queue with a limit is dealt with or runs out of attempts,
\* unless its connector is switched off.
EveryRecordSettles ==
    \A j \in Job :
        Limited(kind[j]) /\ rec[j].status # "absent"
        ~> \/ Settled(j) \/ Abandoned(j)
           \/ kind[j] = "integration" /\ ~Usable
=============================================================================
