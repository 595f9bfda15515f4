---------------------------- MODULE JobRegistry ----------------------------
(***************************************************************************)
(* The in-process job state machine of the API (api/jobs.py) and the life  *)
(* of the process that owns it (api/main.py, lifespan).                    *)
(*                                                                         *)
(* A job has two copies of its status: the JobRecord in the registry's     *)
(* dictionary and the JSON file under results/.tmp/jobs/.  Every handler   *)
(* changes the record first and then calls _persist, which either replaces *)
(* the file or raises OSError and leaves it as it was.  Handlers run on    *)
(* one event loop, so the code between two awaits is one step; the only    *)
(* await a worker is suspended in for long is `await runner(...)`.         *)
(***************************************************************************)
EXTENDS Naturals, Sequences, FiniteSets

CONSTANTS
    Job,         \* job ids; a ULID is drawn once and never again
    KindOrder,   \* the JobKinds, in the order of the enum and of self._workers
    KindOf,      \* the kind each job is submitted under
    NoJob,       \* what a worker that runs nothing holds
    MaxFaults,   \* bound: calls of _persist that raise, starts that cannot read a file
    MaxDeaths    \* bound: how many times the process ends

Kind == {KindOrder[i] : i \in DOMAIN KindOrder}

ASSUME RegistryAssumption ==
    /\ KindOrder \in Seq(Kind)
    /\ KindOf \in [Job -> Kind]
    /\ NoJob \notin Job
    /\ MaxFaults \in Nat
    /\ MaxDeaths \in Nat

Terminal == {"succeeded", "failed", "cancelled"}
JobStatus == {"accepted", "running"} \cup Terminal
Absent == "absent"      \* no such key in _jobs, no such file on disk

\* A worker task: "idle" in queue.get, "busy" in the runner, "cancelling" after
\* task.cancel() and before the task has unwound, "cancelled" or "crashed" when
\* it is done.  A crashed worker still names the record its exception escaped from.
LiveState == {"idle", "busy", "cancelling"}
DoneState == {"cancelled", "crashed"}
Worker == [state : LiveState \cup DoneState, job : Job \cup {NoJob}]
Idle == [state |-> "idle", job |-> NoJob]

VARIABLES
    process,     \* "up", "stopping" (inside shutdown), "stopped", "stop_failed", "down"
    record,      \* self._jobs: the status of each record
    file,        \* the status in each job's JSON file
    queue,       \* self._queues: the FIFO of each kind
    worker,      \* every worker task made for a kind; self._workers[k] is the last one
    awaited,     \* how many kinds shutdown's second loop has been through
    faults,      \* calls of _persist that raised, and starts that skipped files, so far
    deaths,      \* ends of the process so far
    starts,      \* history: how often the runner of each job was entered
    submitted,   \* history: the jobs whose submit() returned, in that order
    epoch,       \* history: how many of them a previous process had accepted
    cancelAcked, \* history: the jobs for which cancel() returned True
    skipped      \* history: the jobs whose file the last load_all could not read

history == <<starts, submitted, epoch, cancelAcked, skipped>>
vars == <<process, record, file, queue, worker, awaited, faults, deaths,
          starts, submitted, epoch, cancelAcked, skipped>>

TypeOK ==
    /\ process \in {"up", "stopping", "stopped", "stop_failed", "down"}
    /\ record \in [Job -> JobStatus \cup {Absent}]
    /\ file \in [Job -> JobStatus \cup {Absent}]
    /\ queue \in [Kind -> Seq(Job)]
    /\ worker \in [Kind -> Seq(Worker)]
    /\ awaited \in Nat
    /\ faults \in Nat
    /\ deaths \in Nat
    /\ starts \in [Job -> Nat]
    /\ submitted \in Seq(Job)
    /\ epoch \in Nat
    /\ cancelAcked \in SUBSET Job
    /\ skipped \in SUBSET Job

Init ==
    /\ process = "up"
    /\ record = [j \in Job |-> Absent]
    /\ file = [j \in Job |-> Absent]
    /\ queue = [k \in Kind |-> <<>>]
    /\ worker = [k \in Kind |-> <<>>]
    /\ awaited = 0
    /\ faults = 0
    /\ deaths = 0
    /\ starts = [j \in Job |-> 0]
    /\ submitted = <<>>
    /\ epoch = 0
    /\ cancelAcked = {}
    /\ skipped = {}

-----------------------------------------------------------------------------
\* _persist: the rename replaced the file, or something before it raised.
Persist(j, status) ==
    /\ file' = [file EXCEPT ![j] = status]
    /\ UNCHANGED faults

PersistRaises ==
    /\ faults < MaxFaults
    /\ faults' = faults + 1
    /\ UNCHANGED file

\* self._workers[k] is None, or its task is done().
NeedsWorker(k) ==
    worker[k] # <<>> => worker[k][Len(worker[k])].state \in DoneState

\* Faulty variant: create_task without looking at the task that is there.
AlwaysNewWorker(k) == worker' = [worker EXCEPT ![k] = Append(@, Idle)]

EnsureWorker(k) ==
    worker' = IF NeedsWorker(k)
              THEN [worker EXCEPT ![k] = Append(@, Idle)]
              ELSE worker

\* Faulty variant: the newest job of a kind is taken first.
PutFirst(j) == queue' = [queue EXCEPT ![KindOf[j]] = <<j>> \o @]

Put(j) == queue' = [queue EXCEPT ![KindOf[j]] = Append(@, j)]

\* submit(): the record is in the dictionary before it is on disk.  When
\* _persist raises the caller gets the exception, and the record stays behind
\* as ACCEPTED with nothing in the queue.
Submit(j) ==
    /\ process = "up"
    /\ record[j] = Absent /\ file[j] = Absent
    /\ record' = [record EXCEPT ![j] = "accepted"]
    /\ \/ /\ Persist(j, "accepted")
          /\ Put(j)
          /\ EnsureWorker(KindOf[j])
          /\ submitted' = Append(submitted, j)
       \/ /\ PersistRaises
          /\ UNCHANGED <<queue, worker, submitted>>
    /\ UNCHANGED <<process, awaited, deaths, starts, epoch, cancelAcked, skipped>>

\* Faulty variant: a job that already runs can be cancelled too.
NotYetSettled(j) == record[j] \in {"accepted", "running"}

Cancellable(j) == record[j] = "accepted"

\* cancel(): the entry stays in the queue; the worker drops it when it gets there.
Cancel(j) ==
    /\ process = "up"
    /\ Cancellable(j)
    /\ record' = [record EXCEPT ![j] = "cancelled"]
    /\ \/ /\ Persist(j, "cancelled")
          /\ cancelAcked' = cancelAcked \cup {j}
       \/ /\ PersistRaises
          /\ UNCHANGED cancelAcked
    /\ UNCHANGED <<process, queue, worker, awaited, deaths, starts, submitted, epoch, skipped>>

-----------------------------------------------------------------------------
(* The loop of _kind_worker(k), run by the i-th worker task of the kind. *)

\* Faulty variant: cancelled entries of the queue are not recognised.
NeverDropped(j) == FALSE

Dropped(j) == record[j] = "cancelled"

\* Faulty variant: the worker returns, where it should continue, after a
\* cancelled entry.
SkipAndReturn(k, i) ==
    /\ worker[k][i].state = "idle"
    /\ queue[k] # <<>>
    /\ Dropped(Head(queue[k]))
    /\ queue' = [queue EXCEPT ![k] = Tail(@)]
    /\ worker' = [worker EXCEPT ![k][i] = [state |-> "cancelled", job |-> NoJob]]
    /\ UNCHANGED <<process, record, file, awaited, faults, deaths>>
    /\ UNCHANGED history

Skip(k, i) ==
    /\ worker[k][i].state = "idle"
    /\ queue[k] # <<>>
    /\ Dropped(Head(queue[k]))
    /\ queue' = [queue EXCEPT ![k] = Tail(@)]
    /\ UNCHANGED <<process, record, file, worker, awaited, faults, deaths>>
    /\ UNCHANGED history

\* RUNNING is persisted outside the try block: an OSError there ends the task
\* before the runner is entered.
Start(k, i) ==
    LET j == Head(queue[k]) IN
    /\ worker[k][i].state = "idle"
    /\ queue[k] # <<>>
    /\ ~Dropped(j)
    /\ queue' = [queue EXCEPT ![k] = Tail(@)]
    /\ record' = [record EXCEPT ![j] = "running"]
    /\ \/ /\ Persist(j, "running")
          /\ worker' = [worker EXCEPT ![k][i] = [state |-> "busy", job |-> j]]
          /\ starts' = [starts EXCEPT ![j] = @ + 1]
       \/ /\ PersistRaises
          /\ worker' = [worker EXCEPT ![k][i] = [state |-> "crashed", job |-> j]]
          /\ UNCHANGED starts
    /\ UNCHANGED <<process, awaited, deaths, submitted, epoch, cancelAcked, skipped>>

\* The runner returned ("succeeded") or raised ("failed").  Neither of the two
\* _persist calls that follow is guarded, so an OSError ends the task.
Finish(k, i, outcome) ==
    LET j == worker[k][i].job IN
    /\ worker[k][i].state = "busy"
    /\ record' = [record EXCEPT ![j] = outcome]
    /\ \/ /\ Persist(j, outcome)
          /\ worker' = [worker EXCEPT ![k][i] = Idle]
       \/ /\ PersistRaises
          /\ worker' = [worker EXCEPT ![k][i] = [state |-> "crashed", job |-> j]]
    /\ UNCHANGED <<process, queue, awaited, deaths>>
    /\ UNCHANGED history

\* Faulty variant: the loop swallows CancelledError and goes on.
UnwindSwallowed(k, i) ==
    /\ worker[k][i].state = "cancelling"
    /\ worker' = [worker EXCEPT ![k][i] = Idle]
    /\ UNCHANGED <<process, record, file, queue, awaited, faults, deaths>>
    /\ UNCHANGED history

\* CancelledError is no Exception: it passes the except clause of the loop and
\* leaves the record RUNNING.
Unwind(k, i) ==
    /\ worker[k][i].state = "cancelling"
    /\ worker' = [worker EXCEPT ![k][i] = [state |-> "cancelled", job |-> NoJob]]
    /\ UNCHANGED <<process, record, file, queue, awaited, faults, deaths>>
    /\ UNCHANGED history

-----------------------------------------------------------------------------
(* lifespan's finally block, the end of the process, and the next start. *)

\* shutdown(), first loop: task.cancel() on every worker that is not done.
BeginShutdown ==
    /\ process = "up"
    /\ process' = "stopping"
    /\ worker' = [k \in Kind |->
                    IF NeedsWorker(k) THEN worker[k]
                    ELSE [worker[k] EXCEPT ![Len(worker[k])].state = "cancelling"]]
    /\ awaited' = 0
    /\ UNCHANGED <<record, file, queue, faults, deaths>>
    /\ UNCHANGED history

\* shutdown(), second loop: `await task` for each kind in turn.  Only
\* CancelledError is suppressed, so awaiting a crashed worker raises its OSError
\* out of shutdown().
\*
\* Faulty variant: the first loop cancels, the second waits for nobody.
AwaitNobody ==
    /\ process = "stopping"
    /\ awaited < Len(KindOrder)
    /\ awaited' = awaited + 1
    /\ UNCHANGED <<process, record, file, queue, worker, faults, deaths>>
    /\ UNCHANGED history

AwaitWorker ==
    /\ process = "stopping"
    /\ awaited < Len(KindOrder)
    /\ LET k == KindOrder[awaited + 1] IN
        /\ NeedsWorker(k)
        /\ IF worker[k] # <<>> /\ worker[k][Len(worker[k])].state = "crashed"
           THEN process' = "stop_failed" /\ UNCHANGED awaited
           ELSE awaited' = awaited + 1 /\ UNCHANGED process
    /\ UNCHANGED <<record, file, queue, worker, faults, deaths>>
    /\ UNCHANGED history

EndShutdown ==
    /\ process = "stopping"
    /\ awaited = Len(KindOrder)
    /\ process' = "stopped"
    /\ UNCHANGED <<record, file, queue, worker, awaited, faults, deaths>>
    /\ UNCHANGED history

\* The process ends, in the middle of anything or after its shutdown: what was
\* only in memory is gone.
Die ==
    /\ process # "down"
    /\ deaths < MaxDeaths
    /\ process' = "down"
    /\ record' = [j \in Job |-> Absent]
    /\ queue' = [k \in Kind |-> <<>>]
    /\ worker' = [k \in Kind |-> <<>>]
    /\ awaited' = 0
    /\ deaths' = deaths + 1
    /\ UNCHANGED <<file, faults, starts, submitted, epoch, cancelAcked, skipped>>

\* load_all(): RUNNING files become FAILED, on disk and in memory; an ACCEPTED
\* record comes back as it was, and into no queue.
Orphans == {j \in Job : file[j] = "running"}

\* Faulty variant: a status outside the enum, which cannot be read back.
Interrupted(S) == [j \in Job |-> IF j \in S THEN "interrupted" ELSE file[j]]

Failed(S) == [j \in Job |-> IF j \in S THEN "failed" ELSE file[j]]

\* Faulty variant: a file that cannot be read is taken for a new job.
TakenAsAccepted(files, S) == [j \in Job |-> IF j \in S THEN "accepted" ELSE files[j]]

\* The records of the files that were read: a job in S has none.
Without(files, S) == [j \in Job |-> IF j \in S THEN Absent ELSE files[j]]

\* The files that cannot be read or parsed are left where they are, with a warning.
Unreadable ==
    \/ skipped' = {} /\ UNCHANGED faults
    \/ /\ faults < MaxFaults /\ faults' = faults + 1
       /\ skipped' \in SUBSET {j \in Job : file[j] # Absent} \ {{}}

\* Faulty variant: the orphan is FAILED in memory and still RUNNING on disk.
LoadAllInMemory ==
    /\ process = "down"
    /\ process' = "up"
    /\ Unreadable
    /\ record' = Without(Failed(Orphans), skipped')
    /\ epoch' = Len(submitted)
    /\ UNCHANGED <<file, queue, worker, awaited, deaths, starts, submitted, cancelAcked>>

\* Faulty variant: an orphan is put back into the queue of its kind and retried.
LoadAllRetries ==
    /\ process = "down"
    /\ process' = "up"
    /\ \E q \in [Kind -> {<<>>} \cup {<<j>> : j \in Orphans}] :
        /\ \A k \in Kind : q[k] # <<>> => KindOf[Head(q[k])] = k
        /\ queue' = q
    /\ record' = file
    /\ epoch' = Len(submitted)
    /\ skipped' = {}
    /\ UNCHANGED <<file, worker, awaited, faults, deaths, starts, submitted, cancelAcked>>

LoadAll ==
    /\ process = "down"
    /\ process' = "up"
    /\ Unreadable
    /\ file' = Failed(Orphans \ skipped')
    /\ record' = Without(file', skipped')
    /\ epoch' = Len(submitted)
    /\ UNCHANGED <<queue, worker, awaited, deaths, starts, submitted, cancelAcked>>

\* _persist raises inside load_all: the orphans before that one in the sorted
\* directory are rewritten, and the start of the process fails.
LoadAllRaises ==
    /\ process = "down"
    /\ faults < MaxFaults
    /\ faults' = faults + 1
    /\ \E S \in SUBSET Orphans : S # Orphans /\ file' = Failed(S)
    /\ UNCHANGED <<process, record, queue, worker, awaited, deaths>>
    /\ UNCHANGED history

-----------------------------------------------------------------------------
WorkerStep(k) ==
    \E i \in DOMAIN worker[k] :
        \/ Skip(k, i)
        \/ Start(k, i)
        \/ \E outcome \in {"succeeded", "failed"} : Finish(k, i, outcome)
        \/ Unwind(k, i)

Next ==
    \/ \E j \in Job : Submit(j) \/ Cancel(j)
    \/ \E k \in Kind : WorkerStep(k)
    \/ BeginShutdown
    \/ AwaitWorker
    \/ EndShutdown
    \/ Die
    \/ LoadAll
    \/ LoadAllRaises

Spec == Init /\ [][Next]_vars

\* The event loop runs every task that is ready, and the runners terminate (the
\* refresh is bounded by REFRESH_TIMEOUT_SECONDS, the backtest is a finite
\* computation); nothing obliges a client to submit or the process to die.
Fairness ==
    /\ \A k \in Kind : WF_vars(WorkerStep(k))
    /\ WF_vars(AwaitWorker)
    /\ WF_vars(EndShutdown)
    /\ WF_vars(LoadAll)

FairSpec == Spec /\ Fairness

-----------------------------------------------------------------------------
(* Properties *)

Live(k) == {i \in DOMAIN worker[k] : worker[k][i].state \in LiveState}
Executing(j, k, i) == worker[k][i].job = j /\ worker[k][i].state \in {"busy", "cancelling"}
HeldByCrashed(j) ==
    \E k \in Kind : \E i \in DOMAIN worker[k] :
        worker[k][i] = [state |-> "crashed", job |-> j]
HasCrashed(k) == worker[k] # <<>> /\ worker[k][Len(worker[k])].state = "crashed"
InQueue(j) == \E k \in Kind : \E n \in DOMAIN queue[k] : queue[k][n] = j

\* "One worker per JobKind guarantees at most one job of each kind runs at a
\* time": however often workers crash and submit() replaces them, a kind never
\* has two runners in progress, nor two workers that could start one.
OneJobPerKind ==
    \A k \in Kind : \A i1, i2 \in Live(k) : i1 = i2

\* The runner of a job is entered at most once, across crashes of the worker,
\* restarts of the process and reloads of the directory: a refresh or a
\* backtest is never silently repeated.
RunnerEnteredOnce == \A j \in Job : starts[j] <= 1

\* "Same-kind jobs are strictly FIFO": a job's runner is entered only when every
\* job of its kind that this process accepted before it has left ACCEPTED.
FifoPerKind ==
    process # "down" =>
        \A m, n \in epoch + 1 .. Len(submitted) :
            /\ m < n
            /\ KindOf[submitted[m]] = KindOf[submitted[n]]
            /\ starts[submitted[n]] > 0
            => record[submitted[m]] # "accepted"

\* A cancel() that returned True is final: the runner was not and will not be
\* entered, and the job stays CANCELLED on disk and in memory through restarts, in
\* memory only as long as its file can be read.
AckedCancelIsFinal ==
    \A j \in cancelAcked :
        /\ starts[j] = 0
        /\ file[j] = "cancelled"
        /\ process # "down" /\ j \notin skipped => record[j] = "cancelled"

\* What a restart can take back.  The file of a job differs from its record only
\* by the one transition whose _persist raised: a submit, a cancel of a job that
\* had not started, or the transition at which the worker of its kind crashed.  A
\* job whose file load_all could not read has no record, and keeps its file, orphan
\* or not, for a later start.
DiskLagsByOneStep ==
    process # "down" =>
        \A j \in Job : record[j] # file[j] =>
            \/ <<record[j], file[j]>> \in {<<"accepted", "absent">>,
                     <<"cancelled", "absent">>, <<"cancelled", "accepted">>}
            \/ /\ HeldByCrashed(j)
               /\ <<record[j], file[j]>> \in {<<"running", "accepted">>,
                     <<"succeeded", "running">>, <<"failed", "running">>}
            \/ j \in skipped /\ record[j] = Absent

\* A status that promises progress has something behind it.  RUNNING means that
\* a worker is in the runner or crashed with the job in its hands; ACCEPTED means
\* that the job is in the queue, unless its submit() raised or it was accepted by
\* an earlier process, which load_all does not put back into a queue.
NoJobForgotten ==
    process # "down" =>
        \A j \in Job :
            /\ record[j] = "running" =>
                  \/ HeldByCrashed(j)
                  \/ \E k \in Kind : \E i \in DOMAIN worker[k] : Executing(j, k, i)
                  \/ process # "up"
            /\ record[j] = "accepted" =>
                  \/ InQueue(j)
                  \/ file[j] = Absent
                  \/ \E n \in 1 .. epoch : submitted[n] = j

\* A settled status never changes again once it is on disk, whatever is
\* cancelled, crashed or reloaded afterwards.
SettledIsFinal ==
    [][\A j \in Job : file[j] \in Terminal => file'[j] = file[j]]_vars

\* When shutdown() returns, no worker of the registry is left to run: the adapters
\* that lifespan closes next are used by no job, only by a refresh the scheduler may
\* still be running.
ShutdownLeavesNoWorker ==
    process = "stopped" => \A k \in Kind : Live(k) = {}

\* A job in the queue is run or cancelled, unless the process stops first or a
\* _persist that raised has ended the worker of its kind: then it waits for the
\* next submit() of that kind.  Neither a cancelled entry nor a failing job ahead
\* of it stops the worker.
QueuedJobsSettle ==
    \A j \in Job :
        InQueue(j) ~> \/ record[j] \in Terminal
                     \/ process # "up"
                     \/ HasCrashed(KindOf[j])

\* shutdown() ends: every cancelled worker unwinds, and the loop that waits for
\* them gets to its end or raises.
ShutdownEnds == (process = "stopping") ~> (process # "stopping")

-----------------------------------------------------------------------------
(* What the documentation says and the code does not do *)

\* shutdown: "Cancel all worker tasks and wait for them to finish."  However it
\* ends, no worker is left.
ShutdownWaitsForAll ==
    process \in {"stopped", "stop_failed"} => \A k \in Kind : Live(k) = {}

-----------------------------------------------------------------------------
(* The abstract service: where each job is, seen from its client *)

phase == [j \in Job |->
    IF \E k \in Kind : \E i \in DOMAIN worker[k] : Executing(j, k, i) THEN "executing"
    ELSE IF record[j] = "accepted" /\ InQueue(j) THEN "queued"
    ELSE IF \E n \in DOMAIN submitted : submitted[n] = j THEN "over"
    ELSE "new"]

Service == INSTANCE JobService WITH Job <- Job, KindOf <- KindOf, phase <- phase

\* The registry implements the abstract service: jobs only move forward, one of
\* each kind executes at a time, and a restart ends everything it interrupts.
ImplementsService == Service!Spec
=============================================================================
