------------------------- MODULE JobRegistryProofs -------------------------
(***************************************************************************)
(* What JobRegistry guarantees for any set of jobs, any number of kinds,   *)
(* and any number of failed writes and restarts.                           *)
(***************************************************************************)
EXTENDS JobRegistry, SequenceTheorems, TLAPS

(***************************************************************************)
(* The inductive invariant.  OneJobPerKind needs to know that a worker     *)
(* replaced by submit() was done; RunnerEnteredOnce that a queue never     *)
(* holds a job twice nor one that was started; AckedCancelIsFinal that a   *)
(* started job is nowhere ACCEPTED, on disk and after a reload included.   *)
(* A job whose file could not be read at the last start has no record.     *)
(***************************************************************************)
OldWorkersDone ==
    \A k \in Kind : \A i \in DOMAIN worker[k] :
        i < Len(worker[k]) => worker[k][i].state \in DoneState

BusyWasStarted ==
    \A k \in Kind : \A i \in DOMAIN worker[k] :
        worker[k][i].state = "busy" =>
            worker[k][i].job \in Job /\ starts[worker[k][i].job] > 0

StartedIsPastAccepted ==
    \A j \in Job : starts[j] > 0 =>
        /\ file[j] \notin {"absent", "accepted"}
        /\ process # "down" => record[j] # "accepted"

AckedHasNoOtherRecord ==
    process # "down" => \A j \in cancelAcked : record[j] \in {"cancelled", "absent"}

QueueHoldsUnstarted ==
    \A k \in Kind : \A m \in DOMAIN queue[k] :
        /\ KindOf[queue[k][m]] = k
        /\ starts[queue[k][m]] = 0
        /\ record[queue[k][m]] \in {"accepted", "cancelled"}
        /\ \A n \in DOMAIN queue[k] : queue[k][m] = queue[k][n] => m = n

DownIsEmpty ==
    process = "down" => \A k \in Kind : queue[k] = <<>> /\ worker[k] = <<>>

IInv ==
    /\ TypeOK
    /\ OldWorkersDone
    /\ BusyWasStarted
    /\ StartedIsPastAccepted
    /\ QueueHoldsUnstarted
    /\ DownIsEmpty
    /\ RunnerEnteredOnce
    /\ AckedCancelIsFinal
    /\ AckedHasNoOtherRecord

-----------------------------------------------------------------------------
(* The effect of the updates of queue and worker, position by position. *)

\* Setting one entry of a kind's sequence of worker tasks changes that entry only.
LEMMA WorkerEntrySet ==
    ASSUME TypeOK, NEW k \in Kind, NEW i \in DOMAIN worker[k], NEW w \in Worker,
           worker' = [worker EXCEPT ![k][i] = w]
    PROVE  /\ worker' \in [Kind -> Seq(Worker)]
           /\ \A k2 \in Kind :
                /\ Len(worker'[k2]) = Len(worker[k2])
                /\ DOMAIN worker'[k2] = DOMAIN worker[k2]
                /\ \A i2 \in DOMAIN worker[k2] :
                     worker'[k2][i2] = IF k2 = k /\ i2 = i THEN w ELSE worker[k2][i2]
<1>1. worker[k] \in Seq(Worker) /\ DOMAIN worker[k] = 1 .. Len(worker[k])
  BY LenProperties DEF TypeOK
<1>2. DEFINE t == [worker[k] EXCEPT ![i] = w]
<1>3. t \in Seq(Worker) /\ Len(t) = Len(worker[k])
      /\ \A j \in 1 .. Len(worker[k]) : t[j] = IF j = i THEN w ELSE worker[k][j]
  BY <1>1, ExceptSeq
<1>4. DOMAIN t = 1 .. Len(t)
  BY <1>3, LenProperties
<1>5. worker' = [worker EXCEPT ![k] = t]
  OBVIOUS
<1>6. worker' \in [Kind -> Seq(Worker)]
      /\ \A k2 \in Kind : worker'[k2] = IF k2 = k THEN t ELSE worker[k2]
  <2> HIDE DEF t
  <2> QED BY <1>3, <1>5 DEF TypeOK
<1> HIDE DEF t
<1> QED BY <1>1, <1>3, <1>4, <1>6

\* submit() adds at most one idle worker, and only behind a worker that is done.
LEMMA WorkerEnsured ==
    ASSUME TypeOK, NEW k \in Kind, EnsureWorker(k)
    PROVE  /\ worker' \in [Kind -> Seq(Worker)]
           /\ \A k2 \in Kind : \A i \in DOMAIN worker'[k2] :
                \/ /\ i \in DOMAIN worker[k2]
                   /\ worker'[k2][i] = worker[k2][i]
                   /\ i < Len(worker'[k2]) =>
                        i < Len(worker[k2]) \/ worker[k2][i].state \in DoneState
                \/ i = Len(worker'[k2]) /\ worker'[k2][i] = Idle
<1>1. worker[k] \in Seq(Worker) /\ DOMAIN worker[k] = 1 .. Len(worker[k])
      /\ Len(worker[k]) \in Nat
  BY LenProperties DEF TypeOK
<1>2. Idle \in Worker
  BY DEF Idle, Worker, LiveState
<1>3. CASE ~NeedsWorker(k)
  BY <1>3 DEF EnsureWorker, TypeOK
<1>4. CASE NeedsWorker(k)
  <2> DEFINE t == Append(worker[k], Idle)
  <2>1. /\ t \in Seq(Worker)
        /\ Len(t) = Len(worker[k]) + 1
        /\ \A j \in 1 .. Len(worker[k]) : t[j] = worker[k][j]
        /\ t[Len(worker[k]) + 1] = Idle
    BY <1>1, <1>2
  <2>2. DOMAIN t = 1 .. Len(worker[k]) + 1
    BY <2>1, LenProperties
  <2>3. worker' = [worker EXCEPT ![k] = t]
    BY <1>4 DEF EnsureWorker
  <2> HIDE DEF t
  <2>4. worker' \in [Kind -> Seq(Worker)]
        /\ \A k2 \in Kind : worker'[k2] = IF k2 = k THEN t ELSE worker[k2]
    BY <2>1, <2>3 DEF TypeOK
  <2>5. \A i \in 1 .. Len(worker[k]) :
            i < Len(worker[k]) \/ worker[k][i].state \in DoneState
    <3> SUFFICES ASSUME NEW i \in 1 .. Len(worker[k]), ~(i < Len(worker[k]))
                 PROVE  worker[k][i].state \in DoneState
      OBVIOUS
    <3>1. i = Len(worker[k]) /\ worker[k] # <<>>
      BY <1>1
    <3> QED BY <3>1, <1>4 DEF NeedsWorker
  <2>6. \A i \in DOMAIN t :
            \/ i \in DOMAIN worker[k] /\ t[i] = worker[k][i]
               /\ (i < Len(worker[k]) \/ worker[k][i].state \in DoneState)
            \/ i = Len(t) /\ t[i] = Idle
    <3> SUFFICES ASSUME NEW i \in 1 .. Len(worker[k]) + 1
                 PROVE  \/ i \in DOMAIN worker[k] /\ t[i] = worker[k][i]
                           /\ (i < Len(worker[k]) \/ worker[k][i].state \in DoneState)
                        \/ i = Len(t) /\ t[i] = Idle
      BY <2>2
    <3>1. i \in 1 .. Len(worker[k]) \/ i = Len(worker[k]) + 1
      BY <1>1
    <3>2. CASE i \in 1 .. Len(worker[k])
      BY <3>2, <1>1, <2>1, <2>5
    <3>3. CASE i = Len(worker[k]) + 1
      <4>1. t[i] = Idle
        BY <3>3, <2>1
      <4> QED BY <4>1, <3>3, <2>1
    <3> QED BY <3>1, <3>2, <3>3
  <2>7. ASSUME NEW k2 \in Kind, k2 # k, NEW i \in DOMAIN worker'[k2]
        PROVE  i \in DOMAIN worker[k2] /\ worker'[k2][i] = worker[k2][i]
               /\ Len(worker'[k2]) = Len(worker[k2])
    BY <2>4, <2>7
  <2>8. worker'[k] = t
    BY <2>4
  <2>9. ASSUME NEW i \in DOMAIN worker'[k]
        PROVE  \/ /\ i \in DOMAIN worker[k]
                  /\ worker'[k][i] = worker[k][i]
                  /\ i < Len(worker'[k]) =>
                       i < Len(worker[k]) \/ worker[k][i].state \in DoneState
               \/ i = Len(worker'[k]) /\ worker'[k][i] = Idle
    BY <2>6, <2>8
  <2> QED BY <2>4, <2>7, <2>9
<1> QED BY <1>3, <1>4

\* Taking the head moves every other entry of that queue one place forward.
LEMMA QueueTaken ==
    ASSUME TypeOK, NEW k \in Kind, queue[k] # <<>>,
           queue' = [queue EXCEPT ![k] = Tail(@)]
    PROVE  /\ queue' \in [Kind -> Seq(Job)]
           /\ Head(queue[k]) = queue[k][1] /\ 1 \in DOMAIN queue[k]
           /\ \A k2 \in Kind : k2 # k => queue'[k2] = queue[k2]
           /\ \A m \in DOMAIN queue'[k] :
                m \in Nat /\ m + 1 \in DOMAIN queue[k] /\ m + 1 # 1
                /\ queue'[k][m] = queue[k][m + 1]
<1>1. queue[k] \in Seq(Job) /\ DOMAIN queue[k] = 1 .. Len(queue[k])
      /\ Len(queue[k]) \in Nat /\ Len(queue[k]) # 0
  BY LenProperties, EmptySeq DEF TypeOK
<1> DEFINE t == Tail(queue[k])
<1>2. t \in Seq(Job) /\ Len(t) = Len(queue[k]) - 1
      /\ \A m \in 1 .. Len(t) : t[m] = queue[k][m + 1]
  BY <1>1, HeadTailProperties
<1>3. DOMAIN t = 1 .. Len(t)
  BY <1>2, LenProperties
<1>4. Head(queue[k]) = queue[k][1]
  BY <1>1
<1> HIDE DEF t
<1>5. queue' = [queue EXCEPT ![k] = t]
  BY DEF t
<1>6. queue' \in [Kind -> Seq(Job)]
      /\ \A k2 \in Kind : queue'[k2] = IF k2 = k THEN t ELSE queue[k2]
  BY <1>2, <1>5 DEF TypeOK
<1> QED BY <1>1, <1>2, <1>3, <1>4, <1>6

\* Putting a job appends it to the queue of its kind.
LEMMA QueuePut ==
    ASSUME RegistryAssumption, TypeOK, NEW j \in Job, Put(j)
    PROVE  /\ KindOf[j] \in Kind
           /\ queue' \in [Kind -> Seq(Job)]
           /\ \A k \in Kind : \A m \in DOMAIN queue'[k] :
                \/ m \in DOMAIN queue[k] /\ queue'[k][m] = queue[k][m]
                \/ /\ k = KindOf[j] /\ queue'[k][m] = j
                   /\ m = Len(queue[k]) + 1 /\ m \notin DOMAIN queue[k]
<1> DEFINE k == KindOf[j]
<1>1. k \in Kind
  BY DEF RegistryAssumption
<1>2. queue[k] \in Seq(Job) /\ DOMAIN queue[k] = 1 .. Len(queue[k]) /\ Len(queue[k]) \in Nat
  BY <1>1, LenProperties DEF TypeOK
<1> DEFINE t == Append(queue[k], j)
<1>3. /\ t \in Seq(Job)
      /\ Len(t) = Len(queue[k]) + 1
      /\ \A m \in 1 .. Len(queue[k]) : t[m] = queue[k][m]
      /\ t[Len(queue[k]) + 1] = j
  BY <1>2
<1>4. DOMAIN t = 1 .. Len(queue[k]) + 1
  BY <1>3, LenProperties
<1> HIDE DEF t
<1>5. queue' = [queue EXCEPT ![k] = t]
  BY DEF Put, t
<1> HIDE DEF k
<1>6. queue' \in [Kind -> Seq(Job)]
      /\ \A k2 \in Kind : queue'[k2] = IF k2 = k THEN t ELSE queue[k2]
  BY <1>1, <1>3, <1>5 DEF TypeOK
<1>7. \A m \in DOMAIN t :
         \/ m \in DOMAIN queue[k] /\ t[m] = queue[k][m]
         \/ t[m] = j /\ m = Len(queue[k]) + 1 /\ m \notin DOMAIN queue[k]
  <2> SUFFICES ASSUME NEW m \in 1 .. Len(queue[k]) + 1
               PROVE  \/ m \in DOMAIN queue[k] /\ t[m] = queue[k][m]
                      \/ t[m] = j /\ m = Len(queue[k]) + 1 /\ m \notin DOMAIN queue[k]
    BY <1>4
  <2>1. m \in 1 .. Len(queue[k]) \/ m = Len(queue[k]) + 1
    BY <1>2
  <2>2. CASE m \in 1 .. Len(queue[k])
    BY <2>2, <1>2, <1>3
  <2>3. CASE m = Len(queue[k]) + 1
    <3>1. t[m] = j
      BY <2>3, <1>3
    <3> QED BY <3>1, <2>3, <1>2
  <2> QED BY <2>1, <2>2, <2>3
<1>8. ASSUME NEW k2 \in Kind, NEW m \in DOMAIN queue'[k2]
      PROVE  \/ m \in DOMAIN queue[k2] /\ queue'[k2][m] = queue[k2][m]
             \/ /\ k2 = k /\ queue'[k2][m] = j
                /\ m = Len(queue[k2]) + 1 /\ m \notin DOMAIN queue[k2]
  <2>1. CASE k2 = k
    <3>1. queue'[k2] = t
      BY <2>1, <1>6
    <3> QED BY <2>1, <3>1, <1>7
  <2>2. CASE k2 # k
    BY <2>2, <1>6
  <2> QED BY <2>1, <2>2
<1> QED BY <1>1, <1>6, <1>8 DEF k

\* The entries of a queue are jobs.
LEMMA QueueEntries ==
    ASSUME TypeOK
    PROVE  \A k \in Kind : \A m \in DOMAIN queue[k] : queue[k][m] \in Job
BY LenProperties, ElementOfSeq DEF TypeOK

\* A worker that is not done is the one self._workers points to.
LEMMA LiveIsLast ==
    ASSUME TypeOK, OldWorkersDone, NEW k \in Kind, NEW i \in DOMAIN worker[k],
           worker[k][i].state \notin DoneState
    PROVE  i = Len(worker[k]) /\ ~(i < Len(worker[k]))
<1>1. worker[k] \in Seq(Worker)
  BY DEF TypeOK
<1>2. DOMAIN worker[k] = 1 .. Len(worker[k]) /\ Len(worker[k]) \in Nat
  BY <1>1, LenProperties
<1>3. ~(i < Len(worker[k]))
  BY DEF OldWorkersDone
<1> QED BY <1>2, <1>3

\* There is no worker while the process is down.
LEMMA WorkerMeansAlive ==
    ASSUME DownIsEmpty, NEW k \in Kind, NEW i \in DOMAIN worker[k]
    PROVE  process # "down"
<1> SUFFICES ASSUME worker[k] = <<>> PROVE FALSE
  BY DEF DownIsEmpty
<1> QED OBVIOUS

-----------------------------------------------------------------------------
(* IInv is preserved by every action. *)

LEMMA InitEstablishes == Init => IInv
<1> SUFFICES ASSUME Init PROVE IInv
  OBVIOUS
<1>1. TypeOK
  BY DEF Init, TypeOK
<1>2. DownIsEmpty /\ StartedIsPastAccepted /\ RunnerEnteredOnce /\ AckedCancelIsFinal
      /\ AckedHasNoOtherRecord
  BY DEF Init, DownIsEmpty, StartedIsPastAccepted, RunnerEnteredOnce, AckedCancelIsFinal,
         AckedHasNoOtherRecord
<1>3. OldWorkersDone /\ BusyWasStarted /\ QueueHoldsUnstarted
  BY DEF Init, OldWorkersDone, BusyWasStarted, QueueHoldsUnstarted
<1> QED BY <1>1, <1>2, <1>3 DEF IInv

LEMMA SubmitPreserves ==
    ASSUME IInv, NEW j \in Job, Submit(j)
    PROVE  IInv'
<1> USE RegistryAssumption DEF IInv
<1>1. record' = [record EXCEPT ![j] = "accepted"] /\ process = "up"
      /\ record[j] = "absent" /\ file[j] = "absent" /\ ~(starts[j] > 0)
      /\ UNCHANGED <<process, awaited, deaths, starts, epoch, cancelAcked, skipped>>
  BY DEF Submit, Absent, StartedIsPastAccepted
<1>2. record' \in [Job -> JobStatus \cup {Absent}]
      /\ \A i \in Job : record'[i] = IF i = j THEN "accepted" ELSE record[i]
  BY <1>1 DEF TypeOK, JobStatus
<1>3. CASE /\ Persist(j, "accepted") /\ Put(j) /\ EnsureWorker(KindOf[j])
           /\ submitted' = Append(submitted, j)
  <2>1. KindOf[j] \in Kind /\ queue' \in [Kind -> Seq(Job)]
        /\ \A k \in Kind : \A m \in DOMAIN queue'[k] :
                \/ m \in DOMAIN queue[k] /\ queue'[k][m] = queue[k][m]
                \/ /\ k = KindOf[j] /\ queue'[k][m] = j
                   /\ m = Len(queue[k]) + 1 /\ m \notin DOMAIN queue[k]
    BY <1>3, QueuePut
  <2>2. /\ worker' \in [Kind -> Seq(Worker)]
        /\ \A k \in Kind : \A i \in DOMAIN worker'[k] :
                \/ /\ i \in DOMAIN worker[k]
                   /\ worker'[k][i] = worker[k][i]
                   /\ i < Len(worker'[k]) =>
                        i < Len(worker[k]) \/ worker[k][i].state \in DoneState
                \/ i = Len(worker'[k]) /\ worker'[k][i] = Idle
    BY <1>3, <2>1, WorkerEnsured
  <2>3. file' \in [Job -> JobStatus \cup {Absent}] /\ UNCHANGED faults
        /\ \A i \in Job : file'[i] = IF i = j THEN "accepted" ELSE file[i]
    BY <1>3 DEF Persist, TypeOK, JobStatus
  <2>4. TypeOK'
    BY <1>1, <1>2, <1>3, <2>1, <2>2, <2>3 DEF TypeOK
  <2>5. OldWorkersDone'
    <3> SUFFICES ASSUME NEW k \in Kind, NEW i \in DOMAIN worker'[k], i < Len(worker'[k])
                 PROVE  worker'[k][i].state \in DoneState
      BY DEF OldWorkersDone
    <3>1. i # Len(worker'[k])
      BY <2>2, LenProperties
    <3> QED BY <2>2, <3>1 DEF OldWorkersDone
  <2>6. BusyWasStarted'
    BY <1>1, <2>2 DEF BusyWasStarted, Idle
  <2>7. StartedIsPastAccepted'
    BY <1>1, <1>2, <2>3 DEF StartedIsPastAccepted
  <2>8. QueueHoldsUnstarted'
    <3> SUFFICES ASSUME NEW k \in Kind, NEW m \in DOMAIN queue'[k]
                 PROVE  /\ KindOf[queue'[k][m]] = k
                        /\ starts[queue'[k][m]] = 0
                        /\ record'[queue'[k][m]] \in {"accepted", "cancelled"}
                        /\ \A n \in DOMAIN queue'[k] : queue'[k][m] = queue'[k][n] => m = n
      BY <1>1 DEF QueueHoldsUnstarted
    <3>1. \A n \in DOMAIN queue[k] : queue[k][n] # j /\ queue[k][n] \in Job
      BY <1>1, QueueEntries DEF QueueHoldsUnstarted
    <3>2. starts[j] = 0
      BY <1>1 DEF TypeOK
    <3>3. CASE m \in DOMAIN queue[k] /\ queue'[k][m] = queue[k][m]
      BY <3>3, <1>2, <2>1, <3>1 DEF QueueHoldsUnstarted
    <3>4. CASE /\ k = KindOf[j] /\ queue'[k][m] = j
               /\ m = Len(queue[k]) + 1 /\ m \notin DOMAIN queue[k]
      BY <3>4, <1>2, <2>1, <3>1, <3>2
    <3> QED BY <2>1, <3>3, <3>4
  <2>9. DownIsEmpty' /\ RunnerEnteredOnce'
    BY <1>1 DEF DownIsEmpty, RunnerEnteredOnce
  <2>10. AckedCancelIsFinal' /\ AckedHasNoOtherRecord'
    BY <1>1, <1>2, <2>3 DEF AckedCancelIsFinal, AckedHasNoOtherRecord, TypeOK
  <2> QED BY <2>4, <2>5, <2>6, <2>7, <2>8, <2>9, <2>10
<1>4. CASE PersistRaises /\ UNCHANGED <<queue, worker, submitted>>
  <2>1. UNCHANGED file /\ faults' \in Nat
    BY <1>4 DEF PersistRaises, TypeOK
  <2>2. TypeOK'
    BY <1>1, <1>2, <1>4, <2>1 DEF TypeOK
  <2>3. OldWorkersDone' /\ BusyWasStarted' /\ DownIsEmpty' /\ RunnerEnteredOnce'
    BY <1>1, <1>4 DEF OldWorkersDone, BusyWasStarted, DownIsEmpty, RunnerEnteredOnce
  <2>4. StartedIsPastAccepted'
    BY <1>1, <1>2, <2>1 DEF StartedIsPastAccepted
  <2>5. QueueHoldsUnstarted'
    <3>1. \A k \in Kind : \A m \in DOMAIN queue[k] : queue[k][m] # j /\ queue[k][m] \in Job
      BY <1>1, QueueEntries DEF QueueHoldsUnstarted
    <3> QED BY <1>1, <1>2, <1>4, <3>1 DEF QueueHoldsUnstarted
  <2>6. AckedCancelIsFinal' /\ AckedHasNoOtherRecord'
    BY <1>1, <1>2, <2>1 DEF AckedCancelIsFinal, AckedHasNoOtherRecord, TypeOK
  <2> QED BY <2>2, <2>3, <2>4, <2>5, <2>6
<1> QED BY <1>3, <1>4 DEF Submit

LEMMA CancelPreserves ==
    ASSUME IInv, NEW j \in Job, Cancel(j)
    PROVE  IInv'
<1> USE RegistryAssumption DEF IInv
<1>1. process = "up" /\ record[j] = "accepted"
      /\ record' = [record EXCEPT ![j] = "cancelled"]
     
      /\ UNCHANGED <<process, queue, worker, awaited, deaths, starts, submitted, epoch, skipped>>
  BY DEF Cancel, Cancellable
<1>2. record' \in [Job -> JobStatus \cup {Absent}]
      /\ \A i \in Job : record'[i] = IF i = j THEN "cancelled" ELSE record[i]
  BY <1>1 DEF TypeOK, JobStatus, Terminal
<1>3. /\ file' \in [Job -> JobStatus \cup {Absent}] /\ faults' \in Nat
      /\ \A i \in Job : i # j => file'[i] = file[i]
      /\ \/ UNCHANGED file /\ UNCHANGED cancelAcked
         \/ file'[j] = "cancelled" /\ cancelAcked' = cancelAcked \cup {j}
  <2>1. CASE Persist(j, "cancelled") /\ cancelAcked' = cancelAcked \cup {j}
    BY <2>1 DEF Persist, TypeOK, JobStatus, Terminal
  <2>2. CASE PersistRaises /\ UNCHANGED cancelAcked
    BY <2>2 DEF PersistRaises, TypeOK
  <2> QED BY <2>1, <2>2 DEF Cancel
<1>4. starts[j] = 0
  BY <1>1 DEF StartedIsPastAccepted, TypeOK
<1>5. TypeOK'
  BY <1>1, <1>2, <1>3 DEF TypeOK
<1>6. OldWorkersDone' /\ BusyWasStarted' /\ DownIsEmpty' /\ RunnerEnteredOnce'
  BY <1>1 DEF OldWorkersDone, BusyWasStarted, DownIsEmpty, RunnerEnteredOnce
<1>7. StartedIsPastAccepted'
  BY <1>1, <1>2, <1>3, <1>4 DEF StartedIsPastAccepted
<1>8. QueueHoldsUnstarted'
  BY <1>1, <1>2, QueueEntries DEF QueueHoldsUnstarted
<1>9. AckedCancelIsFinal' /\ AckedHasNoOtherRecord'
  BY <1>1, <1>2, <1>3, <1>4 DEF AckedCancelIsFinal, AckedHasNoOtherRecord, TypeOK
<1> QED BY <1>5, <1>6, <1>7, <1>8, <1>9

LEMMA SkipPreserves ==
    ASSUME IInv, NEW k \in Kind, NEW i \in DOMAIN worker[k], Skip(k, i)
    PROVE  IInv'
<1> USE DEF IInv
<1>1. queue[k] # <<>> /\ queue' = [queue EXCEPT ![k] = Tail(@)]
      /\ UNCHANGED <<process, record, file, worker, awaited, faults, deaths>>
      /\ UNCHANGED <<starts, submitted, epoch, cancelAcked, skipped>>
  BY DEF Skip, history
<1>2. /\ queue' \in [Kind -> Seq(Job)]
      /\ \A k2 \in Kind : k2 # k => queue'[k2] = queue[k2]
      /\ \A m \in DOMAIN queue'[k] :
            m \in Nat /\ m + 1 \in DOMAIN queue[k] /\ queue'[k][m] = queue[k][m + 1]
  BY <1>1, QueueTaken
<1>3. TypeOK' /\ OldWorkersDone' /\ BusyWasStarted' /\ StartedIsPastAccepted'
      /\ RunnerEnteredOnce' /\ AckedCancelIsFinal' /\ AckedHasNoOtherRecord'
  BY <1>1, <1>2 DEF TypeOK, OldWorkersDone, BusyWasStarted, StartedIsPastAccepted,
                    RunnerEnteredOnce, AckedCancelIsFinal, AckedHasNoOtherRecord
<1>4. DownIsEmpty'
  BY <1>1 DEF DownIsEmpty
<1>5. QueueHoldsUnstarted'
  BY <1>1, <1>2 DEF QueueHoldsUnstarted
<1> QED BY <1>3, <1>4, <1>5

\* The steps of a worker that leave the queues alone: what is left to show is the
\* effect on one entry of worker and on the statuses of a job that was started.
LEMMA WorkerUpdatePreserves ==
    ASSUME IInv, NEW k \in Kind, NEW i \in DOMAIN worker[k], NEW w \in Worker,
           worker' = [worker EXCEPT ![k][i] = w],
           i < Len(worker[k]) => w.state \in DoneState,
           w.state # "busy"
    PROVE  worker' \in [Kind -> Seq(Worker)] /\ OldWorkersDone'
           /\ (UNCHANGED starts => BusyWasStarted')
<1> USE DEF IInv
<1>1. /\ worker' \in [Kind -> Seq(Worker)]
      /\ \A k2 \in Kind :
            /\ Len(worker'[k2]) = Len(worker[k2])
            /\ DOMAIN worker'[k2] = DOMAIN worker[k2]
            /\ \A i2 \in DOMAIN worker[k2] :
                 worker'[k2][i2] = IF k2 = k /\ i2 = i THEN w ELSE worker[k2][i2]
  BY WorkerEntrySet
<1>2. OldWorkersDone'
  BY <1>1 DEF OldWorkersDone
<1>3. ASSUME UNCHANGED starts PROVE BusyWasStarted'
  BY <1>1, <1>3 DEF BusyWasStarted
<1> QED BY <1>1, <1>2, <1>3

LEMMA FinishPreserves ==
    ASSUME IInv, NEW k \in Kind, NEW i \in DOMAIN worker[k],
           NEW outcome \in {"succeeded", "failed"}, Finish(k, i, outcome)
    PROVE  IInv'
<1> USE DEF IInv
<1> DEFINE j == worker[k][i].job
<1>1. worker[k][i].state = "busy" /\ j \in Job /\ starts[j] > 0
      /\ record' = [record EXCEPT ![j] = outcome]
      /\ UNCHANGED <<process, queue, awaited, deaths>>
      /\ UNCHANGED <<starts, submitted, epoch, cancelAcked, skipped>>
  BY DEF Finish, history, BusyWasStarted
<1>2. /\ file' \in [Job -> JobStatus \cup {Absent}] /\ faults' \in Nat
      /\ \A x \in Job : x # j => file'[x] = file[x]
      /\ file'[j] \in {file[j], outcome}
  <2>1. CASE Persist(j, outcome)
    BY <2>1, <1>1 DEF Persist, TypeOK, JobStatus, Terminal
  <2>2. CASE PersistRaises
    BY <2>2, <1>1 DEF PersistRaises, TypeOK
  <2> QED BY <2>1, <2>2 DEF Finish
<1>3. PICK w \in Worker : /\ w.state \in {"idle", "crashed"}
                          /\ worker' = [worker EXCEPT ![k][i] = w]
  <2>1. Idle \in Worker /\ Idle.state = "idle"
    BY DEF Idle, Worker, LiveState
  <2>2. [state |-> "crashed", job |-> j] \in Worker
    BY <1>1 DEF Worker, DoneState
  <2> QED BY <2>1, <2>2 DEF Finish
<1>4. ~(i < Len(worker[k]))
  BY <1>1, LiveIsLast DEF DoneState
<1>5. worker' \in [Kind -> Seq(Worker)] /\ OldWorkersDone' /\ BusyWasStarted'
  <2>1. w.state # "busy" /\ (i < Len(worker[k]) => w.state \in DoneState)
    BY <1>3, <1>4
  <2>2. worker' \in [Kind -> Seq(Worker)] /\ OldWorkersDone'
        /\ (UNCHANGED starts => BusyWasStarted')
    BY <1>3, <2>1, WorkerUpdatePreserves
  <2> QED BY <1>1, <2>2
<1>6. /\ record' \in [Job -> JobStatus \cup {Absent}]
      /\ \A x \in Job : record'[x] = IF x = j THEN outcome ELSE record[x]
  BY <1>1 DEF TypeOK, JobStatus, Terminal
<1>7. TypeOK'
  BY <1>1, <1>2, <1>5, <1>6 DEF TypeOK
<1>8. StartedIsPastAccepted'
  BY <1>1, <1>2, <1>6 DEF StartedIsPastAccepted
<1>9. QueueHoldsUnstarted'
  BY <1>1, <1>6, QueueEntries DEF QueueHoldsUnstarted
<1>10. DownIsEmpty' /\ RunnerEnteredOnce'
  BY <1>1, WorkerMeansAlive DEF DownIsEmpty, RunnerEnteredOnce
<1>11. AckedCancelIsFinal' /\ AckedHasNoOtherRecord'
  <2>1. j \notin cancelAcked
    BY <1>1 DEF AckedCancelIsFinal, AckedHasNoOtherRecord
  <2> QED BY <1>1, <1>2, <1>6, <2>1 DEF AckedCancelIsFinal, AckedHasNoOtherRecord, TypeOK
<1> QED BY <1>5, <1>7, <1>8, <1>9, <1>10, <1>11

LEMMA UnwindPreserves ==
    ASSUME IInv, NEW k \in Kind, NEW i \in DOMAIN worker[k], Unwind(k, i)
    PROVE  IInv'
<1> USE DEF IInv
<1> DEFINE w == [state |-> "cancelled", job |-> NoJob]
<1>1. /\ worker' = [worker EXCEPT ![k][i] = w]
      /\ UNCHANGED <<process, record, file, queue, awaited, faults, deaths>>
      /\ UNCHANGED <<starts, submitted, epoch, cancelAcked, skipped>>
  BY DEF Unwind, history
<1>2. w \in Worker /\ w.state \in DoneState /\ w.state # "busy"
  BY DEF Worker, DoneState
<1> HIDE DEF w
<1>3. worker' \in [Kind -> Seq(Worker)] /\ OldWorkersDone' /\ BusyWasStarted'
  <2>1. worker' \in [Kind -> Seq(Worker)] /\ OldWorkersDone'
        /\ (UNCHANGED starts => BusyWasStarted')
    BY <1>1, <1>2, WorkerUpdatePreserves
  <2> QED BY <1>1, <2>1
<1>4. TypeOK' /\ DownIsEmpty'
  BY <1>1, <1>3, WorkerMeansAlive DEF TypeOK, DownIsEmpty
<1>5. StartedIsPastAccepted' /\ QueueHoldsUnstarted' /\ RunnerEnteredOnce'
      /\ AckedCancelIsFinal' /\ AckedHasNoOtherRecord'
  BY <1>1 DEF StartedIsPastAccepted, QueueHoldsUnstarted, RunnerEnteredOnce,
              AckedCancelIsFinal, AckedHasNoOtherRecord
<1> QED BY <1>3, <1>4, <1>5

LEMMA StartPreserves ==
    ASSUME IInv, NEW k \in Kind, NEW i \in DOMAIN worker[k], Start(k, i)
    PROVE  IInv'
<1> USE DEF IInv
<1> DEFINE j == Head(queue[k])
<1>1. worker[k][i].state = "idle" /\ queue[k] # <<>> /\ record[j] # "cancelled"
      /\ queue' = [queue EXCEPT ![k] = Tail(@)]
      /\ record' = [record EXCEPT ![j] = "running"]
      /\ UNCHANGED <<process, awaited, deaths, submitted, epoch, cancelAcked, skipped>>
  BY DEF Start, Dropped
<1>2. /\ queue' \in [Kind -> Seq(Job)]
      /\ j = queue[k][1] /\ 1 \in DOMAIN queue[k]
      /\ \A k2 \in Kind : k2 # k => queue'[k2] = queue[k2]
      /\ \A m \in DOMAIN queue'[k] :
            m \in Nat /\ m + 1 \in DOMAIN queue[k] /\ m + 1 # 1
            /\ queue'[k][m] = queue[k][m + 1]
  BY <1>1, QueueTaken
<1>3. j \in Job /\ starts[j] = 0 /\ record[j] = "accepted" /\ KindOf[j] = k
  BY <1>1, <1>2, QueueEntries DEF QueueHoldsUnstarted
<1>4. \A k2 \in Kind : \A m \in DOMAIN queue'[k2] :
        queue'[k2][m] \in Job /\ queue'[k2][m] # j
  <2> SUFFICES ASSUME NEW k2 \in Kind, NEW m \in DOMAIN queue'[k2]
               PROVE  queue'[k2][m] \in Job /\ queue'[k2][m] # j
    OBVIOUS
  <2>1. CASE k2 = k
    BY <2>1, <1>2, QueueEntries DEF QueueHoldsUnstarted
  <2>2. CASE k2 # k
    BY <2>2, <1>2, <1>3, QueueEntries DEF QueueHoldsUnstarted
  <2> QED BY <2>1, <2>2
<1> HIDE DEF j
<1>5. /\ record' \in [Job -> JobStatus \cup {Absent}]
      /\ \A x \in Job : record'[x] = IF x = j THEN "running" ELSE record[x]
  BY <1>1, <1>3 DEF TypeOK, JobStatus
<1>6. j \notin cancelAcked /\ process # "down"
  BY <1>1, <1>3, WorkerMeansAlive DEF AckedCancelIsFinal, AckedHasNoOtherRecord
<1>7. i = Len(worker[k]) /\ ~(i < Len(worker[k]))
  BY <1>1, LiveIsLast DEF DoneState
<1>8. DownIsEmpty'
  BY <1>1, <1>6 DEF DownIsEmpty
<1>9. CASE /\ Persist(j, "running")
           /\ worker' = [worker EXCEPT ![k][i] = [state |-> "busy", job |-> j]]
           /\ starts' = [starts EXCEPT ![j] = @ + 1]
  <2> DEFINE w == [state |-> "busy", job |-> j]
  <2>1. w \in Worker /\ w.job = j /\ worker' = [worker EXCEPT ![k][i] = w]
    BY <1>3, <1>9 DEF Worker, LiveState
  <2> HIDE DEF w
  <2>2. /\ worker' \in [Kind -> Seq(Worker)]
        /\ \A k2 \in Kind :
              /\ Len(worker'[k2]) = Len(worker[k2])
              /\ DOMAIN worker'[k2] = DOMAIN worker[k2]
              /\ \A i2 \in DOMAIN worker[k2] :
                   worker'[k2][i2] = IF k2 = k /\ i2 = i THEN w ELSE worker[k2][i2]
    BY <2>1, WorkerEntrySet
  <2>3. /\ starts' \in [Job -> Nat]
        /\ \A x \in Job : starts'[x] = IF x = j THEN 1 ELSE starts[x]
    BY <1>3, <1>9 DEF TypeOK
  <2>4. /\ file' \in [Job -> JobStatus \cup {Absent}] /\ UNCHANGED faults
        /\ \A x \in Job : file'[x] = IF x = j THEN "running" ELSE file[x]
    BY <1>3, <1>9 DEF Persist, TypeOK, JobStatus
  <2>5. TypeOK'
    BY <1>1, <1>2, <1>5, <2>2, <2>3, <2>4 DEF TypeOK
  <2>6. OldWorkersDone'
    BY <1>7, <2>2 DEF OldWorkersDone
  <2>7. BusyWasStarted'
    BY <1>3, <2>1, <2>2, <2>3 DEF BusyWasStarted
  <2>8. StartedIsPastAccepted'
    BY <1>1, <1>5, <2>3, <2>4 DEF StartedIsPastAccepted
  <2>9. QueueHoldsUnstarted'
    <3> SUFFICES ASSUME NEW k2 \in Kind, NEW m \in DOMAIN queue'[k2]
                 PROVE  /\ KindOf[queue'[k2][m]] = k2
                        /\ starts'[queue'[k2][m]] = 0
                        /\ record'[queue'[k2][m]] \in {"accepted", "cancelled"}
                        /\ \A n \in DOMAIN queue'[k2] :
                             queue'[k2][m] = queue'[k2][n] => m = n
      BY DEF QueueHoldsUnstarted
    <3>1. /\ starts'[queue'[k2][m]] = starts[queue'[k2][m]]
          /\ record'[queue'[k2][m]] = record[queue'[k2][m]]
      BY <1>4, <1>5, <2>3
    <3>2. CASE k2 = k
      BY <3>1, <3>2, <1>2 DEF QueueHoldsUnstarted
    <3>3. CASE k2 # k
      BY SMTT(30), <3>1, <3>3, <1>2 DEF QueueHoldsUnstarted
    <3> QED BY <3>2, <3>3
  <2>10. RunnerEnteredOnce'
    BY <2>3 DEF RunnerEnteredOnce
  <2>11. AckedCancelIsFinal' /\ AckedHasNoOtherRecord'
    BY <1>1, <1>5, <1>6, <2>3, <2>4 DEF AckedCancelIsFinal, AckedHasNoOtherRecord, TypeOK
  <2> QED BY <1>8, <2>5, <2>6, <2>7, <2>8, <2>9, <2>10, <2>11
<1>10. CASE /\ PersistRaises
            /\ worker' = [worker EXCEPT ![k][i] = [state |-> "crashed", job |-> j]]
            /\ UNCHANGED starts
  <2> DEFINE w == [state |-> "crashed", job |-> j]
  <2>1. w \in Worker /\ w.state # "busy" /\ worker' = [worker EXCEPT ![k][i] = w]
    BY <1>3, <1>10 DEF Worker, DoneState
  <2> HIDE DEF w
  <2>2. worker' \in [Kind -> Seq(Worker)] /\ OldWorkersDone'
        /\ (UNCHANGED starts => BusyWasStarted')
    BY <1>7, <2>1, WorkerUpdatePreserves
  <2>3. faults' \in Nat /\ UNCHANGED file
    BY <1>10 DEF PersistRaises, TypeOK
  <2>4. TypeOK'
    BY <1>1, <1>2, <1>5, <1>10, <2>2, <2>3 DEF TypeOK
  <2>5. StartedIsPastAccepted' /\ RunnerEnteredOnce'
    BY <1>1, <1>5, <1>10, <2>3 DEF StartedIsPastAccepted, RunnerEnteredOnce
  <2>6. QueueHoldsUnstarted'
    BY SMTT(30), <1>2, <1>4, <1>5, <1>10 DEF QueueHoldsUnstarted
  <2>7. AckedCancelIsFinal' /\ AckedHasNoOtherRecord'
    BY <1>1, <1>5, <1>6, <1>10, <2>3 DEF AckedCancelIsFinal, AckedHasNoOtherRecord, TypeOK
  <2> QED BY <1>8, <1>10, <2>2, <2>4, <2>5, <2>6, <2>7
<1> QED BY <1>9, <1>10 DEF Start, j

LEMMA BeginShutdownPreserves ==
    ASSUME IInv, BeginShutdown
    PROVE  IInv'
<1> USE DEF IInv
<1> DEFINE W(k) == IF NeedsWorker(k) THEN worker[k]
                   ELSE [worker[k] EXCEPT ![Len(worker[k])].state = "cancelling"]
<1>1. process = "up" /\ process' = "stopping" /\ awaited' = 0
      /\ UNCHANGED <<record, file, queue, faults, deaths>>
      /\ UNCHANGED <<starts, submitted, epoch, cancelAcked, skipped>>
  BY DEF BeginShutdown, history
<1>2. worker' = [k \in Kind |-> W(k)]
  BY DEF BeginShutdown
<1>3. ASSUME NEW k \in Kind
      PROVE  /\ W(k) \in Seq(Worker)
             /\ Len(W(k)) = Len(worker[k])
             /\ DOMAIN W(k) = DOMAIN worker[k]
             /\ \A i \in DOMAIN worker[k] :
                  \/ W(k)[i] = worker[k][i]
                  \/ i = Len(worker[k]) /\ W(k)[i].state = "cancelling"
  <2>1. /\ worker[k] \in Seq(Worker)
        /\ Len(worker[k]) \in Nat
        /\ DOMAIN worker[k] = 1 .. Len(worker[k])
    BY LenProperties DEF TypeOK
  <2>2. CASE NeedsWorker(k)
    BY <2>1, <2>2
  <2>3. CASE ~NeedsWorker(k)
    <3> DEFINE n == Len(worker[k])
               w == [worker[k][n] EXCEPT !.state = "cancelling"]
    <3>1. worker[k] # <<>>
      BY <2>3 DEF NeedsWorker
    <3>2. n \in 1 .. Len(worker[k])
      BY <2>1, <3>1, EmptySeq
    <3>3. worker[k][n] \in Worker
      BY <2>1, <3>2, ElementOfSeq
    <3>4. w \in Worker /\ w.state = "cancelling"
      BY <3>3 DEF Worker, LiveState
    <3>5. W(k) = [worker[k] EXCEPT ![n] = w]
      BY <2>3
    <3> HIDE DEF w, n, W
    <3>6. /\ W(k) \in Seq(Worker)
          /\ Len(W(k)) = Len(worker[k])
          /\ \A i \in 1 .. Len(worker[k]) : W(k)[i] = IF i = n THEN w ELSE worker[k][i]
      BY <2>1, <3>2, <3>4, <3>5, ExceptSeq
    <3>7. DOMAIN W(k) = 1 .. Len(W(k))
      BY <3>6, LenProperties
    <3> QED BY <2>1, <3>4, <3>6, <3>7 DEF n
  <2> QED BY <2>2, <2>3
<1> HIDE DEF W
<1>4. /\ worker' \in [Kind -> Seq(Worker)]
      /\ \A k \in Kind : worker'[k] = W(k)
  BY <1>2, <1>3
<1>5. TypeOK' /\ DownIsEmpty'
  BY <1>1, <1>4 DEF TypeOK, DownIsEmpty
<1>6. OldWorkersDone'
  <2> SUFFICES ASSUME NEW k \in Kind, NEW i \in DOMAIN worker'[k], i < Len(worker'[k])
               PROVE  worker'[k][i].state \in DoneState
    BY DEF OldWorkersDone
  <2>1. i \in DOMAIN worker[k] /\ i < Len(worker[k]) /\ Len(worker[k]) \in Nat
    BY <1>3, <1>4, LenProperties DEF TypeOK
  <2>2. i # Len(worker[k])
    BY <2>1, LenProperties DEF TypeOK
  <2> QED BY <1>3, <1>4, <2>1, <2>2 DEF OldWorkersDone
<1>7. BusyWasStarted'
  BY <1>1, <1>3, <1>4 DEF BusyWasStarted
<1>8. StartedIsPastAccepted' /\ QueueHoldsUnstarted' /\ RunnerEnteredOnce'
      /\ AckedCancelIsFinal' /\ AckedHasNoOtherRecord'
  BY <1>1 DEF StartedIsPastAccepted, QueueHoldsUnstarted, RunnerEnteredOnce,
              AckedCancelIsFinal, AckedHasNoOtherRecord
<1> QED BY <1>5, <1>6, <1>7, <1>8

\* The other steps of a shutdown only move process and awaited.
LEMMA ShutdownStepPreserves ==
    ASSUME IInv, AwaitWorker \/ EndShutdown
    PROVE  IInv'
<1> USE DEF IInv
<1>1. /\ process = "stopping"
      /\ process' \in {"stopping", "stopped", "stop_failed"}
      /\ awaited' \in {awaited, awaited + 1}
      /\ UNCHANGED <<record, file, queue, worker, faults, deaths>>
      /\ UNCHANGED <<starts, submitted, epoch, cancelAcked, skipped>>
  BY DEF AwaitWorker, EndShutdown, history
<1>2. TypeOK'
  BY <1>1 DEF TypeOK
<1>3. OldWorkersDone' /\ BusyWasStarted' /\ DownIsEmpty' /\ StartedIsPastAccepted'
  BY <1>1 DEF OldWorkersDone, BusyWasStarted, DownIsEmpty, StartedIsPastAccepted
<1>4. QueueHoldsUnstarted' /\ RunnerEnteredOnce' /\ AckedCancelIsFinal'
      /\ AckedHasNoOtherRecord'
  BY <1>1 DEF QueueHoldsUnstarted, RunnerEnteredOnce, AckedCancelIsFinal, AckedHasNoOtherRecord
<1> QED BY <1>2, <1>3, <1>4

LEMMA DiePreserves ==
    ASSUME IInv, Die
    PROVE  IInv'
<1> USE DEF IInv
<1>1. /\ process' = "down" /\ awaited' = 0 /\ deaths' = deaths + 1
      /\ record' = [j \in Job |-> Absent]
      /\ queue' = [k \in Kind |-> <<>>]
      /\ worker' = [k \in Kind |-> <<>>]
      /\ UNCHANGED <<file, faults, starts, submitted, epoch, cancelAcked, skipped>>
  BY DEF Die
<1>2. TypeOK'
  BY <1>1 DEF TypeOK
<1>3. OldWorkersDone' /\ BusyWasStarted' /\ QueueHoldsUnstarted' /\ DownIsEmpty'
  BY <1>1 DEF OldWorkersDone, BusyWasStarted, QueueHoldsUnstarted, DownIsEmpty
<1>4. StartedIsPastAccepted' /\ RunnerEnteredOnce' /\ AckedCancelIsFinal'
      /\ AckedHasNoOtherRecord'
  BY <1>1 DEF StartedIsPastAccepted, RunnerEnteredOnce, AckedCancelIsFinal,
              AckedHasNoOtherRecord
<1> QED BY <1>2, <1>3, <1>4

LEMMA LoadPreserves ==
    ASSUME IInv, LoadAll \/ LoadAllRaises
    PROVE  IInv'
<1> USE DEF IInv
<1>1. PICK S \in SUBSET Orphans :
        /\ file' = Failed(S)
        /\ process' = "up" => record' = Without(file', skipped')
        /\ \/ process' = "up" /\ epoch' = Len(submitted)
           \/ process' = "down" /\ UNCHANGED <<record, epoch>>
  <2>1. CASE LoadAll
    BY <2>1 DEF LoadAll
  <2>2. CASE LoadAllRaises
    BY <2>2 DEF LoadAllRaises, history
  <2> QED BY <2>1, <2>2
<1>2. /\ process = "down" /\ faults' \in Nat /\ epoch' \in Nat /\ skipped' \in SUBSET Job
      /\ UNCHANGED <<queue, worker, awaited, deaths, starts, submitted, cancelAcked>>
  <2>1. Len(submitted) \in Nat
    BY LenProperties DEF TypeOK
  <2>2. faults' \in Nat /\ skipped' \in SUBSET Job
    BY DEF LoadAll, LoadAllRaises, Unreadable, history, TypeOK
  <2> QED BY <2>1, <2>2, <1>1 DEF LoadAll, LoadAllRaises, history, TypeOK
<1>3. /\ Failed(S) \in [Job -> JobStatus \cup {Absent}]
      /\ \A j \in Job : Failed(S)[j] = IF j \in S THEN "failed" ELSE file[j]
      /\ \A j \in S : file[j] = "running"
  BY DEF Failed, Orphans, TypeOK, JobStatus, Terminal
<1>4. /\ Without(file', skipped') \in [Job -> JobStatus \cup {Absent}]
      /\ \A j \in Job :
            Without(file', skipped')[j] = IF j \in skipped' THEN Absent ELSE file'[j]
  BY <1>1, <1>3 DEF Without, Absent
<1>4a. TypeOK'
  BY <1>1, <1>2, <1>3, <1>4 DEF TypeOK
<1>5. OldWorkersDone' /\ BusyWasStarted' /\ RunnerEnteredOnce'
  BY <1>2 DEF OldWorkersDone, BusyWasStarted, RunnerEnteredOnce
<1>6. QueueHoldsUnstarted' /\ DownIsEmpty'
  BY <1>2 DEF QueueHoldsUnstarted, DownIsEmpty
<1>7. StartedIsPastAccepted'
  BY <1>1, <1>2, <1>3, <1>4 DEF StartedIsPastAccepted, Absent
<1>8. AckedCancelIsFinal' /\ AckedHasNoOtherRecord'
  BY <1>1, <1>2, <1>3, <1>4 DEF AckedCancelIsFinal, AckedHasNoOtherRecord, Absent, TypeOK
<1> QED BY <1>4a, <1>5, <1>6, <1>7, <1>8

-----------------------------------------------------------------------------
LEMMA NextPreserves == IInv /\ [Next]_vars => IInv'
<1> SUFFICES ASSUME IInv, [Next]_vars PROVE IInv'
  OBVIOUS
<1>1. CASE \E j \in Job : Submit(j) \/ Cancel(j)
  BY <1>1, SubmitPreserves, CancelPreserves
<1>2. CASE \E k \in Kind : WorkerStep(k)
  BY <1>2, SkipPreserves, StartPreserves, FinishPreserves, UnwindPreserves DEF WorkerStep
<1>3. CASE BeginShutdown
  BY <1>3, BeginShutdownPreserves
<1>4. CASE AwaitWorker \/ EndShutdown
  BY <1>4, ShutdownStepPreserves
<1>5. CASE Die
  BY <1>5, DiePreserves
<1>6. CASE LoadAll \/ LoadAllRaises
  BY <1>6, LoadPreserves
<1>7. CASE UNCHANGED vars
  <2>1. TypeOK' /\ OldWorkersDone' /\ BusyWasStarted' /\ StartedIsPastAccepted'
    BY <1>7 DEF IInv, vars, TypeOK, OldWorkersDone, BusyWasStarted, StartedIsPastAccepted
  <2>2. QueueHoldsUnstarted' /\ DownIsEmpty' /\ RunnerEnteredOnce'
  /\ AckedCancelIsFinal' /\ AckedHasNoOtherRecord'
    BY <1>7 DEF IInv, vars, QueueHoldsUnstarted, DownIsEmpty, RunnerEnteredOnce,
                AckedCancelIsFinal, AckedHasNoOtherRecord
  <2> QED BY <2>1, <2>2 DEF IInv
<1> QED BY <1>1, <1>2, <1>3, <1>4, <1>5, <1>6, <1>7 DEF Next

\* The inductive invariant holds in every reachable state of the registry.
THEOREM Inductive == Spec => []IInv
BY InitEstablishes, NextPreserves, PTL DEF Spec

\* Every variable of the registry keeps its type.
THEOREM TypeCorrect == Spec => []TypeOK
<1>1. IInv => TypeOK
  BY DEF IInv
<1> QED BY <1>1, Inductive, PTL

\* At most one worker task of a kind can run a job, whatever was submitted,
\* crashed or restarted before: "at most one job of each kind runs at a time".
THEOREM OneJobPerKindHolds == Spec => []OneJobPerKind
<1>1. IInv => OneJobPerKind
  <2> SUFFICES ASSUME IInv, NEW k \in Kind, NEW i1 \in Live(k), NEW i2 \in Live(k)
               PROVE  i1 = i2
    BY DEF OneJobPerKind
  <2>1. /\ i1 \in DOMAIN worker[k] /\ worker[k][i1].state \notin DoneState
        /\ i2 \in DOMAIN worker[k] /\ worker[k][i2].state \notin DoneState
    BY DEF Live, LiveState, DoneState
  <2> QED BY <2>1, LiveIsLast DEF IInv
<1> QED BY <1>1, Inductive, PTL

\* The runner of a job is entered at most once, over any number of restarts.
THEOREM RunnerEnteredOnceHolds == Spec => []RunnerEnteredOnce
<1>1. IInv => RunnerEnteredOnce
  BY DEF IInv
<1> QED BY <1>1, Inductive, PTL

\* A cancel() that returned True holds for good.
THEOREM AckedCancelIsFinalHolds == Spec => []AckedCancelIsFinal
<1>1. IInv => AckedCancelIsFinal
  BY DEF IInv
<1> QED BY <1>1, Inductive, PTL
=============================================================================
