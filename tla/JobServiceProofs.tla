-------------------------- MODULE JobServiceProofs --------------------------
(***************************************************************************)
(* The registry over its whole history: the order of the jobs of a kind,   *)
(* what memory and disk may differ by, what shutdown leaves behind, and    *)
(* that the registry implements JobService.  All of it for any set of      *)
(* jobs, any kinds, and any number of failed writes and restarts.          *)
(***************************************************************************)
EXTENDS JobRegistryProofs

(***************************************************************************)
(* IInv says nothing of the order in which jobs came, nor of where their   *)
(* statuses come from.  HInv adds both: the queues follow the log of the   *)
(* submits that returned, a job that executes is RUNNING in memory and on  *)
(* disk, and in a shutdown no worker waits for, or runs, a job.            *)
(***************************************************************************)
Recent == epoch + 1 .. Len(submitted)
WasSubmitted(j) == \E n \in DOMAIN submitted : submitted[n] = j
SubmittedOnce ==
    /\ epoch <= Len(submitted)
    /\ \A m, n \in DOMAIN submitted : submitted[m] = submitted[n] => m = n
    /\ \A n \in DOMAIN submitted : file[submitted[n]] # Absent
QueueIsOrdered ==
    \A k \in Kind : \A a \in DOMAIN queue[k] :
        /\ \E m \in Recent : submitted[m] = queue[k][a]
        /\ \A b \in DOMAIN queue[k] : \A m, n \in Recent :
              a < b /\ submitted[m] = queue[k][a] /\ submitted[n] = queue[k][b] => m < n
AcceptedIsQueued ==
    process # "down" =>
        \A n \in Recent : record[submitted[n]] = "accepted" => InQueue(submitted[n])
AcceptedFileWasSubmitted == \A j \in Job : file[j] = "accepted" => WasSubmitted(j)
ExecutingRuns ==
    \A k \in Kind : \A i \in DOMAIN worker[k] : \A j \in Job :
        Executing(j, k, i) =>
            KindOf[j] = k /\ record[j] = "running" /\ file[j] = "running" /\ WasSubmitted(j)
IdleHoldsNothing ==
    \A k \in Kind : \A i \in DOMAIN worker[k] :
        worker[k][i].state = "idle" => worker[k][i].job = NoJob
RunningIsHeld ==
    process = "up" => \A j \in Job : record[j] = "running" =>
        \E k \in Kind : \E i \in DOMAIN worker[k] :
            worker[k][i].job = j /\ worker[k][i].state \in {"busy", "crashed"}
StoppingIsQuiet ==
    process \notin {"up", "down"} =>
        /\ \A k \in Kind : \A i \in DOMAIN worker[k] : worker[k][i].state \notin {"idle", "busy"}
        /\ awaited <= Len(KindOrder)
        /\ process = "stopped" => awaited = Len(KindOrder)
        /\ \A m \in 1 .. awaited : \A i \in DOMAIN worker[KindOrder[m]] :
               worker[KindOrder[m]][i].state \in DoneState

HInv ==
    /\ IInv
    /\ SubmittedOnce /\ QueueIsOrdered /\ AcceptedIsQueued /\ AcceptedFileWasSubmitted
    /\ ExecutingRuns /\ IdleHoldsNothing /\ RunningIsHeld /\ StoppingIsQuiet
    /\ DiskLagsByOneStep /\ FifoPerKind

-----------------------------------------------------------------------------
(* The effect of the updates, once more: what they leave alone. *)

\* Taking the head of a queue leaves every other job in it.
LEMMA TakenFromQueue ==
    ASSUME TypeOK, NEW k \in Kind, queue[k] # <<>>,
           queue' = [queue EXCEPT ![k] = Tail(@)]
    PROVE  /\ \A x : InQueue(x)' => InQueue(x)
           /\ \A x : InQueue(x) /\ x # Head(queue[k]) => InQueue(x)'
<1>1. queue[k] \in Seq(Job) /\ DOMAIN queue[k] = 1 .. Len(queue[k])
      /\ Len(queue[k]) \in Nat /\ Len(queue[k]) # 0
  BY LenProperties, EmptySeq DEF TypeOK
<1> DEFINE t == Tail(queue[k])
<1>2. t \in Seq(Job) /\ Len(t) = Len(queue[k]) - 1
      /\ \A m \in 1 .. Len(t) : t[m] = queue[k][m + 1]
  BY <1>1, HeadTailProperties
<1>3. DOMAIN t = 1 .. Len(t)
  BY <1>2, LenProperties
<1>4. Head(queue[k]) = queue[k][1]
  BY <1>1
<1> HIDE DEF t
<1>5. queue' = [queue EXCEPT ![k] = t]
  BY DEF t
<1>6. \A k2 \in Kind : queue'[k2] = IF k2 = k THEN t ELSE queue[k2]
  BY <1>5 DEF TypeOK
<1>7. ASSUME NEW x, InQueue(x)' PROVE InQueue(x)
  <2>1. PICK k2 \in Kind : \E n \in DOMAIN queue'[k2] : queue'[k2][n] = x
    BY <1>7 DEF InQueue
  <2>2. PICK n \in DOMAIN queue'[k2] : queue'[k2][n] = x
    BY <2>1
  <2>3. CASE k2 = k
    <3>1. n \in 1 .. Len(t) /\ t[n] = x
      BY <2>2, <2>3, <1>3, <1>6
    <3>2. n + 1 \in DOMAIN queue[k] /\ queue[k][n + 1] = x
      BY <3>1, <1>1, <1>2
    <3> QED BY <3>2 DEF InQueue
  <2>4. CASE k2 # k
    BY <2>2, <2>4, <1>6 DEF InQueue
  <2> QED BY <2>3, <2>4
<1>8. ASSUME NEW x, InQueue(x), x # Head(queue[k]) PROVE InQueue(x)'
  <2>1. PICK k2 \in Kind : \E n \in DOMAIN queue[k2] : queue[k2][n] = x
    BY <1>8 DEF InQueue
  <2>2. PICK n \in DOMAIN queue[k2] : queue[k2][n] = x
    BY <2>1
  <2>3. CASE k2 = k
    <3>1. n \in 1 .. Len(queue[k]) /\ n # 1
      BY <2>2, <2>3, <1>1, <1>4, <1>8
    <3>2. n - 1 \in 1 .. Len(t) /\ (n - 1) + 1 = n
      BY <3>1, <1>1, <1>2
    <3>3. n - 1 \in DOMAIN t /\ t[n - 1] = x
      BY <3>2, <1>2, <1>3, <2>2, <2>3
    <3> QED BY <3>3, <1>6 DEF InQueue
  <2>4. CASE k2 # k
    BY <2>2, <2>4, <1>6 DEF InQueue
  <2> QED BY <2>3, <2>4
<1> QED BY <1>7, <1>8

\* Putting a job keeps the places of the others.
LEMMA PutInQueue ==
    ASSUME RegistryAssumption, TypeOK, NEW j \in Job, Put(j)
    PROVE  /\ \A k \in Kind : \A m \in DOMAIN queue[k] :
                m \in DOMAIN queue'[k] /\ queue'[k][m] = queue[k][m]
           /\ \A x : InQueue(x)' <=> InQueue(x) \/ x = j
<1> DEFINE k == KindOf[j]
<1>1. k \in Kind
  BY DEF RegistryAssumption
<1>2. queue[k] \in Seq(Job) /\ DOMAIN queue[k] = 1 .. Len(queue[k]) /\ Len(queue[k]) \in Nat
  BY <1>1, LenProperties DEF TypeOK
<1> DEFINE t == Append(queue[k], j)
<1>3. /\ t \in Seq(Job)
      /\ Len(t) = Len(queue[k]) + 1
      /\ \A m \in 1 .. Len(queue[k]) : t[m] = queue[k][m]
      /\ t[Len(queue[k]) + 1] = j
  BY <1>2
<1>4. DOMAIN t = 1 .. Len(queue[k]) + 1
  BY <1>3, LenProperties
<1> HIDE DEF t
<1>5. queue' = [queue EXCEPT ![k] = t]
  BY DEF Put, t
<1> HIDE DEF k
<1>6. \A k2 \in Kind : queue'[k2] = IF k2 = k THEN t ELSE queue[k2]
  BY <1>1, <1>3, <1>5 DEF TypeOK
<1>7. \A m \in 1 .. Len(queue[k]) : m \in 1 .. Len(queue[k]) + 1
  BY <1>2
<1>8. Len(queue[k]) + 1 \in DOMAIN t
  BY <1>2, <1>4
<1>9. ASSUME NEW k2 \in Kind, NEW m \in DOMAIN queue[k2]
      PROVE  m \in DOMAIN queue'[k2] /\ queue'[k2][m] = queue[k2][m]
  BY <1>2, <1>3, <1>4, <1>6, <1>7
<1>10. InQueue(j)'
  BY <1>1, <1>3, <1>6, <1>8 DEF InQueue
<1>11. ASSUME NEW x, InQueue(x) PROVE InQueue(x)'
  BY <1>9, <1>11 DEF InQueue
<1>12. ASSUME NEW x, InQueue(x)' PROVE InQueue(x) \/ x = j
  <2>1. PICK k2 \in Kind : \E m \in DOMAIN queue'[k2] : queue'[k2][m] = x
    BY <1>12 DEF InQueue
  <2>3. PICK m \in DOMAIN queue'[k2] : queue'[k2][m] = x
    BY <2>1
  <2>2. (m \in DOMAIN queue[k2] /\ queue'[k2][m] = queue[k2][m]) \/ queue'[k2][m] = j
    BY QueuePut
  <2> QED BY <2>3, <2>2 DEF InQueue
<1> QED BY <1>9, <1>10, <1>11, <1>12

\* submit() keeps the worker tasks there are.
LEMMA EnsuredKeeps ==
    ASSUME TypeOK, NEW k \in Kind, EnsureWorker(k)
    PROVE  \A k2 \in Kind : \A i \in DOMAIN worker[k2] :
               i \in DOMAIN worker'[k2] /\ worker'[k2][i] = worker[k2][i]
<1>1. worker[k] \in Seq(Worker) /\ DOMAIN worker[k] = 1 .. Len(worker[k])
      /\ Len(worker[k]) \in Nat
  BY LenProperties DEF TypeOK
<1>2. Idle \in Worker
  BY DEF Idle, Worker, LiveState
<1>3. CASE ~NeedsWorker(k)
  BY <1>3 DEF EnsureWorker, TypeOK
<1>4. CASE NeedsWorker(k)
  <2> DEFINE t == Append(worker[k], Idle)
  <2>1. /\ t \in Seq(Worker)
        /\ Len(t) = Len(worker[k]) + 1
        /\ \A j \in 1 .. Len(worker[k]) : t[j] = worker[k][j]
    BY <1>1, <1>2
  <2>2. DOMAIN t = 1 .. Len(worker[k]) + 1
    BY <2>1, LenProperties
  <2>3. worker' = [worker EXCEPT ![k] = t]
    BY <1>4 DEF EnsureWorker
  <2> HIDE DEF t
  <2>4. \A k2 \in Kind : worker'[k2] = IF k2 = k THEN t ELSE worker[k2]
    BY <2>1, <2>3 DEF TypeOK
  <2>5. \A i \in 1 .. Len(worker[k]) : i \in 1 .. Len(worker[k]) + 1
    BY <1>1
  <2> QED BY <1>1, <2>1, <2>2, <2>4, <2>5
<1> QED BY <1>3, <1>4

\* The log of submits grows at its end.
LEMMA LogAppended ==
    ASSUME TypeOK, NEW j \in Job, submitted' = Append(submitted, j)
    PROVE  /\ Len(submitted) \in Nat /\ DOMAIN submitted = 1 .. Len(submitted)
           /\ Len(submitted') = Len(submitted) + 1
           /\ DOMAIN submitted' = 1 .. Len(submitted) + 1
           /\ \A n \in 1 .. Len(submitted) : submitted'[n] = submitted[n]
           /\ submitted'[Len(submitted) + 1] = j
<1>1. submitted \in Seq(Job)
  BY DEF TypeOK
<1>2. submitted' \in Seq(Job) /\ Len(submitted') = Len(submitted) + 1
      /\ \A n \in 1 .. Len(submitted) : submitted'[n] = submitted[n]
      /\ submitted'[Len(submitted) + 1] = j
  BY <1>1
<1> QED BY <1>1, <1>2, LenProperties

\* The log holds jobs, and its recent part is part of it.
LEMMA LogEntries ==
    ASSUME TypeOK
    PROVE  /\ epoch \in Nat /\ Len(submitted) \in Nat
           /\ DOMAIN submitted = 1 .. Len(submitted)
           /\ \A n \in DOMAIN submitted : submitted[n] \in Job
           /\ \A n \in Recent : n \in DOMAIN submitted /\ n \in Nat /\ epoch < n
<1>1. submitted \in Seq(Job) /\ epoch \in Nat
  BY DEF TypeOK
<1>2. Len(submitted) \in Nat /\ DOMAIN submitted = 1 .. Len(submitted)
  BY <1>1, LenProperties
<1>3. \A n \in DOMAIN submitted : submitted[n] \in Job
  BY <1>1, ElementOfSeq, <1>2
<1>4. \A n \in Recent : n \in DOMAIN submitted /\ n \in Nat /\ epoch < n
  BY <1>1, <1>2 DEF Recent
<1> QED BY <1>1, <1>2, <1>3, <1>4

-----------------------------------------------------------------------------
(* HInv holds initially and is preserved by every action. *)

LEMMA InitHistory == Init => HInv
<1> SUFFICES ASSUME Init PROVE HInv
  OBVIOUS
<1> USE DEF Init
<1>1. IInv
  BY InitEstablishes
<1>2. Len(submitted) = 0 /\ DOMAIN submitted = {}
  OBVIOUS
<1>3. SubmittedOnce /\ AcceptedFileWasSubmitted /\ DiskLagsByOneStep
  BY <1>2 DEF SubmittedOnce, AcceptedFileWasSubmitted, DiskLagsByOneStep, Absent
<1>4. QueueIsOrdered /\ ExecutingRuns /\ IdleHoldsNothing /\ StoppingIsQuiet
  BY DEF QueueIsOrdered, ExecutingRuns, IdleHoldsNothing, StoppingIsQuiet
<1>5. AcceptedIsQueued /\ RunningIsHeld /\ FifoPerKind
  BY <1>2 DEF AcceptedIsQueued, RunningIsHeld, FifoPerKind, Recent, Absent
<1> QED BY <1>1, <1>3, <1>4, <1>5 DEF HInv

\* A job that has no file was never accepted.
LEMMA UnknownWasNotSubmitted ==
    ASSUME TypeOK, SubmittedOnce, NEW j \in Job, file[j] = Absent
    PROVE  \A n \in DOMAIN submitted : submitted[n] # j
BY DEF SubmittedOnce

LEMMA AcceptKeepsHistory ==
    ASSUME HInv, IInv', NEW j \in Job, Submit(j),
           Persist(j, "accepted"), Put(j), EnsureWorker(KindOf[j]),
           submitted' = Append(submitted, j)
    PROVE  HInv'
<1> USE RegistryAssumption DEF HInv
<1> DEFINE L == Len(submitted)
<1>1. record' = [record EXCEPT ![j] = "accepted"] /\ process = "up"
      /\ record[j] = "absent" /\ file[j] = Absent /\ starts[j] = 0
      /\ UNCHANGED <<process, awaited, deaths, starts, epoch, cancelAcked, skipped>>
  BY DEF Submit, Absent, StartedIsPastAccepted, IInv, TypeOK
<1>2. TypeOK /\ TypeOK' /\ KindOf[j] \in Kind
  BY DEF IInv
<1>3. \A x \in Job : record'[x] = IF x = j THEN "accepted" ELSE record[x]
  BY <1>1, <1>2 DEF TypeOK
<1>4. \A x \in Job : file'[x] = IF x = j THEN "accepted" ELSE file[x]
  BY <1>2 DEF Persist, TypeOK
<1>5. /\ L \in Nat /\ DOMAIN submitted = 1 .. L
      /\ Len(submitted') = L + 1
      /\ DOMAIN submitted' = 1 .. L + 1
      /\ \A n \in 1 .. L : submitted'[n] = submitted[n]
      /\ submitted'[L + 1] = j
  BY <1>2, LogAppended
<1>6. /\ epoch \in Nat /\ epoch <= L /\ L + 1 \in DOMAIN submitted'
      /\ \A n \in DOMAIN submitted : submitted[n] \in Job /\ submitted[n] # j
  BY <1>1, <1>2, <1>5, LogEntries, UnknownWasNotSubmitted DEF SubmittedOnce
<1> HIDE DEF L
<1>7. \A n \in DOMAIN submitted' :
         \/ n \in DOMAIN submitted /\ submitted'[n] = submitted[n] /\ n < L + 1
         \/ n = L + 1 /\ submitted'[n] = j
  BY <1>5
<1>8. /\ L + 1 \in Recent'
      /\ Recent \subseteq Recent'
      /\ \A n \in Recent' : n \in Nat /\ n \in DOMAIN submitted' /\ (n = L + 1 \/ n \in Recent)
      /\ \A n \in Recent : n \in Nat /\ n \in DOMAIN submitted /\ submitted'[n] = submitted[n] /\ n < L + 1
  BY <1>1, <1>5, <1>6 DEF Recent, L
<1>9. /\ \A k \in Kind : \A m \in DOMAIN queue[k] :
           m \in DOMAIN queue'[k] /\ queue'[k][m] = queue[k][m]
      /\ \A x : InQueue(x)' <=> InQueue(x) \/ x = j
  BY <1>2, PutInQueue
<1>10. \A k \in Kind : \A m \in DOMAIN queue'[k] :
          \/ m \in DOMAIN queue[k] /\ queue'[k][m] = queue[k][m]
          \/ /\ k = KindOf[j] /\ queue'[k][m] = j
             /\ m = Len(queue[k]) + 1 /\ m \notin DOMAIN queue[k]
  BY <1>2, QueuePut
<1>11. \A k \in Kind : \A m \in DOMAIN queue[k] : queue[k][m] \in Job /\ queue[k][m] # j
  BY <1>1, <1>2, QueueEntries DEF QueueHoldsUnstarted, IInv
<1>12. \A k \in Kind : \A i \in DOMAIN worker[k] :
          i \in DOMAIN worker'[k] /\ worker'[k][i] = worker[k][i]
  BY <1>2, EnsuredKeeps
<1>13. \A k \in Kind : \A i \in DOMAIN worker'[k] :
          \/ i \in DOMAIN worker[k] /\ worker'[k][i] = worker[k][i]
          \/ worker'[k][i] = Idle
  BY <1>2, WorkerEnsured
<1>14. SubmittedOnce'
  <2>1. ASSUME NEW m \in DOMAIN submitted', NEW n \in DOMAIN submitted',
               submitted'[m] = submitted'[n]
        PROVE  m = n
    BY <1>5, <1>6, <1>7, <2>1 DEF SubmittedOnce
  <2>2. \A n \in DOMAIN submitted' : file'[submitted'[n]] # Absent
    BY <1>4, <1>6, <1>7 DEF SubmittedOnce, Absent
  <2> QED BY <1>1, <1>5, <1>6, <2>1, <2>2 DEF SubmittedOnce
<1>15. QueueIsOrdered'
  <2> SUFFICES ASSUME NEW k \in Kind, NEW a \in DOMAIN queue'[k]
               PROVE  /\ \E m \in Recent' : submitted'[m] = queue'[k][a]
                      /\ \A b \in DOMAIN queue'[k] : \A m, n \in Recent' :
                           a < b /\ submitted'[m] = queue'[k][a] /\ submitted'[n] = queue'[k][b]
                           => m < n
    BY DEF QueueIsOrdered
  <2>1. \E m \in Recent' : submitted'[m] = queue'[k][a]
    <3>1. CASE a \in DOMAIN queue[k] /\ queue'[k][a] = queue[k][a]
      <4>1. PICK m \in Recent : submitted[m] = queue[k][a]
        BY <3>1 DEF QueueIsOrdered
      <4> QED BY <4>1, <3>1, <1>8
    <3>2. CASE queue'[k][a] = j
      BY <3>2, <1>5, <1>8
    <3> QED BY <3>1, <3>2, <1>10
  <2>2. ASSUME NEW b \in DOMAIN queue'[k], NEW m \in Recent', NEW n \in Recent',
               a < b, submitted'[m] = queue'[k][a], submitted'[n] = queue'[k][b]
        PROVE  m < n
    <3>0. DOMAIN queue[k] = 1 .. Len(queue[k]) /\ Len(queue[k]) \in Nat
      BY <1>2, LenProperties DEF TypeOK
    <3>1. a \in DOMAIN queue[k] /\ queue'[k][a] = queue[k][a]
      BY SMTT(30), <1>10, <2>2, <3>0
    <3>2. m \in Recent /\ submitted[m] = queue[k][a]
      BY <3>1, <2>2, <1>8, <1>11, <1>5
    <3>3. CASE b \in DOMAIN queue[k] /\ queue'[k][b] = queue[k][b]
      <4>1. n \in Recent /\ submitted[n] = queue[k][b]
        BY <3>3, <2>2, <1>8, <1>11, <1>5
      <4> QED BY <4>1, <3>1, <3>2, <3>3, <2>2 DEF QueueIsOrdered
    <3>4. CASE queue'[k][b] = j
      <4>1. n = L + 1
        BY <3>4, <2>2, <1>6, <1>8
      <4> QED BY <4>1, <3>2, <1>8
    <3> QED BY <3>3, <3>4, <1>10
  <2> QED BY <2>1, <2>2
<1>16. AcceptedIsQueued'
  BY <1>1, <1>3, <1>5, <1>6, <1>8, <1>9 DEF AcceptedIsQueued
<1>17. AcceptedFileWasSubmitted'
  <2> SUFFICES ASSUME NEW x \in Job, file'[x] = "accepted"
               PROVE  \E n \in DOMAIN submitted' : submitted'[n] = x
    BY DEF AcceptedFileWasSubmitted, WasSubmitted
  <2>1. CASE x = j
    BY <2>1, <1>5, <1>6
  <2>2. CASE x # j
    <3>1. PICK n \in DOMAIN submitted : submitted[n] = x
      BY <2>2, <1>4 DEF AcceptedFileWasSubmitted, WasSubmitted
    <3> QED BY <3>1, <1>5
  <2> QED BY <2>1, <2>2
<1>18. \A x : WasSubmitted(x) => WasSubmitted(x)'
  <2> SUFFICES ASSUME NEW x, NEW n \in DOMAIN submitted, submitted[n] = x
               PROVE  \E m \in DOMAIN submitted' : submitted'[m] = x
    BY DEF WasSubmitted
  <2> QED BY <1>5
<1>19. ExecutingRuns' /\ IdleHoldsNothing'
  <2>1. ASSUME NEW k \in Kind, NEW i \in DOMAIN worker'[k], NEW x \in Job, Executing(x, k, i)'
        PROVE  /\ KindOf[x] = k /\ record'[x] = "running" /\ file'[x] = "running"
               /\ WasSubmitted(x)'
    <3>1. i \in DOMAIN worker[k] /\ Executing(x, k, i)
      BY <2>1, <1>13 DEF Executing, Idle
    <3>2. KindOf[x] = k /\ record[x] = "running" /\ file[x] = "running" /\ WasSubmitted(x)
      BY <3>1 DEF ExecutingRuns
    <3>3. x # j
      BY <3>2, <1>1
    <3> QED BY <3>2, <3>3, <1>3, <1>4, <1>18
  <2>2. IdleHoldsNothing'
    BY <1>13 DEF IdleHoldsNothing, Idle
  <2> QED BY <2>1, <2>2 DEF ExecutingRuns
<1>20. RunningIsHeld'
  BY SMTT(30), <1>1, <1>3, <1>12 DEF RunningIsHeld
<1>21. StoppingIsQuiet'
  BY <1>1 DEF StoppingIsQuiet
<1>22. DiskLagsByOneStep'
  BY <1>1, <1>3, <1>4, <1>12 DEF DiskLagsByOneStep, HeldByCrashed
<1>23. FifoPerKind'
  <2> SUFFICES ASSUME NEW m \in Recent', NEW n \in Recent', m < n,
                      KindOf[submitted'[m]] = KindOf[submitted'[n]],
                      starts'[submitted'[n]] > 0
               PROVE  record'[submitted'[m]] # "accepted"
    BY DEF FifoPerKind, Recent
  <2>1. n \in Recent
    BY <1>1, <1>5, <1>8
  <2>2. m \in Recent
    BY <2>1, <1>5, <1>8
  <2>3. record'[submitted'[m]] = record[submitted[m]]
    BY <2>2, <1>3, <1>6, <1>8
  <2> QED BY <2>1, <2>2, <2>3, <1>1, <1>8 DEF FifoPerKind, Recent
<1> QED BY <1>14, <1>15, <1>16, <1>17, <1>19, <1>20, <1>21, <1>22, <1>23

LEMMA SubmitKeepsHistory ==
    ASSUME HInv, IInv', NEW j \in Job, Submit(j)
    PROVE  HInv'
<1>1. CASE /\ Persist(j, "accepted") /\ Put(j) /\ EnsureWorker(KindOf[j])
           /\ submitted' = Append(submitted, j)
  BY <1>1, AcceptKeepsHistory
<1>2. CASE PersistRaises /\ UNCHANGED <<queue, worker, submitted>>
  <2> USE RegistryAssumption DEF HInv
  <2>1. record' = [record EXCEPT ![j] = "accepted"] /\ process = "up"
        /\ record[j] = "absent" /\ file[j] = Absent /\ TypeOK
        /\ UNCHANGED <<process, file, awaited, deaths, starts, epoch, cancelAcked, skipped>>
        /\ UNCHANGED <<queue, worker, submitted>>
    BY <1>2 DEF Submit, PersistRaises, Absent, IInv
  <2>2. \A x \in Job : record'[x] = IF x = j THEN "accepted" ELSE record[x]
    BY <2>1 DEF TypeOK
  <2>3. \A n \in Recent : submitted[n] \in Job /\ submitted[n] # j
    BY <2>1, LogEntries, UnknownWasNotSubmitted
  <2>4. SubmittedOnce' /\ QueueIsOrdered' /\ AcceptedFileWasSubmitted' /\ IdleHoldsNothing'
    BY <2>1 DEF SubmittedOnce, QueueIsOrdered, AcceptedFileWasSubmitted, WasSubmitted,
                IdleHoldsNothing, Recent
  <2>5. AcceptedIsQueued'
    BY <2>1, <2>2, <2>3 DEF AcceptedIsQueued, Recent, InQueue
  <2>6. ExecutingRuns'
    BY <2>1, <2>2 DEF ExecutingRuns, Executing, WasSubmitted
  <2>7. RunningIsHeld' /\ StoppingIsQuiet'
    BY <2>1, <2>2 DEF RunningIsHeld, StoppingIsQuiet
  <2>8. DiskLagsByOneStep'
    BY <2>1, <2>2 DEF DiskLagsByOneStep, HeldByCrashed, Absent
  <2>9. FifoPerKind'
    BY <2>1, <2>2, <2>3 DEF FifoPerKind, Recent
  <2> QED BY <2>4, <2>5, <2>6, <2>7, <2>8, <2>9
<1> QED BY <1>1, <1>2 DEF Submit

LEMMA CancelKeepsHistory ==
    ASSUME HInv, IInv', NEW j \in Job, Cancel(j)
    PROVE  HInv'
<1> USE DEF HInv
<1>1. /\ record[j] = "accepted" /\ record' = [record EXCEPT ![j] = "cancelled"]
      /\ process = "up" /\ TypeOK
      /\ UNCHANGED <<process, queue, worker, awaited, deaths, starts, submitted, epoch, skipped>>
  BY DEF Cancel, Cancellable, IInv
<1>2. \A x \in Job : record'[x] = IF x = j THEN "cancelled" ELSE record[x]
  BY <1>1 DEF TypeOK
<1>3. \A x \in Job : file'[x] = file[x] \/ (x = j /\ file'[x] = "cancelled")
  BY <1>1 DEF Cancel, Persist, PersistRaises, TypeOK
<1>4. \A n \in DOMAIN submitted : submitted[n] \in Job
  BY <1>1, LogEntries
<1>5. \A n \in Recent : submitted[n] \in Job
  BY <1>1, LogEntries
<1>6. SubmittedOnce'
  BY <1>1, <1>3, <1>4 DEF SubmittedOnce, Absent
<1>7. QueueIsOrdered' /\ IdleHoldsNothing'
  BY <1>1 DEF QueueIsOrdered, IdleHoldsNothing, Recent
<1>8. AcceptedIsQueued'
  BY <1>1, <1>2, <1>5 DEF AcceptedIsQueued, Recent, InQueue
<1>9. AcceptedFileWasSubmitted'
  BY <1>1, <1>3 DEF AcceptedFileWasSubmitted, WasSubmitted
<1>10. ExecutingRuns'
  BY <1>1, <1>2, <1>3 DEF ExecutingRuns, Executing, WasSubmitted
<1>11. RunningIsHeld' /\ StoppingIsQuiet'
  BY <1>1, <1>2 DEF RunningIsHeld, StoppingIsQuiet
<1>12. DiskLagsByOneStep'
  <2>1. file[j] \in {"absent", "accepted"}
    BY <1>1 DEF DiskLagsByOneStep, Absent
  <2> QED BY <1>1, <1>2, <1>3, <2>1 DEF DiskLagsByOneStep, HeldByCrashed
<1>13. FifoPerKind'
  BY <1>1, <1>2, <1>5 DEF FifoPerKind, Recent
<1> QED BY <1>6, <1>7, <1>8, <1>9, <1>10, <1>11, <1>12, <1>13

\* Taking the head leaves the rest of the queue in the order of the log.
LEMMA TakenKeepsOrder ==
    ASSUME TypeOK, QueueIsOrdered, NEW k \in Kind, queue[k] # <<>>,
           queue' = [queue EXCEPT ![k] = Tail(@)], UNCHANGED <<submitted, epoch>>
    PROVE  QueueIsOrdered'
<1>1. /\ \A k2 \in Kind : k2 # k => queue'[k2] = queue[k2]
      /\ \A m \in DOMAIN queue'[k] :
            m \in Nat /\ m + 1 \in DOMAIN queue[k] /\ queue'[k][m] = queue[k][m + 1]
      /\ Recent' = Recent
  BY QueueTaken DEF Recent
<1> SUFFICES ASSUME NEW k2 \in Kind, NEW a \in DOMAIN queue'[k2]
             PROVE  /\ \E m \in Recent : submitted[m] = queue'[k2][a]
                    /\ \A b \in DOMAIN queue'[k2] : \A m, n \in Recent :
                         a < b /\ submitted[m] = queue'[k2][a] /\ submitted[n] = queue'[k2][b]
                         => m < n
  BY <1>1 DEF QueueIsOrdered
<1>2. CASE k2 # k
  BY <1>1, <1>2 DEF QueueIsOrdered
<1>3. CASE k2 = k
  <2>1. a \in Nat /\ a + 1 \in DOMAIN queue[k] /\ queue'[k][a] = queue[k][a + 1]
    BY <1>1, <1>3
  <2>2. ASSUME NEW b \in DOMAIN queue'[k], NEW m \in Recent, NEW n \in Recent,
               a < b, submitted[m] = queue'[k][a], submitted[n] = queue'[k][b]
        PROVE  m < n
    <3>1. b \in Nat /\ b + 1 \in DOMAIN queue[k] /\ queue'[k][b] = queue[k][b + 1]
      BY <1>1
    <3>2. a + 1 < b + 1
      BY <2>1, <2>2, <3>1
    <3>3. \A a2, b2 \in DOMAIN queue[k] :
             a2 < b2 /\ submitted[m] = queue[k][a2] /\ submitted[n] = queue[k][b2] => m < n
      BY DEF QueueIsOrdered
    <3> QED BY <2>1, <2>2, <3>1, <3>2, <3>3
  <2> QED BY <1>3, <2>1, <2>2 DEF QueueIsOrdered
<1> QED BY <1>2, <1>3

LEMMA SkipKeepsHistory ==
    ASSUME HInv, IInv', NEW k \in Kind, NEW i \in DOMAIN worker[k], Skip(k, i)
    PROVE  HInv'
<1> USE DEF HInv
<1>1. /\ queue[k] # <<>> /\ record[Head(queue[k])] = "cancelled" /\ TypeOK
      /\ queue' = [queue EXCEPT ![k] = Tail(@)]
      /\ UNCHANGED <<process, record, file, worker, awaited, faults, deaths>>
      /\ UNCHANGED <<starts, submitted, epoch, cancelAcked, skipped>>
  BY DEF Skip, Dropped, history, IInv
<1>2. QueueIsOrdered'
  BY <1>1, TakenKeepsOrder
<1>3. AcceptedIsQueued'
  <2>1. \A x : InQueue(x) /\ x # Head(queue[k]) => InQueue(x)'
    BY <1>1, TakenFromQueue
  <2> QED BY <1>1, <2>1 DEF AcceptedIsQueued, Recent
<1>4. SubmittedOnce' /\ AcceptedFileWasSubmitted' /\ IdleHoldsNothing' /\ RunningIsHeld'
  BY <1>1 DEF SubmittedOnce, AcceptedFileWasSubmitted, IdleHoldsNothing, RunningIsHeld, WasSubmitted
<1>5. ExecutingRuns' /\ StoppingIsQuiet'
  <2>1. ExecutingRuns'
    BY <1>1 DEF ExecutingRuns, Executing, WasSubmitted
  <2>2. StoppingIsQuiet'
    BY <1>1 DEF StoppingIsQuiet
  <2> QED BY <2>1, <2>2
<1>6. DiskLagsByOneStep' /\ FifoPerKind'
  BY <1>1 DEF DiskLagsByOneStep, FifoPerKind, HeldByCrashed
<1> QED BY <1>2, <1>3, <1>4, <1>5, <1>6

\* A crashed worker names its record for good.
LEMMA HeldKept ==
    ASSUME TypeOK, NEW k \in Kind, NEW i \in DOMAIN worker[k], NEW w \in Worker,
           worker' = [worker EXCEPT ![k][i] = w]
    PROVE  /\ worker[k][i].state # "crashed" => \A x : HeldByCrashed(x) => HeldByCrashed(x)'
           /\ \A x : w = [state |-> "crashed", job |-> x] => HeldByCrashed(x)'
<1>1. \A k2 \in Kind :
         /\ DOMAIN worker'[k2] = DOMAIN worker[k2]
         /\ \A i2 \in DOMAIN worker[k2] :
              worker'[k2][i2] = IF k2 = k /\ i2 = i THEN w ELSE worker[k2][i2]
  BY WorkerEntrySet
<1>2. ASSUME worker[k][i].state # "crashed", NEW x, HeldByCrashed(x)
      PROVE  HeldByCrashed(x)'
  <2>1. PICK k2 \in Kind : \E i2 \in DOMAIN worker[k2] :
                worker[k2][i2] = [state |-> "crashed", job |-> x]
    BY <1>2 DEF HeldByCrashed
  <2>2. PICK i2 \in DOMAIN worker[k2] : worker[k2][i2] = [state |-> "crashed", job |-> x]
    BY <2>1
  <2>3. worker[k2][i2].state = "crashed"
    BY <2>2
  <2>4. ~(k2 = k /\ i2 = i)
    BY <1>2, <2>3
  <2>5. i2 \in DOMAIN worker'[k2] /\ worker'[k2][i2] = [state |-> "crashed", job |-> x]
    BY <1>1, <2>2, <2>4
  <2> QED BY <2>5 DEF HeldByCrashed
<1>3. ASSUME NEW x, w = [state |-> "crashed", job |-> x]
      PROVE  HeldByCrashed(x)'
  <2>1. i \in DOMAIN worker'[k] /\ worker'[k][i] = [state |-> "crashed", job |-> x]
    BY <1>1, <1>3
  <2> QED BY <2>1 DEF HeldByCrashed
<1> QED BY <1>2, <1>3

\* Outside of a shutdown is where workers take and run jobs.
LEMMA WorkingMeansUp ==
    ASSUME HInv, NEW k \in Kind, NEW i \in DOMAIN worker[k],
           worker[k][i].state \in {"idle", "busy"}
    PROVE  process = "up"
<1>1. process # "down"
  BY WorkerMeansAlive DEF HInv, IInv
<1> QED BY <1>1 DEF HInv, StoppingIsQuiet

LEMMA StartKeepsHistory ==
    ASSUME HInv, IInv', NEW k \in Kind, NEW i \in DOMAIN worker[k], Start(k, i)
    PROVE  HInv'
<1> USE DEF HInv
<1> DEFINE j == Head(queue[k])
<1>1. /\ worker[k][i].state = "idle" /\ queue[k] # <<>> /\ record[j] # "cancelled"
      /\ queue' = [queue EXCEPT ![k] = Tail(@)]
      /\ record' = [record EXCEPT ![j] = "running"]
      /\ UNCHANGED <<process, awaited, deaths, submitted, epoch, cancelAcked, skipped>>
  BY DEF Start, Dropped
<1>2. TypeOK /\ TypeOK' /\ process = "up" /\ Recent' = Recent
  BY <1>1, WorkingMeansUp DEF IInv, Recent
<1>3. j = queue[k][1] /\ 1 \in DOMAIN queue[k]
  BY <1>1, <1>2, QueueTaken
<1>4. j \in Job /\ starts[j] = 0 /\ record[j] = "accepted" /\ KindOf[j] = k
  BY <1>1, <1>2, <1>3, QueueEntries DEF QueueHoldsUnstarted, IInv
<1>5. PICK p \in Recent : submitted[p] = j
  BY <1>3 DEF QueueIsOrdered
<1>6. /\ \A n \in Recent : n \in DOMAIN submitted /\ n \in Nat /\ submitted[n] \in Job
      /\ \A n \in DOMAIN submitted : submitted[n] \in Job
      /\ WasSubmitted(j)
  BY <1>2, <1>5, LogEntries DEF WasSubmitted
<1>7. file[j] = "accepted"
  BY <1>2, <1>4, <1>5, <1>6 DEF SubmittedOnce, DiskLagsByOneStep, Absent
<1>8. /\ \A x : InQueue(x)' => InQueue(x)
      /\ \A x : InQueue(x) /\ x # j => InQueue(x)'
  BY <1>1, <1>2, TakenFromQueue
<1> HIDE DEF j
<1>9. PICK w \in Worker :
        /\ worker' = [worker EXCEPT ![k][i] = w]
        /\ w.job = j
        /\ \/ /\ w.state = "busy"
              /\ file' = [file EXCEPT ![j] = "running"]
              /\ starts' = [starts EXCEPT ![j] = @ + 1]
           \/ /\ w.state = "crashed" /\ w = [state |-> "crashed", job |-> j]
              /\ UNCHANGED <<file, starts>>
  <2>1. CASE /\ Persist(j, "running")
             /\ worker' = [worker EXCEPT ![k][i] = [state |-> "busy", job |-> j]]
             /\ starts' = [starts EXCEPT ![j] = @ + 1]
    <3> DEFINE v == [state |-> "busy", job |-> j]
    <3>1. v \in Worker /\ v.job = j /\ v.state = "busy" /\ worker' = [worker EXCEPT ![k][i] = v]
      BY <1>4, <2>1 DEF Worker, LiveState
    <3> HIDE DEF v
    <3> QED BY <3>1, <2>1 DEF Persist
  <2>2. CASE /\ PersistRaises
             /\ worker' = [worker EXCEPT ![k][i] = [state |-> "crashed", job |-> j]]
             /\ UNCHANGED starts
    <3> DEFINE v == [state |-> "crashed", job |-> j]
    <3>1. v \in Worker /\ v.job = j /\ v.state = "crashed" /\ worker' = [worker EXCEPT ![k][i] = v]
      BY <1>4, <2>2 DEF Worker, DoneState
    <3>2. v = [state |-> "crashed", job |-> j]
      OBVIOUS
    <3> HIDE DEF v
    <3> QED BY <3>1, <3>2, <2>2 DEF PersistRaises
  <2> QED BY <2>1, <2>2 DEF Start, j
<1>10. /\ \A x \in Job : record'[x] = IF x = j THEN "running" ELSE record[x]
       /\ \A x \in Job : file'[x] = file[x] \/ (x = j /\ file'[x] = "running")
       /\ \A x \in Job : x # j => starts'[x] = starts[x]
       /\ w.state = "busy" => file'[j] = "running"
       /\ w.state = "busy" \/ (w = [state |-> "crashed", job |-> j] /\ file'[j] = file[j])
  BY <1>1, <1>2, <1>4, <1>9 DEF TypeOK
<1>11. \A k2 \in Kind :
         /\ DOMAIN worker'[k2] = DOMAIN worker[k2]
         /\ \A i2 \in DOMAIN worker[k2] :
              worker'[k2][i2] = IF k2 = k /\ i2 = i THEN w ELSE worker[k2][i2]
  BY <1>2, <1>9, WorkerEntrySet
<1>12. QueueIsOrdered'
  BY <1>1, <1>2, TakenKeepsOrder
<1>13. SubmittedOnce'
  BY <1>1, <1>6, <1>10 DEF SubmittedOnce, Absent
<1>14. AcceptedIsQueued' /\ AcceptedFileWasSubmitted'
  BY <1>1, <1>2, <1>6, <1>8, <1>10 DEF AcceptedIsQueued, AcceptedFileWasSubmitted, WasSubmitted
<1>15. ExecutingRuns'
  <2>1. ASSUME NEW k2 \in Kind, NEW i2 \in DOMAIN worker'[k2], NEW x \in Job, Executing(x, k2, i2)'
        PROVE  /\ KindOf[x] = k2 /\ record'[x] = "running" /\ file'[x] = "running"
               /\ WasSubmitted(x)'
    <3>1. CASE k2 = k /\ i2 = i
      <4>1. x = j /\ w.state = "busy"
        BY <2>1, <3>1, <1>9, <1>11 DEF Executing
      <4> QED BY <4>1, <3>1, <1>1, <1>4, <1>6, <1>10 DEF WasSubmitted
    <3>2. CASE ~(k2 = k /\ i2 = i)
      <4>1. i2 \in DOMAIN worker[k2] /\ Executing(x, k2, i2)
        BY <2>1, <3>2, <1>11 DEF Executing
      <4>2. KindOf[x] = k2 /\ record[x] = "running" /\ file[x] = "running" /\ WasSubmitted(x)
        BY <4>1 DEF ExecutingRuns
      <4> QED BY <4>2, <1>1, <1>10 DEF WasSubmitted
    <3> QED BY <3>1, <3>2
  <2> QED BY <2>1 DEF ExecutingRuns
<1>16. IdleHoldsNothing'
  BY <1>9, <1>11 DEF IdleHoldsNothing
<1>17. RunningIsHeld'
  <2> SUFFICES ASSUME NEW x \in Job, record'[x] = "running"
               PROVE  \E k2 \in Kind : \E i2 \in DOMAIN worker'[k2] :
                         worker'[k2][i2].job = x /\ worker'[k2][i2].state \in {"busy", "crashed"}
    BY DEF RunningIsHeld
  <2>1. CASE x = j
    BY <2>1, <1>9, <1>11
  <2>2. CASE x # j
    <3>1. PICK k2 \in Kind : \E i2 \in DOMAIN worker[k2] :
                worker[k2][i2].job = x /\ worker[k2][i2].state \in {"busy", "crashed"}
      BY <2>2, <1>2, <1>10 DEF RunningIsHeld
    <3>2. PICK i2 \in DOMAIN worker[k2] :
                worker[k2][i2].job = x /\ worker[k2][i2].state \in {"busy", "crashed"}
      BY <3>1
    <3>3. ~(k2 = k /\ i2 = i)
      BY <3>2, <1>1
    <3> QED BY <3>2, <3>3, <1>11
  <2> QED BY <2>1, <2>2
<1>18. StoppingIsQuiet'
  BY <1>1, <1>2 DEF StoppingIsQuiet
<1>19. DiskLagsByOneStep'
  <2>1. /\ \A x : HeldByCrashed(x) => HeldByCrashed(x)'
        /\ \A x : w = [state |-> "crashed", job |-> x] => HeldByCrashed(x)'
    BY <1>1, <1>2, <1>9, HeldKept
  <2>2. ASSUME NEW x \in Job, record'[x] # file'[x]
        PROVE  \/ <<record'[x], file'[x]>> \in {<<"accepted", "absent">>,
                     <<"cancelled", "absent">>, <<"cancelled", "accepted">>}
               \/ /\ HeldByCrashed(x)'
                  /\ <<record'[x], file'[x]>> \in {<<"running", "accepted">>,
                        <<"succeeded", "running">>, <<"failed", "running">>}
               \/ x \in skipped /\ record'[x] = Absent
    <3>1. CASE x = j
      BY <3>1, <2>1, <2>2, <1>7, <1>10
    <3>2. CASE x # j
      BY <3>2, <2>1, <2>2, <1>2, <1>10 DEF DiskLagsByOneStep, Absent
    <3> QED BY <3>1, <3>2
  <2> QED BY <1>1, <2>2 DEF DiskLagsByOneStep
<1>20. FifoPerKind'
  <2> SUFFICES ASSUME NEW m \in Recent, NEW n \in Recent, m < n,
                      KindOf[submitted[m]] = KindOf[submitted[n]],
                      starts'[submitted[n]] > 0, record'[submitted[m]] = "accepted"
               PROVE  FALSE
    BY <1>1, <1>2 DEF FifoPerKind, Recent
  <2>1. record[submitted[m]] = "accepted" /\ submitted[m] # j
    BY <1>6, <1>10
  <2>2. CASE submitted[n] # j
    BY <2>1, <2>2, <1>2, <1>6, <1>10 DEF FifoPerKind, Recent
  <2>3. CASE submitted[n] = j
    <3>1. InQueue(submitted[m])
      BY <2>1, <1>2 DEF AcceptedIsQueued
    <3>2. PICK k2 \in Kind : \E b \in DOMAIN queue[k2] : queue[k2][b] = submitted[m]
      BY <3>1 DEF InQueue
    <3>3. PICK b \in DOMAIN queue[k2] : queue[k2][b] = submitted[m]
      BY <3>2
    <3>4. k2 = k
      BY <3>3, <2>3, <1>4 DEF IInv, QueueHoldsUnstarted
    <3>5. b # 1 /\ b \in DOMAIN queue[k]
      BY <3>3, <3>4, <2>1, <1>3
    <3>6. 1 < b
      BY <3>5, <1>2, LenProperties DEF TypeOK
    <3>7. n < m
      BY <3>3, <3>4, <3>5, <3>6, <2>3, <1>3 DEF QueueIsOrdered
    <3> QED BY <3>7, <1>6
  <2> QED BY <2>2, <2>3
<1> QED BY <1>12, <1>13, <1>14, <1>15, <1>16, <1>17, <1>18, <1>19, <1>20

\* A job that executes is held by one worker: the last one of its kind.
LEMMA ExecutingIsUnique ==
    ASSUME IInv, ExecutingRuns, NEW j \in Job,
           NEW k \in Kind, NEW i \in DOMAIN worker[k], Executing(j, k, i),
           NEW k2 \in Kind, NEW i2 \in DOMAIN worker[k2], Executing(j, k2, i2)
    PROVE  k2 = k /\ i2 = i
<1>1. k2 = k
  BY DEF ExecutingRuns
<1>2. worker[k][i].state \notin DoneState /\ worker[k2][i2].state \notin DoneState
  BY DEF Executing, DoneState
<1> QED BY <1>1, <1>2, LiveIsLast DEF IInv

LEMMA FinishKeepsHistory ==
    ASSUME HInv, IInv', NEW k \in Kind, NEW i \in DOMAIN worker[k],
           NEW outcome \in {"succeeded", "failed"}, Finish(k, i, outcome)
    PROVE  HInv'
<1> USE DEF HInv
<1> DEFINE j == worker[k][i].job
<1>1. /\ worker[k][i].state = "busy"
      /\ record' = [record EXCEPT ![j] = outcome]
      /\ UNCHANGED <<process, queue, awaited, deaths>>
      /\ UNCHANGED <<starts, submitted, epoch, cancelAcked, skipped>>
  BY DEF Finish, history
<1>2. TypeOK /\ TypeOK' /\ process = "up" /\ Recent' = Recent
  BY <1>1, WorkingMeansUp DEF IInv, Recent
<1>3. j \in Job /\ Executing(j, k, i)
  BY <1>1 DEF IInv, BusyWasStarted, Executing
<1>4. record[j] = "running" /\ file[j] = "running"
  BY <1>3 DEF ExecutingRuns
<1> HIDE DEF j
<1>5. PICK w \in Worker :
        /\ worker' = [worker EXCEPT ![k][i] = w]
        /\ w.state \notin {"busy", "cancelling"}
        /\ w.state = "idle" => w.job = NoJob
        /\ \/ file' = [file EXCEPT ![j] = outcome]
           \/ w = [state |-> "crashed", job |-> j] /\ UNCHANGED file
  <2>1. CASE Persist(j, outcome) /\ worker' = [worker EXCEPT ![k][i] = Idle]
    <3>1. Idle \in Worker /\ Idle.state = "idle" /\ Idle.job = NoJob
      BY DEF Idle, Worker, LiveState
    <3> QED BY <3>1, <2>1 DEF Persist
  <2>2. CASE PersistRaises /\ worker' = [worker EXCEPT ![k][i] = [state |-> "crashed", job |-> j]]
    <3> DEFINE v == [state |-> "crashed", job |-> j]
    <3>1. v \in Worker /\ v.state = "crashed" /\ worker' = [worker EXCEPT ![k][i] = v]
      BY <1>3, <2>2 DEF Worker, DoneState
    <3>2. v = [state |-> "crashed", job |-> j]
      OBVIOUS
    <3> HIDE DEF v
    <3> QED BY <3>1, <3>2, <2>2 DEF PersistRaises
  <2> QED BY <2>1, <2>2 DEF Finish, j
<1>6. /\ \A x \in Job : record'[x] = IF x = j THEN outcome ELSE record[x]
      /\ \A x \in Job : file'[x] = file[x] \/ (x = j /\ file'[x] = outcome)
      /\ \/ file'[j] = outcome
         \/ w = [state |-> "crashed", job |-> j] /\ file'[j] = file[j]
  BY <1>1, <1>2, <1>3, <1>5 DEF TypeOK
<1>7. \A k2 \in Kind :
         /\ DOMAIN worker'[k2] = DOMAIN worker[k2]
         /\ \A i2 \in DOMAIN worker[k2] :
              worker'[k2][i2] = IF k2 = k /\ i2 = i THEN w ELSE worker[k2][i2]
  BY <1>2, <1>5, WorkerEntrySet
<1>8. \A n \in DOMAIN submitted : submitted[n] \in Job
  BY <1>2, LogEntries
<1>9. \A n \in Recent : submitted[n] \in Job
  BY <1>2, LogEntries
<1>10. SubmittedOnce' /\ QueueIsOrdered' /\ AcceptedFileWasSubmitted'
  <2>1. SubmittedOnce'
    BY <1>1, <1>6, <1>8 DEF SubmittedOnce, Absent
  <2>2. QueueIsOrdered'
    BY <1>1, <1>2 DEF QueueIsOrdered
  <2>3. AcceptedFileWasSubmitted'
    BY <1>1, <1>6 DEF AcceptedFileWasSubmitted, WasSubmitted
  <2> QED BY <2>1, <2>2, <2>3
<1>11. AcceptedIsQueued' /\ FifoPerKind'
  <2>1. AcceptedIsQueued'
    BY <1>1, <1>2, <1>6, <1>9 DEF AcceptedIsQueued, InQueue
  <2>2. FifoPerKind'
    BY <1>1, <1>2, <1>6, <1>9 DEF FifoPerKind, Recent
  <2> QED BY <2>1, <2>2
<1>12. ExecutingRuns'
  <2>1. ASSUME NEW k2 \in Kind, NEW i2 \in DOMAIN worker'[k2], NEW x \in Job, Executing(x, k2, i2)'
        PROVE  /\ KindOf[x] = k2 /\ record'[x] = "running" /\ file'[x] = "running"
               /\ WasSubmitted(x)'
    <3>1. ~(k2 = k /\ i2 = i) /\ i2 \in DOMAIN worker[k2] /\ Executing(x, k2, i2)
      BY <2>1, <1>5, <1>7 DEF Executing
    <3>2. KindOf[x] = k2 /\ record[x] = "running" /\ file[x] = "running" /\ WasSubmitted(x)
      BY <3>1 DEF ExecutingRuns
    <3>3. x # j
      BY <3>1, <1>3, ExecutingIsUnique
    <3> QED BY <3>2, <3>3, <1>1, <1>6 DEF WasSubmitted
  <2> QED BY <2>1 DEF ExecutingRuns
<1>13. IdleHoldsNothing'
  BY <1>5, <1>7 DEF IdleHoldsNothing
<1>14. RunningIsHeld'
  <2> SUFFICES ASSUME NEW x \in Job, record'[x] = "running"
               PROVE  \E k2 \in Kind : \E i2 \in DOMAIN worker'[k2] :
                         worker'[k2][i2].job = x /\ worker'[k2][i2].state \in {"busy", "crashed"}
    BY DEF RunningIsHeld
  <2>1. x # j /\ record[x] = "running"
    BY <1>6
  <2>2. PICK k2 \in Kind : \E i2 \in DOMAIN worker[k2] :
                worker[k2][i2].job = x /\ worker[k2][i2].state \in {"busy", "crashed"}
    BY <2>1, <1>2 DEF RunningIsHeld
  <2>3. PICK i2 \in DOMAIN worker[k2] :
                worker[k2][i2].job = x /\ worker[k2][i2].state \in {"busy", "crashed"}
    BY <2>2
  <2>4. ~(k2 = k /\ i2 = i)
    BY <2>1, <2>3 DEF j
  <2> QED BY <2>3, <2>4, <1>7
<1>15. StoppingIsQuiet'
  BY <1>1, <1>2 DEF StoppingIsQuiet
<1>16. DiskLagsByOneStep'
  <2>1. /\ \A x : HeldByCrashed(x) => HeldByCrashed(x)'
        /\ \A x : w = [state |-> "crashed", job |-> x] => HeldByCrashed(x)'
    BY <1>1, <1>2, <1>5, HeldKept
  <2>2. ASSUME NEW x \in Job, record'[x] # file'[x]
        PROVE  \/ <<record'[x], file'[x]>> \in {<<"accepted", "absent">>,
                     <<"cancelled", "absent">>, <<"cancelled", "accepted">>}
               \/ /\ HeldByCrashed(x)'
                  /\ <<record'[x], file'[x]>> \in {<<"running", "accepted">>,
                        <<"succeeded", "running">>, <<"failed", "running">>}
               \/ x \in skipped /\ record'[x] = Absent
    <3>1. CASE x = j
      BY <3>1, <2>1, <2>2, <1>4, <1>6
    <3>2. CASE x # j
      BY <3>2, <2>1, <2>2, <1>2, <1>6 DEF DiskLagsByOneStep, Absent
    <3> QED BY <3>1, <3>2
  <2> QED BY <1>1, <2>2 DEF DiskLagsByOneStep
<1> QED BY <1>10, <1>11, <1>12, <1>13, <1>14, <1>15, <1>16

LEMMA UnwindKeepsHistory ==
    ASSUME HInv, IInv', NEW k \in Kind, NEW i \in DOMAIN worker[k], Unwind(k, i)
    PROVE  HInv'
<1> USE DEF HInv
<1> DEFINE w == [state |-> "cancelled", job |-> NoJob]
<1>1. /\ worker[k][i].state = "cancelling"
      /\ worker' = [worker EXCEPT ![k][i] = w]
      /\ UNCHANGED <<process, record, file, queue, awaited, faults, deaths>>
      /\ UNCHANGED <<starts, submitted, epoch, cancelAcked, skipped>>
  BY DEF Unwind, history
<1>2. w \in Worker /\ w.state = "cancelled" /\ TypeOK
  BY DEF Worker, DoneState, IInv
<1> HIDE DEF w
<1>3. \A k2 \in Kind :
         /\ DOMAIN worker'[k2] = DOMAIN worker[k2]
         /\ \A i2 \in DOMAIN worker[k2] :
              worker'[k2][i2] = IF k2 = k /\ i2 = i THEN w ELSE worker[k2][i2]
  BY <1>1, <1>2, WorkerEntrySet
<1>4. SubmittedOnce' /\ QueueIsOrdered' /\ AcceptedIsQueued' /\ AcceptedFileWasSubmitted'
      /\ FifoPerKind'
  <2>1. SubmittedOnce' /\ QueueIsOrdered' /\ AcceptedFileWasSubmitted'
    BY <1>1 DEF SubmittedOnce, QueueIsOrdered, Recent, AcceptedFileWasSubmitted, WasSubmitted
  <2>2. AcceptedIsQueued' /\ FifoPerKind'
    BY <1>1 DEF AcceptedIsQueued, Recent, InQueue, FifoPerKind
  <2> QED BY <2>1, <2>2
<1>5. ExecutingRuns'
  BY <1>1, <1>2, <1>3 DEF ExecutingRuns, Executing, WasSubmitted
<1>6. IdleHoldsNothing'
  BY <1>2, <1>3 DEF IdleHoldsNothing
<1>7. RunningIsHeld'
  BY <1>1, <1>3 DEF RunningIsHeld
<1>8. StoppingIsQuiet'
  <2> SUFFICES ASSUME process \notin {"up", "down"}
               PROVE  /\ \A k2 \in Kind : \A i2 \in DOMAIN worker'[k2] :
                             worker'[k2][i2].state \notin {"idle", "busy"}
                      /\ \A m \in 1 .. awaited : \A i2 \in DOMAIN worker'[KindOrder[m]] :
                             worker'[KindOrder[m]][i2].state \in DoneState
    BY <1>1 DEF StoppingIsQuiet
  <2>1. awaited \in Nat /\ awaited <= Len(KindOrder)
    BY <1>2 DEF StoppingIsQuiet, TypeOK
  <2>2. \A m \in 1 .. awaited : KindOrder[m] \in Kind
    BY <2>1, RegistryAssumption, LenProperties, ElementOfSeq DEF RegistryAssumption
  <2>3. \A k2 \in Kind : \A i2 \in DOMAIN worker'[k2] :
             worker'[k2][i2].state \notin {"idle", "busy"}
    BY <1>2, <1>3 DEF StoppingIsQuiet
  <2>4. \A m \in 1 .. awaited : \A i2 \in DOMAIN worker'[KindOrder[m]] :
             worker'[KindOrder[m]][i2].state \in DoneState
    BY <1>2, <1>3, <2>2 DEF StoppingIsQuiet, DoneState
  <2> QED BY <2>3, <2>4
<1>9. DiskLagsByOneStep'
  <2>1. \A x : HeldByCrashed(x) => HeldByCrashed(x)'
    BY <1>1, <1>2, HeldKept
  <2> QED BY <1>1, <2>1 DEF DiskLagsByOneStep
<1> QED BY <1>4, <1>5, <1>6, <1>7, <1>8, <1>9

\* task.cancel() on the last worker of every kind that is not done.
LEMMA ShutdownCancels ==
    ASSUME IInv, BeginShutdown
    PROVE  \A k \in Kind :
             /\ DOMAIN worker'[k] = DOMAIN worker[k]
             /\ \A i \in DOMAIN worker[k] :
                  \/ worker[k][i].state \in DoneState /\ worker'[k][i] = worker[k][i]
                  \/ /\ worker[k][i].state \notin DoneState
                     /\ worker'[k][i].state = "cancelling"
                     /\ worker'[k][i].job = worker[k][i].job
<1> SUFFICES ASSUME NEW k \in Kind
             PROVE  /\ DOMAIN worker'[k] = DOMAIN worker[k]
                    /\ \A i \in DOMAIN worker[k] :
                         \/ worker[k][i].state \in DoneState /\ worker'[k][i] = worker[k][i]
                         \/ /\ worker[k][i].state \notin DoneState
                            /\ worker'[k][i].state = "cancelling"
                            /\ worker'[k][i].job = worker[k][i].job
  OBVIOUS
<1>1. /\ worker[k] \in Seq(Worker) /\ Len(worker[k]) \in Nat
      /\ DOMAIN worker[k] = 1 .. Len(worker[k])
      /\ TypeOK /\ OldWorkersDone
  BY LenProperties DEF IInv, TypeOK
<1>2. CASE NeedsWorker(k)
  <2>1. worker'[k] = worker[k]
    BY <1>2 DEF BeginShutdown
  <2>2. ASSUME NEW i \in DOMAIN worker[k], worker[k][i].state \notin DoneState
        PROVE  FALSE
    <3>1. i = Len(worker[k]) /\ worker[k] # <<>>
      BY <1>1, <2>2, LiveIsLast
    <3> QED BY <3>1, <1>2, <2>2 DEF NeedsWorker
  <2> QED BY <2>1, <2>2
<1>3. CASE ~NeedsWorker(k)
  <2> DEFINE n == Len(worker[k])
             w == [worker[k][n] EXCEPT !.state = "cancelling"]
  <2>1. worker[k] # <<>> /\ worker[k][n].state \notin DoneState
    BY <1>3 DEF NeedsWorker
  <2>2. n \in 1 .. Len(worker[k])
    BY <1>1, <2>1, EmptySeq
  <2>3. worker[k][n] \in Worker
    BY <1>1, <2>2, ElementOfSeq
  <2>4. w \in Worker /\ w.state = "cancelling" /\ w.job = worker[k][n].job
    BY <2>3 DEF Worker, LiveState
  <2>5. worker'[k] = [worker[k] EXCEPT ![n] = w]
    BY <1>3 DEF BeginShutdown
  <2> HIDE DEF w
  <2>6. DOMAIN worker'[k] = DOMAIN worker[k]
        /\ \A i \in 1 .. Len(worker[k]) : worker'[k][i] = IF i = n THEN w ELSE worker[k][i]
    BY <1>1, <2>2, <2>5
  <2>7. \A i \in 1 .. Len(worker[k]) : i # n => i < Len(worker[k])
    BY <1>1
  <2>8. \A i \in DOMAIN worker[k] : i # n => worker[k][i].state \in DoneState
    BY <1>1, <2>7 DEF OldWorkersDone
  <2> QED BY <1>1, <2>1, <2>4, <2>6, <2>8
<1> QED BY <1>2, <1>3

LEMMA BeginShutdownKeepsHistory ==
    ASSUME HInv, IInv', BeginShutdown
    PROVE  HInv'
<1> USE DEF HInv
<1>1. process = "up" /\ process' = "stopping" /\ awaited' = 0
      /\ UNCHANGED <<record, file, queue, faults, deaths>>
      /\ UNCHANGED <<starts, submitted, epoch, cancelAcked, skipped>>
  BY DEF BeginShutdown, history
<1>2. \A k \in Kind :
         /\ DOMAIN worker'[k] = DOMAIN worker[k]
         /\ \A i \in DOMAIN worker[k] :
              \/ worker[k][i].state \in DoneState /\ worker'[k][i] = worker[k][i]
              \/ /\ worker[k][i].state \notin DoneState
                 /\ worker'[k][i].state = "cancelling"
                 /\ worker'[k][i].job = worker[k][i].job
  BY ShutdownCancels
<1>3. SubmittedOnce' /\ QueueIsOrdered' /\ AcceptedFileWasSubmitted'
  BY <1>1 DEF SubmittedOnce, QueueIsOrdered, Recent, AcceptedFileWasSubmitted, WasSubmitted
<1>4. AcceptedIsQueued' /\ FifoPerKind'
  BY <1>1 DEF AcceptedIsQueued, Recent, InQueue, FifoPerKind
<1>5. ExecutingRuns'
  <2>1. ASSUME NEW k \in Kind, NEW i \in DOMAIN worker'[k], NEW x \in Job, Executing(x, k, i)'
        PROVE  i \in DOMAIN worker[k] /\ Executing(x, k, i)
    <3>1. i \in DOMAIN worker[k] /\ worker[k][i].state \notin DoneState /\ worker[k][i].job = x
      BY <2>1, <1>2 DEF Executing, DoneState
    <3>2. worker[k][i] \in Worker
      BY <3>1, LenProperties, ElementOfSeq DEF IInv, TypeOK
    <3>3. worker[k][i].state # "idle"
      BY <3>1, RegistryAssumption DEF RegistryAssumption, IdleHoldsNothing
    <3> QED BY <3>1, <3>2, <3>3 DEF Executing, Worker, LiveState, DoneState
  <2> QED BY <1>1, <2>1 DEF ExecutingRuns, WasSubmitted
<1>6. IdleHoldsNothing' /\ RunningIsHeld'
  BY <1>1, <1>2 DEF IdleHoldsNothing, RunningIsHeld, DoneState
<1>7. StoppingIsQuiet'
  <2>1. \A k \in Kind : \A i \in DOMAIN worker'[k] : worker'[k][i].state \notin {"idle", "busy"}
    BY <1>2 DEF DoneState
  <2>2. 0 <= Len(KindOrder)
    BY RegistryAssumption, LenProperties DEF RegistryAssumption
  <2> QED BY <1>1, <2>1, <2>2 DEF StoppingIsQuiet
<1>8. DiskLagsByOneStep'
  <2>1. ASSUME NEW x, HeldByCrashed(x) PROVE HeldByCrashed(x)'
    <3>1. PICK k \in Kind : \E i \in DOMAIN worker[k] :
                worker[k][i] = [state |-> "crashed", job |-> x]
      BY <2>1 DEF HeldByCrashed
    <3>2. PICK i \in DOMAIN worker[k] : worker[k][i] = [state |-> "crashed", job |-> x]
      BY <3>1
    <3>3. worker[k][i].state \in DoneState
      BY <3>2 DEF DoneState
    <3> QED BY <3>2, <3>3, <1>2 DEF HeldByCrashed
  <2> QED BY <1>1, <2>1 DEF DiskLagsByOneStep
<1> QED BY <1>3, <1>4, <1>5, <1>6, <1>7, <1>8

\* A kind is left behind by the second loop only when its last worker is done.
LEMMA ShutdownStepKeepsHistory ==
    ASSUME HInv, IInv', AwaitWorker \/ EndShutdown
    PROVE  HInv'
<1> USE DEF HInv
<1>1. /\ process = "stopping"
      /\ process' \in {"stopping", "stopped", "stop_failed"}
      /\ UNCHANGED <<record, file, queue, worker, faults, deaths>>
      /\ UNCHANGED <<starts, submitted, epoch, cancelAcked, skipped>>
  BY DEF AwaitWorker, EndShutdown, history
<1>2. SubmittedOnce' /\ QueueIsOrdered' /\ AcceptedFileWasSubmitted' /\ IdleHoldsNothing'
  BY <1>1 DEF SubmittedOnce, QueueIsOrdered, Recent, AcceptedFileWasSubmitted, WasSubmitted,
              IdleHoldsNothing
<1>3. AcceptedIsQueued' /\ FifoPerKind' /\ RunningIsHeld'
  BY <1>1 DEF AcceptedIsQueued, Recent, InQueue, FifoPerKind, RunningIsHeld
<1>4. ExecutingRuns'
  BY <1>1 DEF ExecutingRuns, Executing, WasSubmitted
<1>5. DiskLagsByOneStep'
  BY <1>1 DEF DiskLagsByOneStep, HeldByCrashed
<1>6. /\ awaited \in Nat /\ Len(KindOrder) \in Nat /\ awaited <= Len(KindOrder)
      /\ DOMAIN KindOrder = 1 .. Len(KindOrder)
      /\ \A m \in DOMAIN KindOrder : KindOrder[m] \in Kind
  BY <1>1, RegistryAssumption, LenProperties, ElementOfSeq
  DEF RegistryAssumption, StoppingIsQuiet, IInv, TypeOK
<1>7. /\ \A k \in Kind : \A i \in DOMAIN worker[k] : worker[k][i].state \notin {"idle", "busy"}
      /\ \A m \in 1 .. awaited : \A i \in DOMAIN worker[KindOrder[m]] :
             worker[KindOrder[m]][i].state \in DoneState
  BY <1>1 DEF StoppingIsQuiet
<1>8. ASSUME /\ awaited' <= Len(KindOrder)
             /\ process' = "stopped" => awaited' = Len(KindOrder)
             /\ \A m \in 1 .. awaited' : \A i \in DOMAIN worker[KindOrder[m]] :
                    worker[KindOrder[m]][i].state \in DoneState
      PROVE  StoppingIsQuiet'
  <2>1. \A k \in Kind : \A i \in DOMAIN worker'[k] : worker'[k][i].state \notin {"idle", "busy"}
    BY <1>1, <1>7
  <2>2. \A m \in 1 .. awaited' : \A i \in DOMAIN worker'[KindOrder[m]] :
           worker'[KindOrder[m]][i].state \in DoneState
    BY <1>1, <1>8
  <2> QED BY <1>8, <2>1, <2>2 DEF StoppingIsQuiet
<1>9. ASSUME EndShutdown PROVE StoppingIsQuiet'
  <2>1. awaited' = awaited /\ awaited = Len(KindOrder)
    BY <1>9 DEF EndShutdown
  <2>2. \A m \in 1 .. awaited' : \A i \in DOMAIN worker[KindOrder[m]] :
           worker[KindOrder[m]][i].state \in DoneState
    BY <1>7, <2>1
  <2>3. awaited' <= Len(KindOrder)
    BY <1>6, <2>1
  <2>4. process' = "stopped" => awaited' = Len(KindOrder)
    BY <2>1
  <2> QED BY <1>8, <2>2, <2>3, <2>4
<1>10. ASSUME AwaitWorker PROVE StoppingIsQuiet'
  <2> DEFINE k == KindOrder[awaited + 1]
  <2>1. awaited < Len(KindOrder) /\ NeedsWorker(k)
        /\ (UNCHANGED awaited \/ awaited' = awaited + 1)
        /\ process' # "stopped"
    BY <1>1, <1>10 DEF AwaitWorker
  <2>2. awaited + 1 \in DOMAIN KindOrder /\ k \in Kind
    BY <1>6, <2>1
  <2>3. \A i \in DOMAIN worker[k] : worker[k][i].state \in DoneState
    <3> SUFFICES ASSUME NEW i \in DOMAIN worker[k], worker[k][i].state \notin DoneState
                 PROVE  FALSE
      OBVIOUS
    <3>1. i = Len(worker[k]) /\ worker[k] # <<>>
      BY <2>2, LiveIsLast DEF IInv
    <3> QED BY <3>1, <2>1 DEF NeedsWorker
  <2>4. \A m \in 1 .. awaited' : m \in 1 .. awaited \/ m = awaited + 1
    BY <1>6, <2>1
  <2>5. \A m \in 1 .. awaited' : \A i \in DOMAIN worker[KindOrder[m]] :
           worker[KindOrder[m]][i].state \in DoneState
    BY <1>7, <2>3, <2>4
  <2>6. awaited' <= Len(KindOrder)
    BY <1>6, <2>1
  <2>7. process' = "stopped" => awaited' = Len(KindOrder)
    BY <2>1
  <2> QED BY <1>8, <2>5, <2>6, <2>7
<1>11. StoppingIsQuiet'
  BY <1>9, <1>10
<1> QED BY <1>2, <1>3, <1>4, <1>5, <1>11

LEMMA DieKeepsHistory ==
    ASSUME HInv, IInv', Die
    PROVE  HInv'
<1> USE DEF HInv
<1>1. /\ process' = "down"
      /\ queue' = [k \in Kind |-> <<>>]
      /\ worker' = [k \in Kind |-> <<>>]
      /\ UNCHANGED <<file, submitted, epoch>>
  BY DEF Die
<1>2. SubmittedOnce' /\ AcceptedFileWasSubmitted'
  BY <1>1 DEF SubmittedOnce, AcceptedFileWasSubmitted, WasSubmitted
<1>3. QueueIsOrdered' /\ ExecutingRuns' /\ IdleHoldsNothing'
  BY <1>1 DEF QueueIsOrdered, ExecutingRuns, IdleHoldsNothing
<1>4. AcceptedIsQueued' /\ RunningIsHeld' /\ StoppingIsQuiet' /\ DiskLagsByOneStep'
      /\ FifoPerKind'
  BY <1>1 DEF AcceptedIsQueued, RunningIsHeld, StoppingIsQuiet, DiskLagsByOneStep, FifoPerKind
<1> QED BY <1>2, <1>3, <1>4

LEMMA LoadKeepsHistory ==
    ASSUME HInv, IInv', LoadAll \/ LoadAllRaises
    PROVE  HInv'
<1> USE DEF HInv
<1>1. PICK S \in SUBSET Orphans :
        /\ file' = Failed(S)
        /\ process' = "up" =>
             /\ record' = Without(file', skipped') /\ S = Orphans \ skipped'
             /\ epoch' = Len(submitted)
        /\ process' = "up" \/ (process' = "down" /\ UNCHANGED epoch)
  <2>1. CASE LoadAll
    BY <2>1 DEF LoadAll
  <2>2. CASE LoadAllRaises
    BY <2>2 DEF LoadAllRaises, history
  <2> QED BY <2>1, <2>2
<1>2. process = "down" /\ UNCHANGED <<queue, worker, starts, submitted>>
  BY DEF LoadAll, LoadAllRaises, history
<1>3. TypeOK /\ \A k \in Kind : queue[k] = <<>> /\ worker[k] = <<>>
  BY <1>2 DEF IInv, DownIsEmpty
<1>4. /\ \A j \in Job : file'[j] = file[j] \/ (file[j] = "running" /\ file'[j] = "failed")
      /\ process' = "up" => \A j \in Job :
           \/ j \in skipped' /\ record'[j] = Absent
           \/ record'[j] = file'[j] /\ file'[j] # "running"
  BY <1>1, <1>3 DEF Failed, Without, Orphans, TypeOK
<1>5. /\ Len(submitted) \in Nat /\ epoch <= Len(submitted)
      /\ \A n \in DOMAIN submitted : submitted[n] \in Job
  BY <1>3, LogEntries DEF SubmittedOnce
<1>6. epoch' <= Len(submitted)
  BY <1>1, <1>5
<1>7. SubmittedOnce'
  <2>1. \A n \in DOMAIN submitted : file'[submitted[n]] # Absent
    BY <1>4, <1>5 DEF SubmittedOnce, Absent
  <2> QED BY <1>2, <1>6, <2>1 DEF SubmittedOnce
<1>8. AcceptedFileWasSubmitted'
  BY <1>2, <1>4 DEF AcceptedFileWasSubmitted, WasSubmitted
<1>9. QueueIsOrdered' /\ ExecutingRuns' /\ IdleHoldsNothing'
  BY <1>2, <1>3 DEF QueueIsOrdered, ExecutingRuns, IdleHoldsNothing
<1>10. process' = "up" => Recent' = {}
  BY <1>1, <1>2, <1>5 DEF Recent
<1>11. AcceptedIsQueued' /\ FifoPerKind'
  BY <1>1, <1>10 DEF AcceptedIsQueued, FifoPerKind, Recent
<1>12. RunningIsHeld' /\ StoppingIsQuiet' /\ DiskLagsByOneStep'
  BY <1>1, <1>4 DEF RunningIsHeld, StoppingIsQuiet, DiskLagsByOneStep, Absent
<1> QED BY <1>7, <1>8, <1>9, <1>11, <1>12

-----------------------------------------------------------------------------
LEMMA NextKeepsHistory == HInv /\ [Next]_vars => HInv'
<1> SUFFICES ASSUME HInv, [Next]_vars PROVE HInv'
  OBVIOUS
<1>1. IInv'
  BY NextPreserves DEF HInv
<1>2. CASE \E j \in Job : Submit(j) \/ Cancel(j)
  BY <1>1, <1>2, SubmitKeepsHistory, CancelKeepsHistory
<1>3. CASE \E k \in Kind : WorkerStep(k)
  BY <1>1, <1>3, SkipKeepsHistory, StartKeepsHistory, FinishKeepsHistory, UnwindKeepsHistory
  DEF WorkerStep
<1>4. CASE BeginShutdown
  BY <1>1, <1>4, BeginShutdownKeepsHistory
<1>5. CASE AwaitWorker \/ EndShutdown
  BY <1>1, <1>5, ShutdownStepKeepsHistory
<1>6. CASE Die
  BY <1>1, <1>6, DieKeepsHistory
<1>7. CASE LoadAll \/ LoadAllRaises
  BY <1>1, <1>7, LoadKeepsHistory
<1>8. CASE UNCHANGED vars
  <2> USE <1>8 DEF vars, HInv
  <2>1. SubmittedOnce' /\ AcceptedFileWasSubmitted' /\ IdleHoldsNothing' /\ RunningIsHeld'
    BY DEF SubmittedOnce, AcceptedFileWasSubmitted, IdleHoldsNothing, RunningIsHeld, WasSubmitted
  <2>2. QueueIsOrdered' /\ AcceptedIsQueued' /\ FifoPerKind'
    BY DEF QueueIsOrdered, AcceptedIsQueued, FifoPerKind, Recent, InQueue
  <2>3. ExecutingRuns'
    BY DEF ExecutingRuns, Executing, WasSubmitted
  <2>4. StoppingIsQuiet'
    BY DEF StoppingIsQuiet
  <2>5. DiskLagsByOneStep'
    BY DEF DiskLagsByOneStep, HeldByCrashed
  <2> QED BY <1>1, <2>1, <2>2, <2>3, <2>4, <2>5
<1> QED BY <1>2, <1>3, <1>4, <1>5, <1>6, <1>7, <1>8 DEF Next

\* The invariant of the history holds in every reachable state of the registry.
THEOREM HistoryIsKept == Spec => []HInv
BY InitHistory, NextKeepsHistory, PTL DEF Spec

\* "Same-kind jobs are strictly FIFO", whatever was cancelled, whichever writes
\* failed and however often a worker was replaced in between.
THEOREM FifoPerKindHolds == Spec => []FifoPerKind
<1>1. HInv => FifoPerKind
  BY DEF HInv
<1> QED BY <1>1, HistoryIsKept, PTL

\* What is on disk differs from memory by at most the one transition whose
\* _persist raised: a restart takes back one step of a job and never two.
THEOREM DiskLagsByOneStepHolds == Spec => []DiskLagsByOneStep
<1>1. HInv => DiskLagsByOneStep
  BY DEF HInv
<1> QED BY <1>1, HistoryIsKept, PTL

\* A RUNNING job is in the hands of a worker, an ACCEPTED one is in its queue,
\* except where a raising _persist or a restart left it behind.
THEOREM NoJobForgottenHolds == Spec => []NoJobForgotten
<1>1. HInv => NoJobForgotten
  <2> SUFFICES ASSUME HInv, process # "down", NEW j \in Job
               PROVE  /\ record[j] = "running" =>
                            \/ HeldByCrashed(j)
                            \/ \E k \in Kind : \E i \in DOMAIN worker[k] : Executing(j, k, i)
                            \/ process # "up"
                      /\ record[j] = "accepted" =>
                            \/ InQueue(j)
                            \/ file[j] = Absent
                            \/ \E n \in 1 .. epoch : submitted[n] = j
    BY DEF NoJobForgotten
  <2>1. ASSUME record[j] = "running", process = "up"
        PROVE  \/ HeldByCrashed(j)
               \/ \E k \in Kind : \E i \in DOMAIN worker[k] : Executing(j, k, i)
    <3>1. PICK k \in Kind : \E i \in DOMAIN worker[k] :
              worker[k][i].job = j /\ worker[k][i].state \in {"busy", "crashed"}
      BY <2>1 DEF HInv, RunningIsHeld
    <3>2. PICK i \in DOMAIN worker[k] :
              worker[k][i].job = j /\ worker[k][i].state \in {"busy", "crashed"}
      BY <3>1
    <3>3. worker[k][i] \in Worker
      BY <3>2, LenProperties, ElementOfSeq DEF HInv, IInv, TypeOK
    <3>4. CASE worker[k][i].state = "busy"
      BY <3>2, <3>4 DEF Executing
    <3>5. CASE worker[k][i].state = "crashed"
      <4>1. worker[k][i] = [state |-> "crashed", job |-> j]
        BY <3>2, <3>3, <3>5 DEF Worker
      <4> QED BY <4>1 DEF HeldByCrashed
    <3> QED BY <3>2, <3>4, <3>5
  <2>2. ASSUME record[j] = "accepted", file[j] # Absent
        PROVE  InQueue(j) \/ \E n \in 1 .. epoch : submitted[n] = j
    <3>1. file[j] = "accepted"
      BY <2>2 DEF HInv, DiskLagsByOneStep, Absent
    <3>2. PICK n \in DOMAIN submitted : submitted[n] = j
      BY <3>1 DEF HInv, AcceptedFileWasSubmitted, WasSubmitted
    <3>3. epoch \in Nat /\ Len(submitted) \in Nat /\ DOMAIN submitted = 1 .. Len(submitted)
      BY LogEntries DEF HInv, IInv
    <3>4. n \in 1 .. epoch \/ n \in Recent
      BY <3>2, <3>3 DEF Recent
    <3> QED BY <2>2, <3>2, <3>4 DEF HInv, AcceptedIsQueued
  <2> QED BY <2>1, <2>2
<1> QED BY <1>1, HistoryIsKept, PTL

\* A shutdown() that returned has left no task that could still run a job.
THEOREM ShutdownLeavesNoWorkerHolds == Spec => []ShutdownLeavesNoWorker
<1>1. HInv => ShutdownLeavesNoWorker
  <2> SUFFICES ASSUME HInv, process = "stopped", NEW k \in Kind, NEW i \in Live(k)
               PROVE  FALSE
    BY DEF ShutdownLeavesNoWorker
  <2>1. DOMAIN KindOrder = 1 .. Len(KindOrder)
    BY RegistryAssumption, LenProperties DEF RegistryAssumption
  <2>2. PICK m \in 1 .. Len(KindOrder) : KindOrder[m] = k
    BY <2>1 DEF Kind
  <2>3. i \in DOMAIN worker[k] /\ worker[k][i].state \notin DoneState
    BY DEF Live, LiveState, DoneState
  <2>4. /\ awaited = Len(KindOrder)
        /\ \A n \in 1 .. awaited : \A x \in DOMAIN worker[KindOrder[n]] :
               worker[KindOrder[n]][x].state \in DoneState
    BY DEF HInv, StoppingIsQuiet
  <2> QED BY <2>2, <2>3, <2>4
<1> QED BY <1>1, HistoryIsKept, PTL

\* No step rewrites the file of a job that is settled on disk: not a late
\* cancel(), not the worker, not load_all.
THEOREM SettledIsFinalHolds == Spec => SettledIsFinal
<1>1. HInv /\ [Next]_vars => \A j \in Job : file[j] \in Terminal => file'[j] = file[j]
  <2> SUFFICES ASSUME HInv, [Next]_vars, NEW j \in Job, file[j] \in Terminal
               PROVE  file'[j] = file[j]
    OBVIOUS
  <2>1. /\ TypeOK /\ file \in [Job -> JobStatus \cup {Absent}]
        /\ file[j] \notin {Absent, "accepted", "running"}
    BY DEF HInv, IInv, TypeOK, Terminal, Absent
  <2>2. ASSUME NEW x \in Job, Submit(x) PROVE file'[j] = file[j]
    BY <2>1, <2>2 DEF Submit, Persist, PersistRaises
  <2>3. ASSUME NEW x \in Job, Cancel(x) PROVE file'[j] = file[j]
    <3>1. record[x] = "accepted" /\ process # "down"
      BY <2>3 DEF Cancel, Cancellable
    <3>2. file[x] \in {"absent", "accepted"}
      BY <3>1 DEF HInv, DiskLagsByOneStep, Absent
    <3> QED BY <2>1, <2>3, <3>2 DEF Cancel, Persist, PersistRaises, Absent
  <2>4. ASSUME NEW k \in Kind, NEW i \in DOMAIN worker[k], Start(k, i)
        PROVE  file'[j] = file[j]
    <3> DEFINE h == Head(queue[k])
    <3>1. /\ queue[k] # <<>> /\ record[h] # "cancelled" /\ worker[k][i].state = "idle"
          /\ queue' = [queue EXCEPT ![k] = Tail(@)]
      BY <2>4 DEF Start, Dropped
    <3>2. h = queue[k][1] /\ 1 \in DOMAIN queue[k] /\ process = "up"
      BY <2>1, <3>1, QueueTaken, WorkingMeansUp
    <3>3. h \in Job /\ record[h] = "accepted"
      BY <2>1, <3>1, <3>2, QueueEntries DEF HInv, IInv, QueueHoldsUnstarted
    <3>4. file[h] \in {"absent", "accepted"}
      BY <3>2, <3>3 DEF HInv, DiskLagsByOneStep, Absent
    <3>5. file' = [file EXCEPT ![h] = "running"] \/ UNCHANGED file
      BY <2>4 DEF Start, Persist, PersistRaises
    <3> HIDE DEF h
    <3> QED BY <2>1, <3>3, <3>4, <3>5 DEF Absent
  <2>5. ASSUME NEW k \in Kind, NEW i \in DOMAIN worker[k],
               NEW outcome \in {"succeeded", "failed"}, Finish(k, i, outcome)
        PROVE  file'[j] = file[j]
    <3> DEFINE h == worker[k][i].job
    <3>1. worker[k][i].state = "busy"
          /\ (file' = [file EXCEPT ![h] = outcome] \/ UNCHANGED file)
      BY <2>5 DEF Finish, Persist, PersistRaises
    <3>2. h \in Job /\ Executing(h, k, i)
      BY <3>1 DEF HInv, IInv, BusyWasStarted, Executing
    <3>3. file[h] = "running"
      BY <3>2 DEF HInv, ExecutingRuns
    <3> HIDE DEF h
    <3> QED BY <2>1, <3>1, <3>2, <3>3
  <2>6. ASSUME NEW k \in Kind, WorkerStep(k) PROVE file'[j] = file[j]
    BY <2>4, <2>5, <2>6 DEF WorkerStep, Skip, Unwind
  <2>7. ASSUME BeginShutdown \/ AwaitWorker \/ EndShutdown \/ Die \/ UNCHANGED vars
        PROVE  file'[j] = file[j]
    BY <2>7 DEF BeginShutdown, AwaitWorker, EndShutdown, Die, vars
  <2>8. ASSUME LoadAll \/ LoadAllRaises PROVE file'[j] = file[j]
    <3>1. PICK S \in SUBSET Orphans : file' = Failed(S)
      BY <2>8 DEF LoadAll, LoadAllRaises
    <3>2. j \notin S
      BY <2>1 DEF Orphans
    <3> QED BY <3>1, <3>2 DEF Failed
  <2> QED BY <2>2, <2>3, <2>6, <2>7, <2>8 DEF Next
<1>2. HInv /\ [Next]_vars => [\A j \in Job : file[j] \in Terminal => file'[j] = file[j]]_vars
  BY <1>1
<1>3. Spec => [][\A j \in Job : file[j] \in Terminal => file'[j] = file[j]]_vars
  BY <1>2, HistoryIsKept, PTL DEF Spec
<1> QED BY <1>3 DEF SettledIsFinal

-----------------------------------------------------------------------------
(* The registry implements JobService. *)

IsExecuting(j) == \E k \in Kind : \E i \in DOMAIN worker[k] : Executing(j, k, i)
IsQueued(j) == record[j] = "accepted" /\ InQueue(j)

\* The phase of one job.
LEMMA PhaseOf ==
    ASSUME NEW j \in Job
    PROVE  phase[j] = IF IsExecuting(j) THEN "executing"
                      ELSE IF IsQueued(j) THEN "queued"
                      ELSE IF WasSubmitted(j) THEN "over" ELSE "new"
BY DEF phase, IsExecuting, IsQueued, WasSubmitted

LEMMA PhaseOfNext ==
    ASSUME NEW j \in Job
    PROVE  phase'[j] = IF IsExecuting(j)' THEN "executing"
                       ELSE IF IsQueued(j)' THEN "queued"
                       ELSE IF WasSubmitted(j)' THEN "over" ELSE "new"
BY DEF phase, IsExecuting, IsQueued, WasSubmitted, Executing, InQueue

\* A job in its queue, like one that executes, was submitted; neither is the other.
LEMMA PhasesExclude ==
    ASSUME HInv, NEW j \in Job
    PROVE  /\ InQueue(j) => WasSubmitted(j)
           /\ IsExecuting(j) => WasSubmitted(j) /\ record[j] = "running" /\ ~IsQueued(j)
           /\ phase[j] = "new" <=> ~WasSubmitted(j)
<1>1. InQueue(j) => WasSubmitted(j)
  <2> SUFFICES ASSUME InQueue(j) PROVE WasSubmitted(j)
    OBVIOUS
  <2>1. PICK k \in Kind : \E a \in DOMAIN queue[k] : queue[k][a] = j
    BY DEF InQueue
  <2>2. PICK a \in DOMAIN queue[k] : queue[k][a] = j
    BY <2>1
  <2>3. PICK m \in Recent : submitted[m] = j
    BY <2>2 DEF HInv, QueueIsOrdered
  <2>4. m \in DOMAIN submitted
    BY LogEntries DEF HInv, IInv
  <2> QED BY <2>3, <2>4 DEF WasSubmitted
<1>2. IsExecuting(j) => WasSubmitted(j) /\ record[j] = "running" /\ ~IsQueued(j)
  BY DEF IsExecuting, IsQueued, HInv, ExecutingRuns
<1> QED BY <1>1, <1>2, PhaseOf DEF IsQueued

\* One job moves and the others stay: an action of the service.
LEMMA MovesOne ==
    ASSUME NEW j \in Job, NEW from, NEW to, phase[j] = from, phase'[j] = to,
           \A x \in Job : x # j => phase'[x] = phase[x]
    PROVE  Service!Move(j, from, to)
<1>1. phase = [x \in Job |-> phase[x]] /\ phase' = [x \in Job |-> phase'[x]]
  BY DEF phase
<1> QED BY <1>1 DEF Service!Move

LEMMA MovesNone ==
    ASSUME \A x \in Job : phase'[x] = phase[x]
    PROVE  UNCHANGED phase
<1>1. phase = [x \in Job |-> phase[x]] /\ phase' = [x \in Job |-> phase'[x]]
  BY DEF phase
<1> QED BY <1>1

\* A job of which nothing changed keeps its phase.
LEMMA SamePhase ==
    ASSUME NEW j \in Job, IsExecuting(j)' <=> IsExecuting(j), IsQueued(j)' <=> IsQueued(j),
           WasSubmitted(j)' <=> WasSubmitted(j)
    PROVE  phase'[j] = phase[j]
BY PhaseOf, PhaseOfNext

\* Setting a worker's entry changes who executes by that entry only.
LEMMA ExecutingAfterSet ==
    ASSUME TypeOK, NEW k \in Kind, NEW i \in DOMAIN worker[k], NEW w \in Worker,
           worker' = [worker EXCEPT ![k][i] = w],
           NEW x, ~Executing(x, k, i)
    PROVE  IsExecuting(x)' <=> \/ IsExecuting(x)
                               \/ w.job = x /\ w.state \in {"busy", "cancelling"}
<1>1. \A k2 \in Kind :
         /\ DOMAIN worker'[k2] = DOMAIN worker[k2]
         /\ \A i2 \in DOMAIN worker[k2] :
              worker'[k2][i2] = IF k2 = k /\ i2 = i THEN w ELSE worker[k2][i2]
  BY WorkerEntrySet
<1>2. ASSUME IsExecuting(x)'
      PROVE  IsExecuting(x) \/ (w.job = x /\ w.state \in {"busy", "cancelling"})
  <2>1. PICK k2 \in Kind : \E i2 \in DOMAIN worker'[k2] : Executing(x, k2, i2)'
    BY <1>2 DEF IsExecuting
  <2>2. PICK i2 \in DOMAIN worker'[k2] : Executing(x, k2, i2)'
    BY <2>1
  <2>3. CASE k2 = k /\ i2 = i
    BY <2>2, <2>3, <1>1 DEF Executing
  <2>4. CASE ~(k2 = k /\ i2 = i)
    BY <2>2, <2>4, <1>1 DEF Executing, IsExecuting
  <2> QED BY <2>3, <2>4
<1>3. ASSUME IsExecuting(x) PROVE IsExecuting(x)'
  <2>1. PICK k2 \in Kind : \E i2 \in DOMAIN worker[k2] : Executing(x, k2, i2)
    BY <1>3 DEF IsExecuting
  <2>2. PICK i2 \in DOMAIN worker[k2] : Executing(x, k2, i2)
    BY <2>1
  <2>3. i2 \in DOMAIN worker'[k2] /\ Executing(x, k2, i2)'
    BY <2>2, <1>1 DEF Executing
  <2> QED BY <2>3 DEF IsExecuting
<1>4. ASSUME w.job = x, w.state \in {"busy", "cancelling"} PROVE IsExecuting(x)'
  <2>1. i \in DOMAIN worker'[k] /\ Executing(x, k, i)'
    BY <1>1, <1>4 DEF Executing
  <2> QED BY <2>1 DEF IsExecuting
<1> QED BY <1>2, <1>3, <1>4

LEMMA SubmitImplements ==
    ASSUME HInv, NEW j \in Job, Submit(j)
    PROVE  Service!Enqueue(j) \/ UNCHANGED phase
<1>1. /\ record' = [record EXCEPT ![j] = "accepted"] /\ TypeOK
      /\ record[j] = "absent" /\ file[j] = Absent
  BY DEF Submit, Absent, HInv, IInv
<1>2. \A x \in Job : record'[x] = IF x = j THEN "accepted" ELSE record[x]
  BY <1>1 DEF TypeOK
<1>3. ~WasSubmitted(j) /\ ~IsExecuting(j) /\ ~InQueue(j) /\ phase[j] = "new"
  <2>1. ~WasSubmitted(j)
    BY <1>1, UnknownWasNotSubmitted DEF HInv, WasSubmitted
  <2> QED BY <2>1, PhasesExclude
<1>4. CASE /\ Persist(j, "accepted") /\ Put(j) /\ EnsureWorker(KindOf[j])
           /\ submitted' = Append(submitted, j)
  <2>1. \A x : InQueue(x)' <=> InQueue(x) \/ x = j
    BY <1>1, <1>4, RegistryAssumption, PutInQueue
  <2>2. /\ DOMAIN submitted = 1 .. Len(submitted) /\ Len(submitted) \in Nat
        /\ DOMAIN submitted' = 1 .. Len(submitted) + 1
        /\ \A n \in 1 .. Len(submitted) : submitted'[n] = submitted[n]
        /\ submitted'[Len(submitted) + 1] = j
    BY <1>1, <1>4, LogAppended
  <2>3. ASSUME NEW x \in Job, x # j PROVE WasSubmitted(x)' <=> WasSubmitted(x)
    <3>1. ASSUME NEW n \in DOMAIN submitted, submitted[n] = x PROVE WasSubmitted(x)'
      BY <2>2, <3>1 DEF WasSubmitted
    <3>2. ASSUME NEW n \in DOMAIN submitted', submitted'[n] = x PROVE WasSubmitted(x)
      <4>1. n \in 1 .. Len(submitted)
        BY <2>2, <2>3, <3>2
      <4> QED BY <4>1, <2>2, <3>2 DEF WasSubmitted
    <3> QED BY <3>1, <3>2 DEF WasSubmitted
  <2>4. ASSUME NEW x \in Job PROVE IsExecuting(x)' <=> IsExecuting(x)
    <3>1. KindOf[j] \in Kind
      BY RegistryAssumption DEF RegistryAssumption
    <3>2. \A k \in Kind : \A i \in DOMAIN worker[k] :
              i \in DOMAIN worker'[k] /\ worker'[k][i] = worker[k][i]
      BY <1>1, <1>4, <3>1, EnsuredKeeps
    <3>3. \A k \in Kind : \A i \in DOMAIN worker'[k] :
              \/ i \in DOMAIN worker[k] /\ worker'[k][i] = worker[k][i]
              \/ worker'[k][i] = Idle
      BY <1>1, <1>4, <3>1, WorkerEnsured
    <3>4. ASSUME NEW k \in Kind, NEW i \in DOMAIN worker'[k], Executing(x, k, i)'
          PROVE  i \in DOMAIN worker[k] /\ Executing(x, k, i)
      BY <3>3, <3>4 DEF Executing, Idle
    <3>5. ASSUME NEW k \in Kind, NEW i \in DOMAIN worker[k], Executing(x, k, i)
          PROVE  i \in DOMAIN worker'[k] /\ Executing(x, k, i)'
      BY <3>2, <3>5 DEF Executing
    <3> QED BY <3>4, <3>5 DEF IsExecuting
  <2>5. phase'[j] = "queued"
    BY <1>2, <1>3, <2>1, <2>4, PhaseOfNext DEF IsQueued
  <2>6. ASSUME NEW x \in Job, x # j PROVE phase'[x] = phase[x]
    <3>1. IsQueued(x)' <=> IsQueued(x)
      BY <1>2, <2>1, <2>6 DEF IsQueued
    <3> QED BY <3>1, <2>3, <2>4, <2>6, SamePhase
  <2>7. Service!Move(j, "new", "queued")
    BY <1>3, <2>5, <2>6, MovesOne
  <2> QED BY <2>7 DEF Service!Enqueue
<1>5. CASE PersistRaises /\ UNCHANGED <<queue, worker, submitted>>
  <2>1. \A x \in Job : IsExecuting(x)' <=> IsExecuting(x)
    BY <1>5 DEF IsExecuting, Executing
  <2>2. \A x \in Job : (WasSubmitted(x)' <=> WasSubmitted(x)) /\ (InQueue(x)' <=> InQueue(x))
    BY <1>5 DEF WasSubmitted, InQueue
  <2>3. \A x \in Job : IsQueued(x)' <=> IsQueued(x)
    BY <1>2, <1>3, <2>2 DEF IsQueued
  <2> QED BY <2>1, <2>2, <2>3, SamePhase, MovesNone
<1> QED BY <1>4, <1>5 DEF Submit

LEMMA CancelImplements ==
    ASSUME HInv, NEW j \in Job, Cancel(j)
    PROVE  Service!Drop(j) \/ UNCHANGED phase
<1>1. /\ record[j] = "accepted" /\ record' = [record EXCEPT ![j] = "cancelled"]
      /\ TypeOK /\ UNCHANGED <<queue, worker, submitted>>
  BY DEF Cancel, Cancellable, HInv, IInv
<1>2. \A x \in Job : record'[x] = IF x = j THEN "cancelled" ELSE record[x]
  BY <1>1 DEF TypeOK
<1>3. \A x \in Job : IsExecuting(x)' <=> IsExecuting(x)
  BY <1>1 DEF IsExecuting, Executing
<1>4. \A x \in Job : (WasSubmitted(x)' <=> WasSubmitted(x)) /\ (InQueue(x)' <=> InQueue(x))
  BY <1>1 DEF WasSubmitted, InQueue
<1>5. ~IsExecuting(j) /\ ~IsExecuting(j)' /\ ~IsQueued(j)'
  BY <1>1, <1>2, <1>3, PhasesExclude DEF IsQueued
<1>6. \A x \in Job : x # j => phase'[x] = phase[x]
  <2>1. \A x \in Job : x # j => (IsQueued(x)' <=> IsQueued(x))
    BY <1>2, <1>4 DEF IsQueued
  <2> QED BY <2>1, <1>3, <1>4, SamePhase
<1>7. CASE InQueue(j)
  <2>1. phase[j] = "queued" /\ phase'[j] = "over"
    BY <1>1, <1>4, <1>5, <1>7, PhaseOf, PhaseOfNext, PhasesExclude DEF IsQueued
  <2>2. Service!Move(j, "queued", "over")
    BY <1>6, <2>1, MovesOne
  <2> QED BY <2>2 DEF Service!Drop
<1>8. CASE ~InQueue(j)
  <2>1. phase'[j] = phase[j]
    BY <1>4, <1>5, <1>8, PhaseOf, PhaseOfNext DEF IsQueued
  <2> QED BY <1>6, <2>1, MovesNone
<1> QED BY <1>7, <1>8

LEMMA SkipImplements ==
    ASSUME HInv, NEW k \in Kind, NEW i \in DOMAIN worker[k], Skip(k, i)
    PROVE  UNCHANGED phase
<1>1. /\ queue[k] # <<>> /\ record[Head(queue[k])] = "cancelled" /\ TypeOK
      /\ queue' = [queue EXCEPT ![k] = Tail(@)]
      /\ UNCHANGED <<record, worker, submitted>>
  BY DEF Skip, Dropped, history, HInv, IInv
<1>2. /\ \A x : InQueue(x)' => InQueue(x)
      /\ \A x : InQueue(x) /\ x # Head(queue[k]) => InQueue(x)'
  BY <1>1, TakenFromQueue
<1>3. \A x \in Job : (IsQueued(x)' <=> IsQueued(x)) /\ (WasSubmitted(x)' <=> WasSubmitted(x))
  BY <1>1, <1>2 DEF IsQueued, WasSubmitted
<1>4. \A x \in Job : IsExecuting(x)' <=> IsExecuting(x)
  BY <1>1 DEF IsExecuting, Executing
<1> QED BY <1>3, <1>4, SamePhase, MovesNone

LEMMA StartImplements ==
    ASSUME HInv, NEW k \in Kind, NEW i \in DOMAIN worker[k], Start(k, i)
    PROVE  \E j \in Job : Service!Begin(j) \/ Service!Drop(j)
<1> DEFINE j == Head(queue[k])
<1>1. /\ worker[k][i].state = "idle" /\ queue[k] # <<>> /\ record[j] # "cancelled"
      /\ queue' = [queue EXCEPT ![k] = Tail(@)]
      /\ record' = [record EXCEPT ![j] = "running"]
      /\ UNCHANGED submitted /\ TypeOK
  BY DEF Start, Dropped, HInv, IInv
<1>2. j = queue[k][1] /\ 1 \in DOMAIN queue[k]
  BY <1>1, QueueTaken
<1>3. j \in Job /\ record[j] = "accepted" /\ KindOf[j] = k /\ InQueue(j)
  <2>1. j \in Job /\ record[j] = "accepted" /\ KindOf[j] = k
    BY <1>1, <1>2, QueueEntries DEF QueueHoldsUnstarted, HInv, IInv
  <2> QED BY <1>2, <2>1 DEF InQueue
<1>4. /\ \A x : InQueue(x)' => InQueue(x)
      /\ \A x : InQueue(x) /\ x # j => InQueue(x)'
  BY <1>1, TakenFromQueue
<1>5. PICK w \in Worker :
        /\ worker' = [worker EXCEPT ![k][i] = w]
        /\ w.job = j /\ w.state \in {"busy", "crashed"}
  <2> DEFINE b == [state |-> "busy", job |-> j]
             c == [state |-> "crashed", job |-> j]
  <2>1. b \in Worker /\ b.job = j /\ b.state = "busy" /\ c \in Worker /\ c.job = j /\ c.state = "crashed"
    BY <1>3 DEF Worker, LiveState, DoneState
  <2>2. worker' = [worker EXCEPT ![k][i] = b] \/ worker' = [worker EXCEPT ![k][i] = c]
    BY DEF Start
  <2> HIDE DEF b, c
  <2> QED BY <2>1, <2>2
<1> HIDE DEF j
<1>6. \A x \in Job : record'[x] = IF x = j THEN "running" ELSE record[x]
  BY <1>1 DEF TypeOK
<1>7. \A x \in Job : WasSubmitted(x)' <=> WasSubmitted(x)
  BY <1>1 DEF WasSubmitted
<1>8. \A x : ~Executing(x, k, i)
  BY <1>1 DEF Executing
<1>9. \A x \in Job : IsExecuting(x)' <=> IsExecuting(x) \/ (w.job = x /\ w.state = "busy")
  BY <1>1, <1>5, <1>8, ExecutingAfterSet
<1>10. phase[j] = "queued" /\ ~IsExecuting(j) /\ WasSubmitted(j)
  BY <1>3, PhaseOf, PhasesExclude DEF IsQueued
<1>11. ASSUME NEW x \in Job, x # j PROVE phase'[x] = phase[x]
  <2>1. IsQueued(x)' <=> IsQueued(x)
    BY <1>4, <1>6, <1>11 DEF IsQueued
  <2>2. IsExecuting(x)' <=> IsExecuting(x)
    BY <1>5, <1>9, <1>11
  <2> QED BY <2>1, <2>2, <1>7, SamePhase
<1>12. CASE w.state = "busy"
  <2>1. phase'[j] = "executing"
    BY <1>3, <1>5, <1>9, <1>12, PhaseOfNext
  <2>2. Service!Move(j, "queued", "executing")
    BY <1>3, <1>10, <1>11, <2>1, MovesOne
  <2>3. ASSUME NEW x \in Job, KindOf[x] = KindOf[j], phase[x] = "executing" PROVE FALSE
    <3>1. IsExecuting(x)
      BY <2>3, PhaseOf
    <3>2. PICK k2 \in Kind : \E i2 \in DOMAIN worker[k2] : Executing(x, k2, i2)
      BY <3>1 DEF IsExecuting
    <3>3. PICK i2 \in DOMAIN worker[k2] : Executing(x, k2, i2)
      BY <3>2
    <3>4. k2 = k
      BY <3>3, <2>3, <1>3 DEF HInv, ExecutingRuns
    <3>5. i2 \in DOMAIN worker[k] /\ Executing(x, k, i2)
      BY <3>3, <3>4
    <3>6. worker[k][i2].state \notin DoneState /\ worker[k][i].state \notin DoneState
      BY <3>5, <1>1 DEF Executing, DoneState
    <3>7. i2 = i
      BY <3>5, <3>6, LiveIsLast DEF HInv, IInv
    <3> QED BY <3>5, <3>7, <1>8
  <2>4. Service!Begin(j)
    BY <2>2, <2>3 DEF Service!Begin
  <2> QED BY <2>4, <1>3
<1>13. CASE w.state = "crashed"
  <2>1. phase'[j] = "over"
    BY <1>3, <1>6, <1>7, <1>9, <1>10, <1>13, PhaseOfNext DEF IsQueued
  <2>2. Service!Move(j, "queued", "over")
    BY <1>3, <1>10, <1>11, <2>1, MovesOne
  <2>3. Service!Drop(j)
    BY <2>2 DEF Service!Drop
  <2> QED BY <2>3, <1>3
<1> QED BY <1>5, <1>12, <1>13

\* The end of a runner, by its return or by its cancellation.
LEMMA EndsOne ==
    ASSUME HInv, NEW j \in Job, NEW k \in Kind, NEW i \in DOMAIN worker[k],
           Executing(j, k, i), NEW w \in Worker,
           worker' = [worker EXCEPT ![k][i] = w], w.state \notin {"busy", "cancelling"},
           UNCHANGED <<queue, submitted>>,
           \A x \in Job : record'[x] = record[x] \/ (x = j /\ record'[x] # "accepted")
    PROVE  Service!End(j)
<1>1. IsExecuting(j) /\ TypeOK
  BY DEF IsExecuting, HInv, IInv
<1>2. ~IsExecuting(j)'
  <2> SUFFICES ASSUME NEW k2 \in Kind, NEW i2 \in DOMAIN worker'[k2], Executing(j, k2, i2)'
               PROVE  FALSE
    BY DEF IsExecuting
  <2>1. /\ DOMAIN worker'[k2] = DOMAIN worker[k2]
        /\ worker'[k2][i2] = IF k2 = k /\ i2 = i THEN w ELSE worker[k2][i2]
    BY <1>1, WorkerEntrySet
  <2>2. ~(k2 = k /\ i2 = i) /\ Executing(j, k2, i2) /\ i2 \in DOMAIN worker[k2]
    BY <2>1 DEF Executing
  <2> QED BY <2>2, ExecutingIsUnique DEF HInv
<1>3. record[j] = "running" /\ record'[j] # "accepted" /\ WasSubmitted(j)
  BY <1>1, PhasesExclude
<1>4. \A x \in Job : (WasSubmitted(x)' <=> WasSubmitted(x)) /\ (InQueue(x)' <=> InQueue(x))
  BY DEF WasSubmitted, InQueue
<1>5. phase[j] = "executing" /\ phase'[j] = "over"
  BY <1>1, <1>2, <1>3, <1>4, PhaseOf, PhaseOfNext DEF IsQueued
<1>6. ASSUME NEW x \in Job, x # j PROVE phase'[x] = phase[x]
  <2>1. ~Executing(x, k, i)
    BY <1>6 DEF Executing
  <2>2. IsExecuting(x)' <=> IsExecuting(x)
    BY <1>1, <2>1, ExecutingAfterSet
  <2>3. IsQueued(x)' <=> IsQueued(x)
    BY <1>4, <1>6 DEF IsQueued
  <2> QED BY <2>2, <2>3, <1>4, SamePhase
<1>7. Service!Move(j, "executing", "over")
  BY <1>5, <1>6, MovesOne
<1> QED BY <1>7 DEF Service!End

LEMMA FinishImplements ==
    ASSUME HInv, NEW k \in Kind, NEW i \in DOMAIN worker[k],
           NEW outcome \in {"succeeded", "failed"}, Finish(k, i, outcome)
    PROVE  \E j \in Job : Service!End(j)
<1> DEFINE j == worker[k][i].job
<1>1. /\ worker[k][i].state = "busy" /\ record' = [record EXCEPT ![j] = outcome]
      /\ UNCHANGED <<queue, submitted>> /\ TypeOK
  BY DEF Finish, history, HInv, IInv
<1>2. j \in Job /\ Executing(j, k, i)
  BY <1>1 DEF HInv, IInv, BusyWasStarted, Executing
<1>3. PICK w \in Worker :
         worker' = [worker EXCEPT ![k][i] = w] /\ w.state \notin {"busy", "cancelling"}
  <2> DEFINE c == [state |-> "crashed", job |-> j]
  <2>1. /\ c \in Worker /\ c.state = "crashed"
        /\ Idle \in Worker /\ Idle.state = "idle"
    BY <1>2 DEF Worker, LiveState, DoneState, Idle
  <2>2. worker' = [worker EXCEPT ![k][i] = Idle] \/ worker' = [worker EXCEPT ![k][i] = c]
    BY DEF Finish
  <2> HIDE DEF c
  <2> QED BY <2>1, <2>2
<1> HIDE DEF j
<1>4. \A x \in Job : record'[x] = record[x] \/ (x = j /\ record'[x] # "accepted")
  BY <1>1 DEF TypeOK
<1> QED BY <1>1, <1>2, <1>3, <1>4, EndsOne

LEMMA UnwindImplements ==
    ASSUME HInv, NEW k \in Kind, NEW i \in DOMAIN worker[k], Unwind(k, i)
    PROVE  (\E j \in Job : Service!End(j)) \/ UNCHANGED phase
<1> DEFINE w == [state |-> "cancelled", job |-> NoJob]
           j == worker[k][i].job
<1>1. /\ worker[k][i].state = "cancelling" /\ worker' = [worker EXCEPT ![k][i] = w]
      /\ UNCHANGED <<record, queue, submitted>> /\ TypeOK
  BY DEF Unwind, history, HInv, IInv
<1>2. w \in Worker /\ w.state = "cancelled"
  BY DEF Worker, DoneState
<1> HIDE DEF w
<1>3. CASE j \in Job
  <2>1. Executing(j, k, i)
    BY <1>1 DEF Executing
  <2>2. \A x \in Job : record'[x] = record[x] \/ (x = j /\ record'[x] # "accepted")
    BY <1>1
  <2> HIDE DEF j
  <2>3. Service!End(j)
    BY <1>1, <1>2, <1>3, <2>1, <2>2, EndsOne
  <2> QED BY <1>3, <2>3
<1>4. CASE j \notin Job
  <2>1. \A x \in Job : ~Executing(x, k, i)
    BY <1>4 DEF Executing
  <2>2. \A x \in Job : IsExecuting(x)' <=> IsExecuting(x)
    BY <1>1, <1>2, <2>1, ExecutingAfterSet
  <2>3. \A x \in Job : (IsQueued(x)' <=> IsQueued(x)) /\ (WasSubmitted(x)' <=> WasSubmitted(x))
    BY <1>1 DEF IsQueued, InQueue, WasSubmitted
  <2> QED BY <2>2, <2>3, SamePhase, MovesNone
<1> QED BY <1>3, <1>4

\* A shutdown cancels what executes; it is over only when the task has unwound.
LEMMA ShutdownImplements ==
    ASSUME HInv, BeginShutdown \/ AwaitWorker \/ EndShutdown
    PROVE  UNCHANGED phase
<1>1. UNCHANGED <<record, queue, submitted>>
  BY DEF BeginShutdown, AwaitWorker, EndShutdown, history
<1>2. \A x \in Job : (IsQueued(x)' <=> IsQueued(x)) /\ (WasSubmitted(x)' <=> WasSubmitted(x))
  BY <1>1 DEF IsQueued, InQueue, WasSubmitted
<1>3. ASSUME NEW x \in Job PROVE IsExecuting(x)' <=> IsExecuting(x)
  <2>1. CASE AwaitWorker \/ EndShutdown
    BY <2>1 DEF AwaitWorker, EndShutdown, IsExecuting, Executing
  <2>2. CASE BeginShutdown
    <3>1. \A k \in Kind :
             /\ DOMAIN worker'[k] = DOMAIN worker[k]
             /\ \A i \in DOMAIN worker[k] :
                  \/ worker[k][i].state \in DoneState /\ worker'[k][i] = worker[k][i]
                  \/ /\ worker[k][i].state \notin DoneState
                     /\ worker'[k][i].state = "cancelling"
                     /\ worker'[k][i].job = worker[k][i].job
      BY <2>2, ShutdownCancels DEF HInv
    <3>2. ASSUME NEW k \in Kind, NEW i \in DOMAIN worker'[k], Executing(x, k, i)'
          PROVE  i \in DOMAIN worker[k] /\ Executing(x, k, i)
      <4>1. i \in DOMAIN worker[k] /\ worker[k][i].state \notin DoneState /\ worker[k][i].job = x
        BY <3>1, <3>2 DEF Executing, DoneState
      <4>2. worker[k][i] \in Worker
        BY <4>1, LenProperties, ElementOfSeq DEF HInv, IInv, TypeOK
      <4>3. worker[k][i].state # "idle"
        BY <4>1, RegistryAssumption DEF RegistryAssumption, HInv, IdleHoldsNothing
      <4> QED BY <4>1, <4>2, <4>3 DEF Executing, Worker, LiveState, DoneState
    <3>3. ASSUME NEW k \in Kind, NEW i \in DOMAIN worker[k], Executing(x, k, i)
          PROVE  i \in DOMAIN worker'[k] /\ Executing(x, k, i)'
      BY <3>1, <3>3 DEF Executing, DoneState
    <3> QED BY <3>2, <3>3 DEF IsExecuting
  <2> QED BY <2>1, <2>2
<1> QED BY <1>2, <1>3, SamePhase, MovesNone

LEMMA DieImplements ==
    ASSUME HInv, Die
    PROVE  Service!Restart
<1>1. ASSUME NEW x \in Job
      PROVE  phase'[x] = IF phase[x] = "new" THEN "new" ELSE "over"
  <2>1. ~IsExecuting(x)' /\ ~IsQueued(x)'
    BY DEF Die, IsExecuting, IsQueued, InQueue
  <2>2. WasSubmitted(x)' <=> WasSubmitted(x)
    BY DEF Die, WasSubmitted
  <2> QED BY <2>1, <2>2, PhaseOfNext, PhasesExclude
<1>2. phase' = [x \in Job |-> phase'[x]]
  BY DEF phase
<1> QED BY <1>1, <1>2 DEF Service!Restart

LEMMA LoadImplements ==
    ASSUME HInv, LoadAll \/ LoadAllRaises
    PROVE  UNCHANGED phase
<1>1. process = "down" /\ UNCHANGED <<queue, worker, submitted>>
  BY DEF LoadAll, LoadAllRaises, history
<1>2. \A k \in Kind : queue[k] = <<>> /\ worker[k] = <<>>
  BY <1>1 DEF HInv, IInv, DownIsEmpty
<1>3. \A x \in Job : ~IsExecuting(x) /\ ~IsExecuting(x)' /\ ~IsQueued(x) /\ ~IsQueued(x)'
  BY <1>1, <1>2 DEF IsExecuting, IsQueued, InQueue
<1>4. \A x \in Job : WasSubmitted(x)' <=> WasSubmitted(x)
  BY <1>1 DEF WasSubmitted
<1> QED BY <1>3, <1>4, SamePhase, MovesNone

\* Every step of the registry is a step of the service or invisible to its client.
LEMMA StepImplements == HInv /\ [Next]_vars => [Service!Next]_phase
<1> SUFFICES ASSUME HInv, [Next]_vars PROVE Service!Next \/ UNCHANGED phase
  OBVIOUS
<1>1. CASE \E j \in Job : Submit(j) \/ Cancel(j)
  BY <1>1, SubmitImplements, CancelImplements DEF Service!Next
<1>2. CASE \E k \in Kind : WorkerStep(k)
  <2>1. PICK k \in Kind : WorkerStep(k)
    BY <1>2
  <2>2. PICK i \in DOMAIN worker[k] :
           \/ Skip(k, i) \/ Start(k, i) \/ Unwind(k, i)
           \/ \E outcome \in {"succeeded", "failed"} : Finish(k, i, outcome)
    BY <2>1 DEF WorkerStep
  <2>3. CASE Skip(k, i)
    BY <2>3, SkipImplements
  <2>4. CASE Start(k, i)
    BY <2>4, StartImplements DEF Service!Next
  <2>5. CASE Unwind(k, i)
    BY <2>5, UnwindImplements DEF Service!Next
  <2>6. CASE \E outcome \in {"succeeded", "failed"} : Finish(k, i, outcome)
    BY <2>6, FinishImplements DEF Service!Next
  <2> QED BY <2>2, <2>3, <2>4, <2>5, <2>6
<1>3. CASE BeginShutdown \/ AwaitWorker \/ EndShutdown
  BY <1>3, ShutdownImplements
<1>4. CASE Die
  BY <1>4, DieImplements DEF Service!Next
<1>5. CASE LoadAll \/ LoadAllRaises
  BY <1>5, LoadImplements
<1>6. CASE UNCHANGED vars
  BY <1>6 DEF vars, phase, Executing, InQueue
<1> QED BY <1>1, <1>2, <1>3, <1>4, <1>5, <1>6 DEF Next

LEMMA InitImplements == Init => Service!Init
<1> SUFFICES ASSUME Init PROVE Service!Init
  OBVIOUS
<1>1. ASSUME NEW x \in Job PROVE phase[x] = "new"
  <2>1. HInv /\ DOMAIN submitted = {}
    BY InitHistory DEF Init
  <2> QED BY <2>1, PhasesExclude DEF WasSubmitted
<1>2. phase = [x \in Job |-> phase[x]]
  BY DEF phase
<1> QED BY <1>1, <1>2 DEF Service!Init

\* The registry implements the service its clients rely on: jobs only move
\* forward, one of a kind executes at a time, nothing is resumed after a restart.
THEOREM RegistryImplementsService == Spec => ImplementsService
<1>1. Init => Service!Init
  BY InitImplements
<1>2. HInv /\ [Next]_vars => [Service!Next]_phase
  BY StepImplements
<1>3. Spec => Service!Init /\ [][Service!Next]_phase
  BY <1>1, <1>2, HistoryIsKept, PTL DEF Spec
<1> QED BY <1>3 DEF ImplementsService, Service!Spec
=============================================================================
