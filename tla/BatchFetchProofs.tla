-------------------------- MODULE BatchFetchProofs --------------------------
(***************************************************************************)
(* What one phase of fetching guarantees for any finite set of symbols and *)
(* any limits: the types with the promise of the semaphore, and that every *)
(* step is one of FetchPhase or invisible to the refresh.                  *)
(***************************************************************************)
EXTENDS BatchFetch, FiniteSetTheorems, TLAPS

(***************************************************************************)
(* The inductive invariant.  An attempt that runs was allowed to start; a  *)
(* symbol that was merged has no task any more; and what the vendor has    *)
(* delivered is in the hands of the phase: merged, or the frame of a task  *)
(* that gather has not returned yet.                                       *)
(***************************************************************************)
IInv ==
    /\ TypeOK
    /\ at \in {"sleep", "batch"} => attempts < BatchAttempts
    /\ at = "sleep" => \A s \in Symbol : task[s] = "none"
    /\ at = "batch" => \A s \in merged : task[s] = "none"
    /\ at \in {"sleep", "batch"} => delivered = merged \cup In("usable")

-----------------------------------------------------------------------------
\* The symbols in a state are finitely many.
LEMMA InIsFinite ==
    ASSUME NEW st
    PROVE  IsFiniteSet(In(st)) /\ Cardinality(In(st)) \in Nat
<1>1. In(st) \in SUBSET Symbol
  BY DEF In
<1>2. IsFiniteSet(In(st))
  BY <1>1, BatchFetchAssumption, FS_Subset DEF BatchFetchAssumption
<1> QED BY <1>2, FS_CardinalityType

LEMMA InIsFiniteNext ==
    ASSUME NEW st
    PROVE  IsFiniteSet(In(st)') /\ Cardinality(In(st)') \in Nat
<1>1. In(st)' \in SUBSET Symbol
  BY DEF In
<1>2. IsFiniteSet(In(st)')
  BY <1>1, BatchFetchAssumption, FS_Subset DEF BatchFetchAssumption
<1> QED BY <1>2, FS_CardinalityType

\* A step that only takes symbols out of "fetching" keeps the promise.
LEMMA FewerFetching ==
    ASSUME TypeOK, In("fetching")' \subseteq In("fetching")
    PROVE  Cardinality(In("fetching"))' <= Concurrency
<1>1. IsFiniteSet(In("fetching")) /\ Cardinality(In("fetching")) \in Nat
  BY InIsFinite
<1>2. Cardinality(In("fetching")') \in Nat
  BY InIsFiniteNext
<1>3. Cardinality(In("fetching")') <= Cardinality(In("fetching"))
  BY <1>1, FS_Subset
<1>4. Cardinality(In("fetching")) <= Concurrency /\ Concurrency \in Nat
  BY BatchFetchAssumption DEF TypeOK, BatchFetchAssumption
<1> QED BY <1>1, <1>2, <1>3, <1>4

LEMMA InitEstablishes == Init => IInv
<1> SUFFICES ASSUME Init PROVE IInv
  OBVIOUS
<1> USE BatchFetchAssumption DEF BatchFetchAssumption, Init
<1>1. In("fetching") = {} /\ In("usable") = {} /\ Active = {}
  BY DEF In, Active
<1>2. Cardinality(In("fetching")) <= Concurrency
  BY <1>1, FS_EmptySet
<1>3. TypeOK
  BY <1>1, <1>2 DEF TypeOK, Task
<1> QED BY <1>1, <1>3 DEF IInv

LEMMA BeginPreserves == ASSUME IInv, Begin PROVE IInv'
<1> USE DEF IInv
<1>1. /\ at = "sleep" /\ at' = "batch"
      /\ task' = [s \in Symbol |-> IF s \in merged THEN "none" ELSE "waiting"]
      /\ tries' = [s \in Symbol |-> 0]
      /\ UNCHANGED <<source, merged, attempts, delivered>>
  BY DEF Begin
<1>2. In("fetching")' = {} /\ In("usable")' = {} /\ In("usable") = {}
  BY <1>1 DEF In
<1>3. Cardinality(In("fetching"))' <= Concurrency
  BY <1>2, FewerFetching
<1>4. TypeOK'
  BY <1>1, <1>3, BatchFetchAssumption DEF TypeOK, Task, BatchFetchAssumption
<1>5. delivered' = merged' \cup In("usable")'
  BY <1>1, <1>2
<1>6. \A s \in merged' : task'[s] = "none"
  BY <1>1 DEF TypeOK
<1> QED BY <1>1, <1>4, <1>5, <1>6

\* A symbol gets one of the places the semaphore has left.
LEMMA AcquirePreserves == ASSUME IInv, NEW s \in Symbol, Acquire(s) PROVE IInv'
<1> USE DEF IInv
<1>1. /\ at \in {"batch", "failed"} /\ task[s] = "waiting"
      /\ Cardinality(In("fetching")) < Concurrency
      /\ task' = [task EXCEPT ![s] = "fetching"]
      /\ tries' = [tries EXCEPT ![s] = 1]
      /\ UNCHANGED <<source, at, merged, attempts, delivered>>
  BY DEF Acquire
<1>2. /\ task' \in [Symbol -> Task] /\ tries' \in [Symbol -> 0 .. FetchAttempts]
      /\ \A x \in Symbol : task'[x] = IF x = s THEN "fetching" ELSE task[x]
  BY <1>1, BatchFetchAssumption DEF TypeOK, Task, BatchFetchAssumption
<1>3. In("fetching")' = In("fetching") \cup {s} /\ In("usable")' = In("usable")
  BY <1>1, <1>2 DEF In
<1>4. Cardinality(In("fetching"))' <= Concurrency
  <2>1. IsFiniteSet(In("fetching")) /\ Cardinality(In("fetching")) \in Nat
    BY InIsFinite
  <2>2. Cardinality(In("fetching") \cup {s}) =
            IF s \in In("fetching") THEN Cardinality(In("fetching"))
            ELSE Cardinality(In("fetching")) + 1
    BY <2>1, FS_AddElement
  <2>3. Concurrency \in Nat
    BY BatchFetchAssumption DEF BatchFetchAssumption
  <2> DEFINE n == Cardinality(In("fetching"))
             m == Cardinality(In("fetching") \cup {s})
  <2>4. n \in Nat /\ n < Concurrency /\ (m = n \/ m = n + 1)
    BY <1>1, <2>1, <2>2
  <2> HIDE DEF n, m
  <2>5. m <= Concurrency
    BY <2>3, <2>4
  <2> QED BY <1>3, <2>5 DEF m
<1>5. TypeOK'
  BY <1>1, <1>2, <1>4 DEF TypeOK
<1>6. at' = "batch" => \A x \in merged' : task'[x] = "none"
  BY <1>1, <1>2 DEF TypeOK
<1> QED BY <1>1, <1>3, <1>5, <1>6

\* The task of a symbol returns: nothing else of the attempt changes.
LEMMA ReturnPreserves ==
    ASSUME IInv, NEW s \in Symbol, NEW what \in {"usable", "empty", "omitted"},
           Return(s, what),
           delivered' = IF what = "usable" THEN delivered \cup {s} ELSE delivered
    PROVE  IInv'
<1> USE DEF IInv
<1>1. /\ at = "batch" /\ task[s] = "fetching"
      /\ task' = [task EXCEPT ![s] = what]
      /\ UNCHANGED <<source, at, tries, merged, attempts>>
  BY DEF Return
<1>2. /\ task' \in [Symbol -> Task]
      /\ \A x \in Symbol : task'[x] = IF x = s THEN what ELSE task[x]
  BY <1>1 DEF TypeOK, Task
<1>3. /\ In("fetching")' \subseteq In("fetching")
      /\ In("usable")' = IF what = "usable" THEN In("usable") \cup {s} ELSE In("usable")
  BY <1>1, <1>2 DEF In
<1>4. TypeOK'
  <2>1. Cardinality(In("fetching"))' <= Concurrency
    BY <1>3, FewerFetching
  <2> QED BY <1>1, <1>2, <2>1 DEF TypeOK
<1>5. \A x \in merged' : task'[x] = "none"
  BY <1>1, <1>2 DEF TypeOK
<1>6. delivered' = merged' \cup In("usable")'
  BY <1>1, <1>3
<1> QED BY <1>1, <1>4, <1>5, <1>6

\* Another request of the same task.
LEMMA RetryPreserves ==
    ASSUME IInv, NEW s \in Symbol, tries[s] # FetchAttempts,
           tries' = [tries EXCEPT ![s] = @ + 1],
           UNCHANGED <<source, at, task, merged, attempts, delivered>>
    PROVE  IInv'
<1> USE DEF IInv
<1>1. \A st : In(st)' = In(st)
  BY DEF In
<1>2. Active' = Active
  BY DEF In, Active
<1>3. tries' \in [Symbol -> 0 .. FetchAttempts]
  BY BatchFetchAssumption DEF TypeOK, BatchFetchAssumption
<1>4. TypeOK'
  BY <1>1, <1>2, <1>3 DEF TypeOK
<1> QED BY <1>1, <1>4

LEMMA SettlePreserves == ASSUME IInv, NEW s \in Symbol, Settle(s) PROVE IInv'
<1>1. CASE Answered(s)
  BY <1>1, ReturnPreserves DEF Answered
<1>2. CASE FinalFailure(s) \/ GivenUp(s)
  BY <1>2, ReturnPreserves DEF FinalFailure, GivenUp
<1>3. CASE TransientFailure(s)
  BY <1>3, ReturnPreserves, RetryPreserves DEF TransientFailure
<1> QED BY <1>1, <1>2, <1>3 DEF Settle

LEMMA GatheredPreserves == ASSUME IInv, Gathered PROVE IInv'
<1> USE DEF IInv
<1>1. /\ at = "batch"
      /\ merged' = merged \cup In("usable") /\ attempts' = attempts + 1
      /\ at' = IF merged' = Symbol \/ attempts' = BatchAttempts THEN "done" ELSE "sleep"
      /\ task' = [s \in Symbol |-> "none"]
      /\ UNCHANGED <<source, tries, delivered>>
  BY DEF Gathered
<1>2. /\ attempts \in Nat /\ BatchAttempts \in Nat /\ attempts < BatchAttempts
      /\ attempts' \in 0 .. BatchAttempts
      /\ attempts' # BatchAttempts => attempts' < BatchAttempts
  BY <1>1, BatchFetchAssumption DEF TypeOK, BatchFetchAssumption
<1>3. In("fetching")' = {} /\ In("usable")' = {} /\ Active' = {}
  BY <1>1 DEF In, Active
<1>4. merged' \subseteq Symbol
  BY <1>1 DEF TypeOK, In
<1>5. TypeOK'
  <2>1. Cardinality(In("fetching"))' <= Concurrency
    BY <1>3, FewerFetching
  <2> QED BY <1>1, <1>2, <1>3, <1>4, <2>1 DEF TypeOK, Task
<1> QED BY <1>1, <1>2, <1>3, <1>5

LEMMA CutPreserves == ASSUME IInv, CutOff \/ GatherCancelled PROVE IInv'
<1> USE DEF IInv
<1>1. /\ at \in {"sleep", "cutting"} => at' = "cut"
      /\ at = "batch" => at' = "cutting"
      /\ at \in {"sleep", "batch", "cutting"}
      /\ at = "cutting" => Active = {}
      /\ UNCHANGED <<source, task, tries, merged, attempts, delivered>>
  BY DEF CutOff, GatherCancelled, perTask
<1>2. (\A st : In(st)' = In(st)) /\ Active' = Active
  BY <1>1 DEF In, Active
<1>3. TypeOK'
  BY <1>1, <1>2 DEF TypeOK
<1> QED BY <1>1, <1>3

LEMMA UnwindPreserves == ASSUME IInv, NEW s \in Symbol, Unwind(s) PROVE IInv'
<1> USE DEF IInv
<1>1. /\ at = "cutting" /\ task' = [task EXCEPT ![s] = "cancelled"]
      /\ UNCHANGED <<source, at, tries, merged, attempts, delivered>>
  BY DEF Unwind
<1>2. task' \in [Symbol -> Task] /\ In("fetching")' \subseteq In("fetching")
  BY <1>1 DEF TypeOK, Task, In
<1>3. TypeOK'
  <2>1. Cardinality(In("fetching"))' <= Concurrency
    BY <1>2, FewerFetching
  <2> QED BY <1>1, <1>2, <2>1 DEF TypeOK
<1> QED BY <1>1, <1>3

\* A task that raises fails the phase; one that is left behind only ends.
LEMMA RaisePreserves ==
    ASSUME IInv, NEW s \in Symbol, Raise(s) \/ LeftBehind(s)
    PROVE  IInv'
<1> USE DEF IInv
<1>1. /\ at' = "failed" /\ task' = [task EXCEPT ![s] = "omitted"]
      /\ UNCHANGED <<source, tries, merged, attempts, delivered>>
  BY DEF Raise, LeftBehind
<1>2. task' \in [Symbol -> Task] /\ In("fetching")' \subseteq In("fetching")
  BY <1>1 DEF TypeOK, Task, In
<1>3. TypeOK'
  <2>1. Cardinality(In("fetching"))' <= Concurrency
    BY <1>2, FewerFetching
  <2> QED BY <1>1, <1>2, <2>1 DEF TypeOK
<1> QED BY <1>1, <1>3

LEMMA NextPreserves == IInv /\ [Next]_vars => IInv'
<1> SUFFICES ASSUME IInv, [Next]_vars PROVE IInv'
  OBVIOUS
<1>1. CASE UNCHANGED vars
  <2>1. (\A st : In(st)' = In(st)) /\ Active' = Active
    BY <1>1 DEF vars, perTask, In, Active
  <2> QED BY <1>1, <2>1 DEF IInv, TypeOK, vars, perTask
<1> QED BY <1>1, BeginPreserves, GatheredPreserves, CutPreserves, AcquirePreserves,
           SettlePreserves, RaisePreserves, UnwindPreserves DEF Next

\* The inductive invariant holds in every reachable state of a phase.
THEOREM Inductive == Spec => []IInv
BY InitEstablishes, NextPreserves, PTL DEF Spec

\* Never are more requests open than tvkit_concurrency, for any set of symbols, and
\* none once the phase is over or was cut off; a phase that failed keeps to them too.
THEOREM TypeCorrect == Spec => []TypeOK
<1>1. IInv => TypeOK
  BY DEF IInv
<1> QED BY <1>1, Inductive, PTL

-----------------------------------------------------------------------------
(* Step by step, a phase is a FetchPhase. *)

LEMMA AnsweredImplements ==
    ASSUME IInv, NEW s \in Symbol, Answered(s)
    PROVE  Phase!Deliver \/ UNCHANGED <<delivered, merged, attempts, status>>
<1>1. at = "batch" /\ task[s] = "fetching" /\ UNCHANGED <<at, merged, attempts>>
  BY DEF Answered, Return
<1>2. status = "running" /\ status' = status
  BY <1>1 DEF status
<1>3. s \notin delivered
  BY <1>1 DEF IInv, In
<1> QED BY <1>1, <1>2, <1>3 DEF Answered, Phase!Deliver

LEMMA GatheredImplements == ASSUME IInv, Gathered PROVE Phase!Attempt
<1>1. /\ at = "batch" /\ merged' = delivered /\ attempts' = attempts + 1
      /\ at' = IF delivered = Symbol \/ attempts' = BatchAttempts THEN "done" ELSE "sleep"
      /\ UNCHANGED delivered
  BY DEF Gathered, IInv
<1>2. /\ status = "running"
      /\ status' = IF delivered = Symbol \/ attempts' = BatchAttempts THEN "done" ELSE "running"
  BY <1>1 DEF status
<1> QED BY <1>1, <1>2 DEF Phase!Attempt

\* Every step of the tasks, the retries and the semaphore is a step of FetchPhase,
\* or one its user does not see.
LEMMA StepImplements ==
    IInv /\ [Next]_vars => [Phase!Deliver \/ Phase!Attempt \/ Phase!CutOff]_(Phase!vars)
<1> SUFFICES ASSUME IInv, [Next]_vars
             PROVE  \/ Phase!Deliver \/ Phase!Attempt \/ Phase!CutOff
                    \/ UNCHANGED <<delivered, merged, attempts, status>>
  BY DEF Phase!vars
<1>1. CASE Gathered
  BY <1>1, GatheredImplements
<1>2. CASE CutOff
  BY <1>2 DEF CutOff, Phase!CutOff, status
<1>3. CASE Begin \/ GatherCancelled
  BY <1>3 DEF Begin, GatherCancelled, status
<1>4. ASSUME NEW s \in Symbol, Acquire(s) \/ LeftBehind(s) \/ Unwind(s)
      PROVE  UNCHANGED <<delivered, merged, attempts, status>>
  BY <1>4 DEF Acquire, LeftBehind, Unwind, status
<1>5. ASSUME NEW s \in Symbol, TransientFailure(s) \/ FinalFailure(s) \/ GivenUp(s)
      PROVE  UNCHANGED <<delivered, merged, attempts, status>>
  BY <1>5 DEF TransientFailure, FinalFailure, GivenUp, Return, status
<1>6. CASE UNCHANGED vars
  BY <1>6 DEF vars, status
<1>7. ASSUME NEW s \in Symbol, Raise(s)
      PROVE  Phase!CutOff
  BY <1>7 DEF Raise, Phase!CutOff, status
<1> QED BY <1>1, <1>2, <1>3, <1>4, <1>5, <1>6, <1>7, AnsweredImplements DEF Next, Settle

\* The safety part of ImplementsPhase: data that came is taken over, all of it and
\* nothing else counts as fetched, however the tasks of the symbols interleave.
THEOREM ImplementsPhaseSteps ==
    Spec => Phase!Init /\ [][Phase!Deliver \/ Phase!Attempt \/ Phase!CutOff]_(Phase!vars)
<1>1. Init => Phase!Init
  BY DEF Init, Phase!Init, status
<1>2. IInv /\ [Next]_vars => [Phase!Deliver \/ Phase!Attempt \/ Phase!CutOff]_(Phase!vars)
  BY StepImplements
<1> QED BY <1>1, <1>2, Inductive, PTL DEF Spec
=============================================================================
