--------------------------- MODULE AdaptersProofs ---------------------------
(***************************************************************************)
(* What the adapters and their hooks guarantee for any number of attempts  *)
(* and of hooks: the types, that a failing write never ends a hook, where  *)
(* a report can be overwritten by an older one, and what a shutdown that   *)
(* came to its end leaves open.                                            *)
(***************************************************************************)
EXTENDS Adapters, SequenceTheorems, TLAPS

(***************************************************************************)
(* The inductive invariant.  OnlyLateCopiesRegress looks at what the       *)
(* gateway holds; whether that can regress is decided before, by the       *)
(* copies on the wire and by the hooks that may still send one.  So        *)
(* NothingOvertakes says the same of every copy on the wire and of every   *)
(* hook, and it is inductive because a copy somebody still waits for       *)
(* belongs to a running hook (CopiesAccounted), and two hooks that post    *)
(* and run together are both noted (OverlapNoted).                         *)
(***************************************************************************)
HasClient(t) == \E i \in DOMAIN plan[t] : plan[t][i] = "client"

HookState ==
    /\ plan \in [Task -> Seq(Slot)]
    /\ \A t \in Task :
        /\ HasClient(t) \/ pc[t] \in {"posting", "backoff"} => Posts(t)
        /\ pc[t] \in {"idle", "step", "writing"} => attempt[t] = 0
        /\ pc[t] = "posting" => attempt[t] > 0
        /\ pc[t] = "backoff" => attempt[t] < MaxAttempts

Numbered ==
    /\ \A t \in Task : report[t] <= hooks
    /\ \A c \in wire : c.report <= hooks
    /\ applied \subseteq 1 .. hooks

Seen == applied \cup {c.report : c \in wire}

CopiesAccounted ==
    \A c \in wire :
        \/ c.report \in waived \cup overlapped
        \/ \E t \in Task : pc[t] = "posting" /\ Copy(t) = c

OverlapNoted ==
    \A t, u \in Task :
        t # u /\ pc[t] # "idle" /\ pc[u] # "idle" /\ Posts(t) /\ Posts(u)
        => report[t] \in overlapped

NothingOvertakes ==
    /\ \A c \in wire : \A r \in Seen : r > c.report => c.report \in waived \cup overlapped
    /\ \A t \in Task : pc[t] # "idle" /\ Posts(t) =>
          \A r \in Seen : r > report[t] => report[t] \in overlapped

ClosedInOrder ==
    /\ \A s \in Slot : pool[s] = "open" => s \in slot
    /\ phase \in {"serving", "stopping"} => turn = 1
    /\ phase = "closing" => \A i \in 1 .. 4 : i < turn => Order[i] \notin slot
    /\ phase = "closed" => slot = {}

IInv ==
    /\ TypeOK
    /\ HookState
    /\ Numbered
    /\ CopiesAccounted
    /\ OverlapNoted
    /\ NothingOvertakes
    /\ ClosedInOrder
    /\ OnlyLateCopiesRegress

-----------------------------------------------------------------------------
(* What the steps do to the variables of a hook. *)

\* The four adapters, in the order they are connected and closed.
LEMMA OrderFacts ==
    /\ Len(Order) = 4
    /\ \A i \in 1 .. 4 : Order[i] \in Slot
    /\ \A s \in Slot : \E i \in 1 .. 4 : Order[i] = s
<1>1. Len(Order) = 4 /\ Order[1] = "postgres" /\ Order[2] = "mongo"
      /\ Order[3] = "gateway" /\ Order[4] = "client"
  BY DEF Order
<1> QED BY <1>1 DEF Slot

\* The two hooks are sequences of slots, and only a refresh writes to the client.
LEMMA PlanFacts ==
    /\ RefreshPlan \in Seq(Slot) /\ RefreshPlan # <<>>
    /\ BacktestPlan \in Seq(Slot) /\ BacktestPlan # <<>>
    /\ \A i \in DOMAIN BacktestPlan : BacktestPlan[i] # "client"
<1>1. RefreshPlan \in Seq(Slot) /\ RefreshPlan # <<>>
  BY DEF RefreshPlan, Slot
<1>2. BacktestPlan \in Seq(Slot) /\ BacktestPlan # <<>>
  BY DEF BacktestPlan, Slot
<1>3. \A i \in DOMAIN BacktestPlan : BacktestPlan[i] # "client"
  <2>1. DOMAIN BacktestPlan = 1 .. 3
    BY DEF BacktestPlan
  <2>2. BacktestPlan[1] # "client" /\ BacktestPlan[2] # "client" /\ BacktestPlan[3] # "client"
    BY DEF BacktestPlan
  <2> QED BY <2>1, <2>2
<1> QED BY <1>1, <1>2, <1>3

\* A hook that is running has a write before it.
LEMMA BusyHasPlan ==
    ASSUME IInv, NEW t \in Task, pc[t] # "idle"
    PROVE  /\ plan[t] \in Seq(Slot) /\ plan[t] # <<>>
           /\ Len(plan[t]) \in Nat \ {0}
           /\ DOMAIN plan[t] = 1 .. Len(plan[t]) /\ 1 \in DOMAIN plan[t]
           /\ Head(plan[t]) = plan[t][1]
           /\ Tail(plan[t]) \in Seq(Slot)
           /\ (Tail(plan[t]) = <<>>) <=> (Len(plan[t]) = 1)
           /\ (\E i \in DOMAIN Tail(plan[t]) : Tail(plan[t])[i] = "client") => HasClient(t)
<1>1. plan[t] \in Seq(Slot) /\ plan[t] # <<>>
  BY DEF IInv, HookState, TypeOK
<1>2. Len(plan[t]) \in Nat \ {0} /\ DOMAIN plan[t] = 1 .. Len(plan[t])
      /\ Head(plan[t]) = plan[t][1]
  BY <1>1, LenProperties, EmptySeq
<1>3. /\ Tail(plan[t]) \in Seq(Slot) /\ Len(Tail(plan[t])) = Len(plan[t]) - 1
      /\ \A i \in 1 .. Len(Tail(plan[t])) : Tail(plan[t])[i] = plan[t][i + 1]
  BY <1>1, HeadTailProperties
<1>4. (Tail(plan[t]) = <<>>) <=> (Len(plan[t]) = 1)
  <2>1. (Tail(plan[t]) = <<>>) <=> (Len(Tail(plan[t])) = 0)
    BY <1>3, EmptySeq
  <2> QED BY <2>1, <1>2, <1>3
<1>5. ASSUME NEW i \in DOMAIN Tail(plan[t]), Tail(plan[t])[i] = "client"
      PROVE  HasClient(t)
  <2>1. DOMAIN Tail(plan[t]) = 1 .. Len(Tail(plan[t]))
    BY <1>3, LenProperties
  <2>2. i + 1 \in DOMAIN plan[t] /\ plan[t][i + 1] = "client"
    BY <2>1, <1>2, <1>3, <1>5
  <2> QED BY <2>2 DEF HasClient
<1> QED BY <1>1, <1>2, <1>3, <1>4, <1>5

\* What a hook, or a POST of it, does when its write is through.
LEMMA HookMoved ==
    ASSUME AdaptersAssumption, IInv, NEW t \in Task, pc[t] # "idle",
           Advance(t) \/ (pc[t] = "posting" /\ Again(t))
    PROVE  /\ pc' \in [Task -> Step] /\ report' = report
           /\ attempt' \in [Task -> 0 .. MaxAttempts]
           /\ \A u \in Task : (pc'[u] = "idle") = (plan'[u] = <<>>)
           /\ HookState'
           /\ pc'[t] # "posting"
           /\ \A u \in Task : u # t => pc'[u] = pc[u] /\ attempt'[u] = attempt[u]
<1>1. /\ pc \in [Task -> Step] /\ plan \in [Task -> Seq(Slot)]
      /\ attempt \in [Task -> 0 .. MaxAttempts] /\ MaxAttempts \in Nat
      /\ \A u \in Task : (pc[u] = "idle") = (plan[u] = <<>>)
      /\ HookState
  BY DEF IInv, TypeOK, HookState, AdaptersAssumption
<1>2. CASE Advance(t)
  <2> DEFINE p == Tail(plan[t])
  <2>1. /\ p \in Seq(Slot) /\ ((p = <<>>) <=> (Len(plan[t]) = 1))
        /\ (\E i \in DOMAIN p : p[i] = "client") => HasClient(t)
    BY BusyHasPlan
  <2>2. /\ plan' = [plan EXCEPT ![t] = p] /\ report' = report
        /\ pc' = [pc EXCEPT ![t] = IF Len(plan[t]) = 1 THEN "idle" ELSE "step"]
        /\ attempt' = [attempt EXCEPT ![t] = 0]
    BY <1>2 DEF Advance
  <2> HIDE DEF p
  <2>3. /\ pc' \in [Task -> Step] /\ attempt' \in [Task -> 0 .. MaxAttempts]
        /\ plan' \in [Task -> Seq(Slot)]
        /\ \A u \in Task : u # t => pc'[u] = pc[u] /\ attempt'[u] = attempt[u] /\ plan'[u] = plan[u]
        /\ plan'[t] = p /\ attempt'[t] = 0 /\ pc'[t] \in {"idle", "step"}
        /\ (pc'[t] = "idle") = (p = <<>>)
    BY <1>1, <2>1, <2>2 DEF Step
  <2>4. \A u \in Task : (pc'[u] = "idle") = (plan'[u] = <<>>)
    <3> SUFFICES ASSUME NEW u \in Task PROVE (pc'[u] = "idle") = (plan'[u] = <<>>)
      OBVIOUS
    <3>1. CASE u = t
      BY <2>3, <3>1
    <3>2. CASE u # t
      <4>1. pc'[u] = pc[u] /\ plan'[u] = plan[u] /\ (pc[u] = "idle") = (plan[u] = <<>>)
        BY <1>1, <2>3, <3>2
      <4> QED BY <4>1
    <3> QED BY <3>1, <3>2
  <2>5. \A u \in Task : HasClient(u)' => HasClient(u)
    BY <2>1, <2>3 DEF HasClient
  <2>6. HookState'
    BY <1>1, <2>2, <2>3, <2>5 DEF HookState, Posts
  <2> QED BY <2>2, <2>3, <2>4, <2>6
<1>3. CASE pc[t] = "posting" /\ pc' = [pc EXCEPT ![t] = "backoff"]
           /\ attempt[t] < MaxAttempts /\ UNCHANGED <<plan, report, attempt>>
  <2>1. /\ pc' \in [Task -> Step] /\ pc'[t] = "backoff"
        /\ \A u \in Task : u # t => pc'[u] = pc[u]
    BY <1>1, <1>3 DEF Step
  <2>2. HookState'
    BY <1>1, <1>3, <2>1 DEF HookState, Posts, HasClient
  <2> QED BY <1>1, <1>3, <2>1, <2>2
<1> QED BY <1>2, <1>3 DEF Again

-----------------------------------------------------------------------------
(* IInv holds initially and is preserved by every action. *)

LEMMA InitEstablishes == AdaptersAssumption /\ Init => IInv
<1> SUFFICES ASSUME AdaptersAssumption, Init PROVE IInv
  OBVIOUS
<1>1. TypeOK
  <2>1. /\ phase \in Phase /\ turn \in 1 .. Len(Order) /\ slot \subseteq Slot
        /\ pool \in [Slot -> {"none", "open", "closing", "closed"}]
        /\ \A s \in slot : pool[s] \in {"open", "closing"}
    BY OrderFacts DEF Init, Phase
  <2>2. /\ pc \in [Task -> Step]
        /\ \A t \in Task : (pc[t] = "idle") = (plan[t] = <<>>)
        /\ report \in [Task -> 0 .. MaxHooks] /\ attempt \in [Task -> 0 .. MaxAttempts]
    BY DEF Init, Step, AdaptersAssumption
  <2>3. hooks \in 0 .. MaxHooks /\ stored \in 0 .. MaxHooks
    BY DEF Init, AdaptersAssumption
  <2>4. /\ cancelled \subseteq Task
        /\ wire \subseteq [report : 1 .. MaxHooks, attempt : 1 .. MaxAttempts]
    BY DEF Init
  <2>5. crashed \in BOOLEAN
    BY DEF Init
  <2> QED BY <2>1, <2>2, <2>3, <2>4, <2>5 DEF TypeOK
<1>2. HookState
  BY DEF Init, HookState, HasClient, Posts
<1>3. Numbered /\ CopiesAccounted /\ OverlapNoted /\ NothingOvertakes /\ OnlyLateCopiesRegress
  BY DEF Init, Numbered, CopiesAccounted, OverlapNoted, NothingOvertakes, Seen,
         OnlyLateCopiesRegress
<1>4. ClosedInOrder
  BY DEF Init, ClosedInOrder
<1> QED BY <1>1, <1>2, <1>3, <1>4 DEF IInv

\* What the gateway and the hooks know is none of the lifespan's business.
LEMMA GatewayKept ==
    ASSUME IInv, UNCHANGED <<pc, report, attempt, hooks, gateway, overlapped>>
    PROVE  Numbered' /\ CopiesAccounted' /\ OverlapNoted' /\ NothingOvertakes'
           /\ OnlyLateCopiesRegress'
<1> USE DEF IInv, gateway
<1>1. Numbered' /\ OnlyLateCopiesRegress'
  BY DEF Numbered, OnlyLateCopiesRegress
<1>2. CopiesAccounted'
  BY DEF CopiesAccounted, Copy
<1>3. OverlapNoted'
  BY DEF OverlapNoted, Posts
<1>4. NothingOvertakes'
  BY DEF NothingOvertakes, Seen, Posts
<1> QED BY <1>1, <1>2, <1>3, <1>4

LEMMA LifespanPreserves ==
    ASSUME IInv, Startup \/ Stop \/ Shutdown \/ Crash
    PROVE  IInv'
<1> USE OrderFacts DEF IInv
<1>1. UNCHANGED <<hookVars, hooks, gateway, overlapped>>
  BY DEF Startup, Connect, Downgrade, StartFails, Stop, Shutdown, JobsStopped, JobsStopRaises,
         BeginClose, EndClose, SkipClose, Crash, manager
<1>2. Numbered' /\ CopiesAccounted' /\ OverlapNoted' /\ NothingOvertakes'
      /\ OnlyLateCopiesRegress'
  BY <1>1, GatewayKept DEF hookVars
<1>3. /\ TypeOK /\ turn \in 1 .. 4 /\ slot \subseteq Slot /\ Order[turn] \in Slot
      /\ \A s \in slot : pool[s] \in {"open", "closing"}
      /\ \A s \in Slot : pool[s] = "open" => s \in slot
  BY DEF TypeOK, ClosedInOrder
<1>4. /\ phase' \in Phase /\ turn' \in 1 .. 4 /\ slot' \subseteq Slot
      /\ pool' \in [Slot -> {"none", "open", "closing", "closed"}]
      /\ \A s \in slot' : pool'[s] \in {"open", "closing"}
      /\ cancelled' \subseteq Task /\ crashed' \in BOOLEAN
      /\ ClosedInOrder'
  <2>1. CASE Startup
    <3>1. CASE Connect
      BY <1>3, <2>1, <3>1 DEF Connect, Turn, TypeOK, Phase, ClosedInOrder
    <3>2. CASE Downgrade \/ StartFails
      BY <1>3, <2>1, <3>2 DEF Downgrade, StartFails, Turn, TypeOK, Phase, ClosedInOrder
    <3> QED BY <2>1, <3>1, <3>2 DEF Startup
  <2>2. CASE Stop \/ Crash
    BY <1>3, <2>2 DEF Stop, Crash, TypeOK, Phase, ClosedInOrder, manager
  <2>3. CASE Shutdown
    <3>1. CASE JobsStopped \/ JobsStopRaises
      BY <1>3, <3>1 DEF JobsStopped, JobsStopRaises, TypeOK, Phase, ClosedInOrder
    <3>2. CASE BeginClose
      BY <1>3, <3>2 DEF BeginClose, TypeOK, Phase, ClosedInOrder
    <3>3. CASE EndClose
      BY <1>3, <3>3 DEF EndClose, Turn, TypeOK, Phase, ClosedInOrder
    <3>4. CASE SkipClose
      <4>1. /\ phase = "closing" /\ Order[turn] \notin slot
            /\ UNCHANGED <<slot, pool, cancelled, crashed>>
            /\ \A i \in 1 .. 4 : i < turn => Order[i] \notin slot
        BY <3>4 DEF SkipClose, ClosedInOrder
      <4>2. CASE turn = 4 /\ phase' = "closed" /\ turn' = 1
        <5>1. slot = {}
          <6> SUFFICES ASSUME NEW s \in slot PROVE FALSE
            OBVIOUS
          <6>1. PICK i \in 1 .. 4 : Order[i] = s
            BY <1>3
          <6> QED BY <6>1, <4>1, <4>2
        <5> QED BY <1>3, <4>1, <4>2, <5>1 DEF TypeOK, Phase, ClosedInOrder
      <4>3. CASE turn # 4 /\ turn' = turn + 1 /\ UNCHANGED phase
        BY <1>3, <4>1, <4>3 DEF TypeOK, ClosedInOrder
      <4> QED BY <3>4, <4>2, <4>3 DEF SkipClose, Turn
    <3> QED BY <2>3, <3>1, <3>2, <3>3, <3>4 DEF Shutdown
  <2> QED BY <2>1, <2>2, <2>3
<1>5. TypeOK'
  BY <1>1, <1>3, <1>4 DEF TypeOK, hookVars, gateway
<1>6. HookState'
  BY <1>1, <1>3, <1>4 DEF HookState, HasClient, Posts, hookVars, TypeOK
<1> QED BY <1>2, <1>4, <1>5, <1>6

\* The reports the gateway or the wire has seen are numbers of hooks begun.
LEMMA SeenIsPast ==
    ASSUME AdaptersAssumption, IInv
    PROVE  /\ hooks \in Nat /\ \A r \in Seen : r \in Nat /\ r <= hooks
           /\ \A c \in wire : c.report \in Nat /\ c.report \in Seen
           /\ \A u \in Task : report[u] \in Nat
<1>1. hooks \in 0 .. MaxHooks /\ MaxHooks \in Nat
      /\ wire \subseteq [report : 1 .. MaxHooks, attempt : 1 .. MaxAttempts]
      /\ report \in [Task -> 0 .. MaxHooks]
  BY DEF IInv, TypeOK, AdaptersAssumption
<1>2. \A c \in wire : c.report \in Nat /\ c.report <= hooks
  BY <1>1 DEF IInv, Numbered
<1>3. \A r \in applied : r \in Nat /\ r <= hooks
  BY <1>1 DEF IInv, Numbered
<1> QED BY <1>1, <1>2, <1>3 DEF Seen

\* A hook begins: its report is newer than any the gateway or the wire has seen.
LEMMA BeginPreserves ==
    ASSUME AdaptersAssumption, IInv, NEW t \in Task, Begin(t)
    PROVE  IInv'
<1> USE DEF IInv
<1>1. /\ phase = "serving" /\ pc[t] = "idle" /\ hooks < MaxHooks /\ hooks' = hooks + 1
      /\ pc' = [pc EXCEPT ![t] = "step"]
      /\ UNCHANGED <<phase, turn, slot, pool, attempt, cancelled, crashed>>
      /\ UNCHANGED <<wire, stored, applied, waived>>
  BY DEF Begin, manager, gateway
<1>2. /\ pc \in [Task -> Step] /\ report \in [Task -> 0 .. MaxHooks]
      /\ plan \in [Task -> Seq(Slot)] /\ hooks \in Nat /\ MaxHooks \in Nat
      /\ hooks' \in 1 .. MaxHooks /\ attempt[t] = 0
      /\ \A u \in Task : (pc[u] = "idle") = (plan[u] = <<>>)
  <2>1. hooks \in 0 .. MaxHooks /\ MaxHooks \in Nat
    BY DEF TypeOK, AdaptersAssumption
  <2>2. hooks' \in 1 .. MaxHooks
    BY <1>1, <2>1
  <2> QED BY <1>1, <2>1, <2>2 DEF TypeOK, HookState
<1>3. PICK q \in Seq(Slot), R \in {0, hooks'} :
        /\ plan' = [plan EXCEPT ![t] = q] /\ q # <<>>
        /\ report' = [report EXCEPT ![t] = R]
        /\ (\E i \in DOMAIN q : q[i] = "client") => R # 0
        /\ overlapped \subseteq overlapped'
        /\ R # 0 => \A u \in Task : pc[u] # "idle" /\ Posts(u) =>
                        R \in overlapped' /\ report[u] \in overlapped'
  <2>1. CASE /\ plan' = [plan EXCEPT ![t] = RefreshPlan]
             /\ report' = [report EXCEPT ![t] = hooks']
             /\ overlapped' = IF {u \in Busy : Posts(u)} = {} THEN overlapped
                              ELSE overlapped \cup {hooks'} \cup {report[u] : u \in Busy}
    <3>1. hooks' # 0
      BY <1>2
    <3>2. \A u \in Task : pc[u] # "idle" /\ Posts(u) =>
              hooks' \in overlapped' /\ report[u] \in overlapped'
      BY <2>1 DEF Busy
    <3>3. overlapped \subseteq overlapped'
      BY <2>1
    <3> QED BY <2>1, <3>1, <3>2, <3>3, PlanFacts
  <2>2. CASE /\ plan' = [plan EXCEPT ![t] = BacktestPlan]
             /\ report' = [report EXCEPT ![t] = 0]
             /\ UNCHANGED overlapped
    BY <2>2, PlanFacts
  <2> QED BY <2>1, <2>2 DEF Begin
<1>4. /\ pc' \in [Task -> Step] /\ plan' \in [Task -> Seq(Slot)]
      /\ report' \in [Task -> 0 .. MaxHooks]
      /\ pc'[t] = "step" /\ plan'[t] = q /\ report'[t] = R
      /\ \A u \in Task : u # t => pc'[u] = pc[u] /\ plan'[u] = plan[u] /\ report'[u] = report[u]
  <2>1. R \in 0 .. MaxHooks
    BY <1>2
  <2> QED BY <1>1, <1>2, <1>3, <2>1 DEF Step
<1>5. TypeOK'
  <2>1. \A u \in Task : (pc'[u] = "idle") = (plan'[u] = <<>>)
    BY <1>2, <1>3, <1>4
  <2>2. hooks' \in 0 .. MaxHooks
    BY <1>2
  <2> QED BY <1>1, <1>4, <2>1, <2>2 DEF TypeOK
<1>6. HookState'
  <2>1. HasClient(t)' => Posts(t)'
    BY <1>3, <1>4 DEF HasClient, Posts
  <2>2. \A u \in Task : u # t => (HasClient(u)' = HasClient(u)) /\ (Posts(u)' = Posts(u))
    BY <1>4 DEF HasClient, Posts
  <2> QED BY <1>1, <1>2, <1>4, <2>1, <2>2 DEF HookState
<1>7. Numbered'
  <2>1. \A u \in Task : report'[u] <= hooks'
    <3> SUFFICES ASSUME NEW u \in Task PROVE report'[u] <= hooks'
      OBVIOUS
    <3>1. CASE u = t
      BY <3>1, <1>2, <1>4
    <3>2. CASE u # t
      BY <3>2, <1>1, <1>2, <1>4 DEF Numbered
    <3> QED BY <3>1, <3>2
  <2>2. \A c \in wire : c.report <= hooks'
    BY <1>1, <1>2, SeenIsPast
  <2>3. applied \subseteq 1 .. hooks'
    BY <1>1, <1>2 DEF Numbered
  <2> QED BY <1>1, <2>1, <2>2, <2>3 DEF Numbered
<1>8. CopiesAccounted'
  <2> SUFFICES ASSUME NEW c \in wire
               PROVE  \/ c.report \in waived \cup overlapped'
                      \/ \E u \in Task : pc'[u] = "posting" /\ Copy(u)' = c
    BY <1>1 DEF CopiesAccounted
  <2>1. CASE c.report \in waived \cup overlapped
    BY <2>1, <1>3
  <2>2. ASSUME NEW u \in Task, pc[u] = "posting", Copy(u) = c
        PROVE  pc'[u] = "posting" /\ Copy(u)' = c
    <3>1. u # t
      BY <2>2, <1>1
    <3> QED BY <2>2, <3>1, <1>1, <1>4 DEF Copy
  <2> QED BY <2>1, <2>2 DEF CopiesAccounted
<1>9. OverlapNoted'
  <2> SUFFICES ASSUME NEW u \in Task, NEW v \in Task, u # v, pc'[u] # "idle", pc'[v] # "idle",
                      Posts(u)', Posts(v)'
               PROVE  report'[u] \in overlapped'
    BY DEF OverlapNoted
  <2>1. CASE u # t /\ v # t
    BY <2>1, <1>3, <1>4 DEF OverlapNoted, Posts
  <2>2. CASE u = t
    BY <2>2, <1>3, <1>4 DEF Posts
  <2>3. CASE v = t
    BY <2>3, <1>3, <1>4 DEF Posts
  <2> QED BY <2>1, <2>2, <2>3
<1>10. NothingOvertakes'
  <2>1. Seen' = Seen
    BY <1>1 DEF Seen
  <2>2. \A c \in wire : \A r \in Seen : r > c.report => c.report \in waived \cup overlapped'
    BY <1>3 DEF NothingOvertakes
  <2>3. ASSUME NEW u \in Task, pc'[u] # "idle", Posts(u)', NEW r \in Seen, r > report'[u]
        PROVE  report'[u] \in overlapped'
    <3>1. CASE u = t
      <4>1. report'[u] = hooks + 1 /\ r \in Nat /\ r <= hooks /\ hooks \in Nat
        BY <2>3, <3>1, <1>1, <1>4, SeenIsPast DEF Posts
      <4> QED BY <2>3, <4>1
    <3>2. CASE u # t
      BY <2>3, <3>2, <1>3, <1>4 DEF NothingOvertakes, Posts
    <3> QED BY <3>1, <3>2
  <2> QED BY <1>1, <2>1, <2>2, <2>3 DEF NothingOvertakes
<1>11. OnlyLateCopiesRegress'
  BY <1>1, <1>3 DEF OnlyLateCopiesRegress
<1>12. ClosedInOrder'
  BY <1>1 DEF ClosedInOrder
<1> QED BY <1>5, <1>6, <1>7, <1>8, <1>9, <1>10, <1>11, <1>12

\* A hook that goes on, and the end of a POST: copies leave the wire or are waived.
LEMMA MovePreserves ==
    ASSUME AdaptersAssumption, IInv, NEW t \in Task, pc[t] # "idle",
           Advance(t) \/ (pc[t] = "posting" /\ Again(t)),
           UNCHANGED <<manager, cancelled, crashed, hooks, stored, applied, overlapped>>,
           wire' \subseteq wire, waived \subseteq waived',
           pc[t] = "posting" /\ Copy(t) \in wire' => report[t] \in waived'
    PROVE  IInv'
<1> USE DEF IInv
<1>1. /\ UNCHANGED <<phase, turn, slot, pool, cancelled, crashed, hooks>>
      /\ UNCHANGED <<stored, applied, overlapped>>
  BY DEF manager
<1>2. /\ pc' \in [Task -> Step] /\ report' = report
      /\ attempt' \in [Task -> 0 .. MaxAttempts]
      /\ \A u \in Task : (pc'[u] = "idle") = (plan'[u] = <<>>)
      /\ HookState'
      /\ pc'[t] # "posting"
      /\ \A u \in Task : u # t => pc'[u] = pc[u] /\ attempt'[u] = attempt[u]
  BY <1>1, HookMoved
<1>3. TypeOK'
  BY <1>1, <1>2 DEF TypeOK
<1>4. Numbered' /\ ClosedInOrder'
  BY <1>1, <1>2 DEF Numbered, ClosedInOrder
<1>5. CopiesAccounted'
  <2> SUFFICES ASSUME NEW c \in wire'
               PROVE  \/ c.report \in waived' \cup overlapped
                      \/ \E u \in Task : pc'[u] = "posting" /\ Copy(u)' = c
    BY <1>1 DEF CopiesAccounted
  <2>1. CASE c.report \in waived \cup overlapped
    BY <2>1
  <2>2. ASSUME NEW u \in Task, pc[u] = "posting", Copy(u) = c
        PROVE  \/ c.report \in waived'
               \/ pc'[u] = "posting" /\ Copy(u)' = c
    <3>1. CASE u = t
      BY <2>2, <3>1 DEF Copy
    <3>2. CASE u # t
      BY <2>2, <3>2, <1>2 DEF Copy
    <3> QED BY <3>1, <3>2
  <2> QED BY <2>1, <2>2 DEF CopiesAccounted
<1>6. \A u \in Task : pc'[u] # "idle" => pc[u] # "idle"
  BY <1>2
<1>7. OverlapNoted'
  BY <1>1, <1>2, <1>6 DEF OverlapNoted, Posts
<1>8. NothingOvertakes'
  <2>1. Seen' \subseteq Seen
    BY <1>1 DEF Seen
  <2>2. \A c \in wire' : \A r \in Seen' : r > c.report => c.report \in waived' \cup overlapped
    BY <2>1 DEF NothingOvertakes
  <2>3. \A u \in Task : pc'[u] # "idle" /\ Posts(u)' =>
            \A r \in Seen' : r > report[u] => report[u] \in overlapped
    BY <1>2, <1>6, <2>1 DEF NothingOvertakes, Posts
  <2> QED BY <1>1, <1>2, <2>2, <2>3 DEF NothingOvertakes
<1>9. OnlyLateCopiesRegress'
  BY <1>1 DEF OnlyLateCopiesRegress
<1> QED BY <1>2, <1>3, <1>4, <1>5, <1>7, <1>8, <1>9

LEMMA WritePreserves ==
    ASSUME IInv, NEW t \in Task, Write(t)
    PROVE  IInv'
<1> USE DEF IInv
<1>1. /\ pc[t] = "step" /\ pc' = [pc EXCEPT ![t] = "writing"]
      /\ UNCHANGED <<phase, turn, slot, pool, plan, report, attempt, cancelled, crashed, hooks>>
      /\ UNCHANGED <<wire, stored, applied, waived, overlapped>>
  BY DEF Write, AtStep, manager, gateway
<1>2. /\ pc' \in [Task -> Step] /\ pc'[t] = "writing"
      /\ \A u \in Task : u # t => pc'[u] = pc[u]
  BY <1>1 DEF TypeOK, Step
<1>3. TypeOK'
  BY <1>1, <1>2 DEF TypeOK
<1>4. HookState'
  BY <1>1, <1>2 DEF HookState, HasClient, Posts
<1>5. Numbered' /\ ClosedInOrder' /\ OnlyLateCopiesRegress'
  BY <1>1 DEF Numbered, ClosedInOrder, OnlyLateCopiesRegress
<1>6. CopiesAccounted'
  BY <1>1, <1>2 DEF CopiesAccounted, Copy
<1>7. \A u \in Task : pc'[u] # "idle" => pc[u] # "idle"
  BY <1>1, <1>2
<1>8. OverlapNoted' /\ NothingOvertakes'
  <2>1. OverlapNoted'
    BY <1>1, <1>7 DEF OverlapNoted, Posts
  <2>2. NothingOvertakes'
    BY <1>1, <1>7 DEF NothingOvertakes, Posts, Seen
  <2> QED BY <2>1, <2>2
<1> QED BY <1>3, <1>4, <1>5, <1>6, <1>8

\* A copy goes out.  Whatever is newer belongs to a hook that runs beside this one;
\* whatever is older and on the wire is waived, or waited for by such a hook.
LEMMA SendPreserves ==
    ASSUME AdaptersAssumption, IInv, NEW t \in Task, Send(t)
    PROVE  IInv'
<1> USE DEF IInv
<1> DEFINE n == [report |-> report[t], attempt |-> attempt'[t]]
<1>1. /\ (AtStep(t, "client") /\ "client" \in slot) \/ pc[t] = "backoff"
      /\ pc' = [pc EXCEPT ![t] = "posting"]
      /\ attempt' = [attempt EXCEPT ![t] = @ + 1]
      /\ wire' = wire \cup {n}
      /\ UNCHANGED <<phase, turn, slot, pool, plan, report, cancelled, crashed, hooks>>
      /\ UNCHANGED <<stored, applied, waived, overlapped>>
  BY DEF Send, manager
<1>2. pc[t] \in {"step", "backoff"} /\ pc[t] # "idle" /\ pc[t] # "posting" /\ Posts(t)
  <2>1. CASE AtStep(t, "client")
    <3>1. pc[t] = "step" /\ plan[t][1] = "client" /\ 1 \in DOMAIN plan[t]
      BY <2>1, BusyHasPlan DEF AtStep
    <3> QED BY <3>1 DEF HookState, HasClient
  <2>2. CASE pc[t] = "backoff"
    BY <2>2 DEF HookState
  <2> QED BY <1>1, <2>1, <2>2
<1>3. /\ pc \in [Task -> Step] /\ attempt \in [Task -> 0 .. MaxAttempts]
      /\ report \in [Task -> 0 .. MaxHooks] /\ MaxAttempts \in Nat \ {0} /\ MaxHooks \in Nat
      /\ attempt[t] < MaxAttempts
  <2>1. /\ pc \in [Task -> Step] /\ attempt \in [Task -> 0 .. MaxAttempts]
        /\ report \in [Task -> 0 .. MaxHooks] /\ MaxAttempts \in Nat \ {0} /\ MaxHooks \in Nat
    BY DEF TypeOK, AdaptersAssumption
  <2> QED BY <1>2, <2>1 DEF HookState
<1>4. /\ attempt[t] + 1 \in 1 .. MaxAttempts /\ report[t] \in 1 .. MaxHooks
  BY <1>2, <1>3 DEF Posts
<1>5. /\ pc' \in [Task -> Step] /\ attempt' \in [Task -> 0 .. MaxAttempts]
      /\ pc'[t] = "posting" /\ attempt'[t] = attempt[t] + 1
      /\ \A u \in Task : u # t => pc'[u] = pc[u] /\ attempt'[u] = attempt[u]
  BY <1>1, <1>3, <1>4 DEF Step
<1>6. n \in [report : 1 .. MaxHooks, attempt : 1 .. MaxAttempts]
      /\ n.report = report[t] /\ n = Copy(t)'
  BY <1>1, <1>4, <1>5 DEF Copy
<1> HIDE DEF n
<1>7. TypeOK'
  <2>1. \A u \in Task : (pc'[u] = "idle") = (plan[u] = <<>>)
    <3>1. \A u \in Task : (pc[u] = "idle") = (plan[u] = <<>>)
      BY DEF TypeOK
    <3>2. \A u \in Task : (pc'[u] = "idle") = (pc[u] = "idle")
      BY <1>2, <1>5
    <3> QED BY <3>1, <3>2
  <2> QED BY <1>1, <1>5, <1>6, <2>1 DEF TypeOK
<1>8. HookState'
  <2>1. \A u \in Task : (HasClient(u)' = HasClient(u)) /\ (Posts(u)' = Posts(u))
    BY <1>1 DEF HasClient, Posts
  <2>2. attempt'[t] > 0
    BY <1>4, <1>5
  <2> QED BY <1>1, <1>2, <1>5, <2>1, <2>2 DEF HookState
<1>9. Numbered' /\ ClosedInOrder' /\ OnlyLateCopiesRegress'
  BY <1>1, <1>6 DEF Numbered, ClosedInOrder, OnlyLateCopiesRegress
<1>10. CopiesAccounted'
  <2> SUFFICES ASSUME NEW c \in wire'
               PROVE  \/ c.report \in waived \cup overlapped
                      \/ \E u \in Task : pc'[u] = "posting" /\ Copy(u)' = c
    BY <1>1 DEF CopiesAccounted
  <2>1. CASE c = n
    BY <2>1, <1>5, <1>6
  <2>2. ASSUME NEW u \in Task, pc[u] = "posting", Copy(u) = c
        PROVE  pc'[u] = "posting" /\ Copy(u)' = c
    BY <2>2, <1>1, <1>2, <1>5 DEF Copy
  <2> QED BY <2>1, <2>2, <1>1 DEF CopiesAccounted
<1>11. \A u \in Task : (pc'[u] # "idle" <=> pc[u] # "idle") /\ (Posts(u)' = Posts(u))
  BY <1>1, <1>2, <1>5 DEF Posts
<1>12. OverlapNoted'
  BY <1>1, <1>11 DEF OverlapNoted
<1>13. \A r \in Seen' : r \in Seen \/ r = report[t]
  BY <1>1, <1>6 DEF Seen
<1>14. NothingOvertakes'
  <2>1. ASSUME NEW c \in wire', NEW r \in Seen', r > c.report
        PROVE  c.report \in waived \cup overlapped
    <3>1. CASE c = n
      <4>1. r # report[t]
        BY <2>1, <3>1, <1>6, SeenIsPast
      <4> QED BY <2>1, <3>1, <4>1, <1>2, <1>6, <1>13 DEF NothingOvertakes
    <3>2. CASE c \in wire /\ r \in Seen
      BY <2>1, <3>2 DEF NothingOvertakes
    <3>3. CASE c \in wire /\ r = report[t]
      <4>1. SUFFICES ASSUME NEW u \in Task, pc[u] = "posting", Copy(u) = c
                     PROVE  c.report \in overlapped
        BY <3>3 DEF CopiesAccounted
      <4>2. report[u] = c.report /\ u # t /\ Posts(u)
        BY <4>1, <1>2 DEF Copy, HookState
      <4> QED BY <4>1, <4>2, <1>2 DEF OverlapNoted
    <3> QED BY <3>1, <3>2, <3>3, <1>1, <1>13
  <2>2. ASSUME NEW u \in Task, pc[u] # "idle", Posts(u), NEW r \in Seen', r > report[u]
        PROVE  report[u] \in overlapped
    <3>1. CASE r \in Seen
      BY <2>2, <3>1 DEF NothingOvertakes
    <3>2. CASE r = report[t]
      <4>1. u # t
        BY <2>2, <3>2, SeenIsPast
      <4> QED BY <2>2, <4>1, <1>2 DEF OverlapNoted
    <3> QED BY <3>1, <3>2, <1>13
  <2> QED BY <1>1, <1>11, <2>1, <2>2 DEF NothingOvertakes
<1> QED BY <1>7, <1>8, <1>9, <1>10, <1>12, <1>14

\* A copy arrives: what NothingOvertakes says of it holds of the row it leaves.
LEMMA DeliverPreserves ==
    ASSUME AdaptersAssumption, IInv, Deliver
    PROVE  IInv'
<1> USE DEF IInv
<1>1. PICK c \in wire : /\ wire' = wire \ {c} /\ stored' = c.report
                        /\ applied' = applied \cup {c.report}
                        /\ UNCHANGED <<manager, hookVars, cancelled, crashed, hooks, waived, overlapped>>
  BY DEF Deliver
<1>2. /\ UNCHANGED <<phase, turn, slot, pool, pc, plan, report, attempt>>
      /\ UNCHANGED <<cancelled, crashed, hooks, waived, overlapped>>
  BY <1>1 DEF manager, hookVars
<1>3. c.report \in 1 .. MaxHooks /\ MaxHooks \in Nat /\ c.report <= hooks /\ hooks \in Nat
  BY SeenIsPast DEF TypeOK, AdaptersAssumption, Numbered
<1>4. TypeOK'
  <2>1. c.report \in 0 .. MaxHooks
    BY <1>3
  <2> QED BY <1>1, <1>2, <2>1 DEF TypeOK
<1>5. HookState' /\ ClosedInOrder'
  BY <1>2 DEF HookState, HasClient, Posts, ClosedInOrder
<1>6. Numbered'
  <2>1. c.report \in 1 .. hooks
    BY <1>3
  <2> QED BY <1>1, <1>2, <2>1 DEF Numbered
<1>7. CopiesAccounted' /\ OverlapNoted'
  BY <1>1, <1>2 DEF CopiesAccounted, OverlapNoted, Copy, Posts
<1>8. Seen' \subseteq Seen /\ applied' \subseteq Seen
  BY <1>1 DEF Seen
<1>9. NothingOvertakes'
  <2>1. \A d \in wire' : \A r \in Seen' : r > d.report => d.report \in waived \cup overlapped
    BY <1>1, <1>8 DEF NothingOvertakes
  <2>2. \A t \in Task : pc[t] # "idle" /\ Posts(t) =>
            \A r \in Seen' : r > report[t] => report[t] \in overlapped
    BY <1>8 DEF NothingOvertakes
  <2> QED BY <1>2, <2>1, <2>2 DEF NothingOvertakes, Posts
<1>10. OnlyLateCopiesRegress'
  BY <1>1, <1>2, <1>8 DEF OnlyLateCopiesRegress, NothingOvertakes
<1> QED BY <1>4, <1>5, <1>6, <1>7, <1>9, <1>10

LEMMA CancelledPreserves ==
    ASSUME AdaptersAssumption, IInv, NEW t \in Task, Cancelled(t)
    PROVE  IInv'
<1> USE DEF IInv
<1>1. /\ t \in cancelled /\ cancelled' = cancelled \ {t}
      /\ pc' = [pc EXCEPT ![t] = "idle"] /\ plan' = [plan EXCEPT ![t] = <<>>]
      /\ waived' = waived \cup {c.report : c \in {d \in wire : d = Copy(t)}}
      /\ attempt' = [attempt EXCEPT ![t] = 0]
      /\ UNCHANGED <<phase, turn, slot, pool, report, crashed, hooks>>
      /\ UNCHANGED <<wire, stored, applied, overlapped>>
  BY DEF Cancelled, manager
<1>2. /\ pc' \in [Task -> Step] /\ plan' \in [Task -> Seq(Slot)]
      /\ pc'[t] = "idle" /\ plan'[t] = <<>>
      /\ attempt' \in [Task -> 0 .. MaxAttempts] /\ attempt'[t] = 0
      /\ \A u \in Task : u # t => pc'[u] = pc[u] /\ plan'[u] = plan[u] /\ attempt'[u] = attempt[u]
  BY <1>1 DEF TypeOK, HookState, Step, AdaptersAssumption
<1>3. TypeOK'
  <2>1. \A u \in Task : (pc'[u] = "idle") = (plan'[u] = <<>>)
    BY <1>2 DEF TypeOK
  <2> QED BY <1>1, <1>2, <2>1 DEF TypeOK
<1>4. HookState'
  <2>1. ~HasClient(t)'
    <3>1. DOMAIN plan'[t] = {}
      BY <1>2
    <3> QED BY <3>1 DEF HasClient
  <2>2. \A u \in Task : (u # t => HasClient(u)' = HasClient(u)) /\ (Posts(u)' = Posts(u))
    BY <1>1, <1>2 DEF HasClient, Posts
  <2> QED BY <1>1, <1>2, <2>1, <2>2 DEF HookState
<1>5. Numbered' /\ ClosedInOrder'
  BY <1>1 DEF Numbered, ClosedInOrder
<1>6. CopiesAccounted'
  <2> SUFFICES ASSUME NEW c \in wire
               PROVE  \/ c.report \in waived' \cup overlapped
                      \/ \E u \in Task : pc'[u] = "posting" /\ Copy(u)' = c
    BY <1>1 DEF CopiesAccounted
  <2>1. CASE c = Copy(t)
    BY <2>1, <1>1
  <2>2. ASSUME NEW u \in Task, c # Copy(t), pc[u] = "posting", Copy(u) = c
        PROVE  pc'[u] = "posting" /\ Copy(u)' = c
    BY <2>2, <1>1, <1>2 DEF Copy
  <2>3. waived \subseteq waived'
    BY <1>1
  <2> QED BY <2>1, <2>2, <2>3 DEF CopiesAccounted
<1>7. \A u \in Task : pc'[u] # "idle" => pc[u] # "idle"
  BY <1>2
<1>8. OverlapNoted'
  BY <1>1, <1>7 DEF OverlapNoted, Posts
<1>9. NothingOvertakes' /\ OnlyLateCopiesRegress'
  <2>1. waived \subseteq waived' /\ Seen' = Seen
    BY <1>1 DEF Seen
  <2>2. NothingOvertakes'
    BY <1>1, <1>7, <2>1 DEF NothingOvertakes, Posts
  <2>3. OnlyLateCopiesRegress'
    BY <1>1, <2>1 DEF OnlyLateCopiesRegress
  <2> QED BY <2>2, <2>3
<1> QED BY <1>3, <1>4, <1>5, <1>6, <1>8, <1>9

\* Asking a task to end changes nothing else.
LEMMA CutOffPreserves == ASSUME IInv, NEW t \in Task, CutOff(t) PROVE IInv'
<1> USE DEF IInv
<1>1. /\ cancelled' = cancelled \cup {t}
      /\ UNCHANGED <<phase, turn, slot, pool, pc, plan, report, attempt, crashed, hooks>>
      /\ UNCHANGED <<gateway, overlapped>>
  BY DEF CutOff, manager, hookVars
<1>2. TypeOK' /\ HookState' /\ ClosedInOrder'
  BY <1>1 DEF gateway, TypeOK, HookState, HasClient, Posts, ClosedInOrder
<1> QED BY <1>1, <1>2, GatewayKept

LEMMA HookStepPreserves ==
    ASSUME AdaptersAssumption, IInv, NEW t \in Task, HookStep(t)
    PROVE  IInv'
<1> USE DEF gateway
<1>1. CASE Skip(t) \/ Written(t) \/ WriteRaises(t) \/ SendRaises(t)
  BY <1>1, MovePreserves DEF Skip, Written, WriteRaises, SendRaises
<1>2. CASE Accepted(t)
  BY <1>2, MovePreserves DEF Accepted
<1>3. CASE Refused(t)
  BY <1>3, MovePreserves DEF Refused
<1>4. CASE Unanswered(t)
  BY <1>4, MovePreserves DEF Unanswered
<1> QED BY <1>1, <1>2, <1>3, <1>4, WritePreserves, SendPreserves DEF HookStep, Post

LEMMA NextPreserves == AdaptersAssumption /\ IInv /\ [Next]_vars => IInv'
<1> SUFFICES ASSUME AdaptersAssumption, IInv, [Next]_vars PROVE IInv'
  OBVIOUS
<1>1. CASE Startup \/ Stop \/ Shutdown \/ Crash
  BY <1>1, LifespanPreserves
<1>2. CASE Deliver
  BY <1>2, DeliverPreserves
<1>3. CASE \E t \in Task : Begin(t) \/ HookStep(t) \/ CutOff(t) \/ Cancelled(t)
  BY <1>3, BeginPreserves, HookStepPreserves, CutOffPreserves, CancelledPreserves
<1>4. CASE UNCHANGED vars
  <2>1. UNCHANGED <<phase, turn, slot, pool, pc, plan, report, attempt, cancelled, crashed>>
        /\ UNCHANGED <<hooks, gateway, overlapped>>
    BY <1>4 DEF vars, manager, hookVars
  <2>2. TypeOK' /\ HookState' /\ ClosedInOrder'
    BY <2>1 DEF gateway, IInv, TypeOK, HookState, HasClient, Posts, ClosedInOrder
  <2> QED BY <2>1, <2>2, GatewayKept DEF IInv
<1> QED BY <1>1, <1>2, <1>3, <1>4 DEF Next

\* The inductive invariant holds in every reachable state.
THEOREM Inductive == Spec => []IInv
BY AdaptersAssumption, InitEstablishes, NextPreserves, PTL DEF Spec

\* Every variable keeps its type, and a slot that is set has a client inside.
THEOREM TypeCorrect == Spec => []TypeOK
<1>1. IInv => TypeOK
  BY DEF IInv
<1> QED BY <1>1, Inductive, PTL

\* The gateway goes back to an older report only by a copy given up unanswered, or
\* where two refreshes ran side by side, for any number of attempts and hooks.
THEOREM OnlyLateCopiesRegressHolds == Spec => []OnlyLateCopiesRegress
<1>1. IInv => OnlyLateCopiesRegress
  BY DEF IInv
<1> QED BY <1>1, Inductive, PTL

\* No failure, no retry and no adapter that closes under it ends a hook before its
\* last write: only a cancellation does.
THEOREM HookRunsThroughHolds == Spec => HookRunsThrough
<1>1. IInv /\ [Next]_vars =>
         \A t \in Task : pc[t] # "idle" /\ pc'[t] = "idle" => t \in cancelled \/ Len(plan[t]) = 1
  <2> SUFFICES ASSUME IInv, [Next]_vars, NEW t \in Task, pc[t] # "idle", pc'[t] = "idle",
                      t \notin cancelled
               PROVE  Len(plan[t]) = 1
    OBVIOUS
  <2>1. pc \in [Task -> Step]
    BY DEF IInv, TypeOK
  <2>2. CASE Startup \/ Stop \/ Shutdown \/ Crash \/ Deliver \/ UNCHANGED vars
    BY <2>2 DEF Startup, Connect, Downgrade, StartFails, Stop, Shutdown, JobsStopped,
                JobsStopRaises, BeginClose, EndClose, SkipClose, Crash, Deliver, vars, hookVars
  <2>3. ASSUME NEW u \in Task, Begin(u) \/ CutOff(u) \/ Cancelled(u) PROVE Len(plan[t]) = 1
    BY <2>1, <2>3 DEF Begin, CutOff, Cancelled, hookVars
  <2>4. ASSUME NEW u \in Task, HookStep(u) PROVE Len(plan[t]) = 1
    <3>1. CASE Write(u) \/ Send(u)
      BY <2>1, <3>1 DEF Write, Send
    <3>2. CASE Advance(u) \/ Again(u)
      BY <2>1, <3>2 DEF Advance, Again
    <3> QED BY <2>4, <3>1, <3>2 DEF HookStep, Post, Skip, Written, WriteRaises, Accepted, Refused,
                                   Unanswered, SendRaises
  <2> QED BY <2>2, <2>3, <2>4 DEF Next
<1>2. Spec => [][\A t \in Task : pc[t] # "idle" /\ pc'[t] = "idle" =>
                     t \in cancelled \/ Len(plan[t]) = 1]_vars
  BY <1>1, Inductive, PTL DEF Spec
<1> QED BY <1>2 DEF HookRunsThrough

\* A shutdown that came to its end has closed every adapter and cleared every slot:
\* the safety half of TeardownCompletes.
THEOREM ClosedIsAllClosed == Spec => [](phase = "closed" => AllClosed)
<1>1. IInv => (phase = "closed" => AllClosed)
  BY DEF IInv, ClosedInOrder, AllClosed
<1> QED BY <1>1, Inductive, PTL
=====
