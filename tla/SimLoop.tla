------------------------------ MODULE SimLoop ------------------------------
(***************************************************************************)
(* One run of the sim trade loop (execution/sim_loop.py) over the adapter  *)
(* of the Execution engine (execution/engine_adapter.py).                  *)
(*                                                                         *)
(* Two tasks of one event loop share the trackers and the book: the main   *)
(* task submits every order and then awaits them in turn, the stream task  *)
(* applies the fill events it receives.  Each await is a point where the   *)
(* other task and the engine move.  The engine is external: what it does   *)
(* is read off the client code that copes with it.  Prices are left out.   *)
(***************************************************************************)
EXTENDS Integers, Sequences, FiniteSets

CONSTANTS
    Orders,       \* the orders of the run in submission order, one per symbol
    Quantity,     \* shares of each order
    Side,         \* "BUY" or "SELL"
    Held,         \* position of each order's symbol in the starting portfolio
    MaxAttempts,  \* the adapter's max_attempts
    Immediate,    \* TRUE: the engine executes an order while it answers the POST
    MaxFaults     \* bound: transport errors, refusals, gaps and resets in a run

Order == {Orders[i] : i \in DOMAIN Orders}

ASSUME SimLoopAssumption ==
    /\ Orders \in Seq(Order)
    /\ \A i, j \in DOMAIN Orders : Orders[i] = Orders[j] => i = j
    /\ Quantity \in [Order -> Nat \ {0}]
    /\ Side \in [Order -> {"BUY", "SELL"}]
    /\ Held \in [Order -> Nat]
    /\ \A o \in Order : Side[o] = "SELL" => Quantity[o] <= Held[o]
    /\ MaxAttempts \in Nat \ {0}
    /\ Immediate \in BOOLEAN
    /\ MaxFaults \in Nat

Working == {"NEW", "PARTIALLY_FILLED"}
Terminal == {"FILLED", "EXPIRED", "REJECTED"}   \* EXPIRED stands for CANCELLED too
NoState == "None"
NotAtEngine == "unknown"

VARIABLES
    pc,         \* where the main task is
    at,         \* the order it submits or awaits
    tries,      \* failed attempts of the request in progress
    got,        \* the answer of GET, between its arrival and its use
    connected,  \* the handshake event of the stream
    stream,     \* "connecting", "open", "reset" (degraded is set), "closed"
    failures,   \* consecutive_failures of the stream
    cursor,     \* the seq watermark
    applied,    \* tracker.applied_qty
    final,      \* tracker.final_state
    done,       \* the orders whose tracker.done is set
    rejected,   \* the orders whose tracker.reject is set
    book,       \* the portfolio's quantity of each order's symbol
    state,      \* engine: state of each order
    filled,     \* engine: filled quantity of each order
    log,        \* engine: the events published so far; the index is the seq
    pos,        \* engine: how much of the log the open connection was sent
    faults,     \* faults so far
    lost,       \* history: seqs the connection skipped before they were received
    timedOut,   \* history: the orders whose wait for a terminal state timed out
    unpriced,   \* history: the orders settled by a GET without an average price
    unsubscribed \* history: the handshake wait timed out

mainVars == <<pc, at, tries, got>>
streamVars == <<connected, stream, failures, cursor>>
trackers == <<applied, final, done, rejected>>
engine == <<state, filled, log>>
history == <<timedOut, unpriced, unsubscribed>>
vars == <<mainVars, streamVars, trackers, book, engine, pos, faults, lost, history>>

Over == {"returned", "aborted", "oversold"}
Snapshot == [state : Working \cup Terminal \cup {NotAtEngine}, filled : Nat, priced : BOOLEAN]
NoSnapshot == [state |-> NotAtEngine, filled |-> 0, priced |-> FALSE]
Event == [order : Order, qty : Nat, state : Working \cup Terminal]

TypeOK ==
    /\ pc \in {"handshake", "submitting", "awaiting", "blocked", "getting", "got"} \cup Over
    /\ at \in 1 .. Len(Orders) + 1
    /\ tries \in 0 .. MaxAttempts - 1
    /\ got \in Snapshot
    /\ connected \in BOOLEAN
    /\ stream \in {"connecting", "open", "reset", "closed"}
    /\ failures \in 0 .. MaxAttempts
    /\ cursor \in 0 .. Len(log)
    /\ applied \in [Order -> Nat]
    /\ final \in [Order -> Terminal \cup {NoState}]
    /\ done \in SUBSET Order
    /\ rejected \in SUBSET Order
    /\ book \in [Order -> Nat]
    /\ state \in [Order -> Working \cup Terminal \cup {NotAtEngine}]
    /\ filled \in [Order -> Nat]
    /\ log \in Seq(Event)
    /\ pos \in 0 .. Len(log)
    /\ faults \in 0 .. MaxFaults
    /\ lost \in SUBSET (1 .. Len(log))
    /\ timedOut \in SUBSET Order
    /\ unpriced \in SUBSET Order
    /\ unsubscribed \in BOOLEAN

Init ==
    /\ pc = "handshake" /\ at = 1 /\ tries = 0 /\ got = NoSnapshot
    /\ connected = FALSE /\ stream = "connecting" /\ failures = 0 /\ cursor = 0
    /\ applied = [o \in Order |-> 0]
    /\ final = [o \in Order |-> NoState]
    /\ done = {} /\ rejected = {}
    /\ book = Held
    /\ state = [o \in Order |-> NotAtEngine]
    /\ filled = [o \in Order |-> 0]
    /\ log = <<>> /\ pos = 0
    /\ faults = 0 /\ lost = {} /\ timedOut = {} /\ unpriced = {}
    /\ unsubscribed = FALSE

Running == pc \notin Over
Current == Orders[at]

Fault == faults < MaxFaults /\ faults' = faults + 1

\* An exception leaves a task: the TaskGroup cancels the other one and run_sim_loop
\* raises.  The book keeps what was applied to it.
Abort(reason) == pc' = reason /\ stream' = "closed"

-----------------------------------------------------------------------------
(* The engine *)

\* What a POST of an unknown client_order_id leads to before it is answered.
Executions(o) ==
    IF Immediate
    THEN {<<[order |-> o, qty |-> Quantity[o], state |-> "FILLED"]>>}
         \cup {<<[order |-> o, qty |-> n, state |-> "PARTIALLY_FILLED"],
                 [order |-> o, qty |-> Quantity[o] - n, state |-> "FILLED"]>> :
                 n \in 1 .. Quantity[o] - 1}
         \cup {<<[order |-> o, qty |-> 0, state |-> "EXPIRED"]>>}
    ELSE {<<>>}

\* A known client_order_id is answered 200 and changes nothing.
Accept(o) ==
    \/ /\ state[o] = NotAtEngine
       /\ \E events \in Executions(o) :
            LET s == IF events = <<>> THEN "NEW" ELSE events[Len(events)].state IN
            /\ log' = log \o events
            /\ state' = [state EXCEPT ![o] = s]
            /\ filled' = [filled EXCEPT ![o] = IF s = "FILLED" THEN Quantity[o] ELSE 0]
    \/ /\ state[o] # NotAtEngine
       /\ UNCHANGED engine

\* A working order is filled in part or in full.
EngineFill(o) ==
    /\ Running
    /\ state[o] \in Working
    /\ \E n \in 1 .. Quantity[o] - filled[o] :
        LET s == IF filled[o] + n = Quantity[o] THEN "FILLED" ELSE "PARTIALLY_FILLED" IN
        /\ filled' = [filled EXCEPT ![o] = @ + n]
        /\ state' = [state EXCEPT ![o] = s]
        /\ log' = Append(log, [order |-> o, qty |-> n, state |-> s])
    /\ UNCHANGED <<mainVars, streamVars, trackers, book, pos, faults, lost, history>>

EngineExpire(o) ==
    /\ Running
    /\ state[o] \in Working
    /\ state' = [state EXCEPT ![o] = "EXPIRED"]
    /\ log' = Append(log, [order |-> o, qty |-> 0, state |-> "EXPIRED"])
    /\ UNCHANGED <<filled, mainVars, streamVars, trackers, book, pos, faults, lost, history>>

-----------------------------------------------------------------------------
(* SimPortfolio.apply_fill with the tracker's applied_qty *)

\* Faulty variant: an oversell is not refused.
AlwaysFits(o, n) == TRUE

Fits(o, n) == Side[o] = "SELL" => n <= book[o]

Apply(o, n) ==
    /\ book' = [book EXCEPT ![o] = IF Side[o] = "BUY" THEN @ + n ELSE @ - n]
    /\ applied' = [applied EXCEPT ![o] = @ + n]

-----------------------------------------------------------------------------
(* The stream task: _consume_stream over stream_updates *)

\* Where the engine starts to send: after a Last-Event-ID it replays, possibly
\* from before it; a connection without one is live only.
\*
\* Faulty variant: the reconnect asks for the event after the next one.
SkipsOne == IF cursor > 0 /\ cursor < Len(log) THEN {cursor + 1} ELSE {Len(log)}

Resume == IF cursor > 0 THEN 0 .. cursor ELSE {Len(log)}

\* Faulty variant: no watermark, every event received is yielded.
NoWatermark(seq) == TRUE

IsNew(seq) == seq > cursor

Connect ==
    /\ Running
    /\ stream = "connecting"
    /\ stream' = "open"
    /\ connected' = TRUE
    /\ pos' \in Resume
    /\ lost' = IF cursor > 0 THEN lost ELSE lost \cup 1 .. pos'
    /\ UNCHANGED <<mainVars, failures, cursor, trackers, book, engine, faults, history>>

\* The connection cannot be made, breaks or ends: reconnect, up to max_attempts
\* failures in a row.
StreamDrops ==
    /\ Running
    /\ stream \in {"connecting", "open"}
    /\ Fault
    /\ failures' = failures + 1
    /\ IF failures' >= MaxAttempts
       THEN Abort("aborted")
       ELSE stream' = "connecting" /\ UNCHANGED pc
    /\ UNCHANGED <<at, tries, got, connected, cursor, trackers, book, engine, pos, lost, history>>

\* The open is refused, or a frame cannot be read: not retried.
StreamRefused ==
    /\ Running
    /\ stream \in {"connecting", "open"}
    /\ Fault
    /\ Abort("aborted")
    /\ UNCHANGED <<at, tries, got, connected, failures, cursor, trackers, book, engine, pos, lost,
                   history>>

\* resync_required: degraded is set and the task returns.
StreamReset ==
    /\ Running
    /\ stream = "open"
    /\ Fault
    /\ stream' = "reset"
    /\ UNCHANGED <<mainVars, connected, failures, cursor, trackers, book, engine, pos, lost, history>>

\* A gap advisory is only logged: the events it stands for never come.
StreamGap ==
    /\ Running
    /\ stream = "open"
    /\ Fault
    /\ \E n \in pos + 1 .. Len(log) :
        /\ pos' = n
        /\ lost' = lost \cup {s \in pos + 1 .. n : s > cursor}
    /\ UNCHANGED <<mainVars, streamVars, trackers, book, engine, history>>

\* The next frame, and _apply_event unless the watermark drops it.
Deliver ==
    LET seq == pos + 1
        e == log[seq]
    IN
    /\ Running
    /\ stream = "open"
    /\ pos < Len(log)
    /\ pos' = seq
    /\ failures' = 0
    /\ IF ~IsNew(seq)
       THEN UNCHANGED <<pc, stream, cursor, trackers, book>>
       ELSE /\ cursor' = seq
            /\ UNCHANGED rejected
            /\ IF Fits(e.order, e.qty)
               THEN /\ Apply(e.order, e.qty)
                    /\ IF e.state \in Terminal
                       THEN /\ final' = [final EXCEPT ![e.order] = e.state]
                            /\ done' = done \cup {e.order}
                       ELSE UNCHANGED <<final, done>>
                    /\ UNCHANGED <<pc, stream>>
               ELSE /\ Abort("oversold")
                    /\ UNCHANGED <<book, applied, final, done>>
    /\ UNCHANGED <<at, tries, got, connected, engine, faults, lost, history>>

-----------------------------------------------------------------------------
(* The main task: subscribe, then submit *)

\* Faulty variant: the first POST does not wait for the handshake.
SubmitAtOnce ==
    /\ pc = "handshake"
    /\ pc' = "submitting"
    /\ UNCHANGED <<at, tries, got, streamVars, trackers, book, engine, pos, faults, lost, history>>

HandshakeDone ==
    /\ pc = "handshake"
    /\ connected
    /\ pc' = "submitting"
    /\ UNCHANGED <<at, tries, got, streamVars, trackers, book, engine, pos, faults, lost, history>>

HandshakeTimeout ==
    /\ pc = "handshake"
    /\ ~connected
    /\ pc' = "submitting"
    /\ unsubscribed' = TRUE
    /\ UNCHANGED <<at, tries, got, streamVars, trackers, book, engine, pos, faults, lost, timedOut,
                   unpriced>>

\* 201, or 200 for an order that an earlier attempt already created.
PostAccepted ==
    /\ pc = "submitting" /\ at <= Len(Orders)
    /\ Accept(Current)
    /\ at' = at + 1
    /\ tries' = 0
    /\ UNCHANGED <<pc, got, streamVars, trackers, book, pos, faults, lost, history>>

\* A transport error or a bare 5xx, before or after the engine took the order:
\* the same client_order_id is sent again.
PostUnanswered ==
    /\ pc = "submitting" /\ at <= Len(Orders)
    /\ Fault
    /\ Accept(Current) \/ UNCHANGED engine
    /\ IF tries + 1 < MaxAttempts
       THEN tries' = tries + 1 /\ UNCHANGED <<pc, stream>>
       ELSE Abort("aborted") /\ UNCHANGED tries
    /\ UNCHANGED <<at, got, connected, failures, cursor, trackers, book, pos, lost, history>>

\* A typed rejection: the order is settled, and the batch goes on.
PostRejected ==
    /\ pc = "submitting" /\ at <= Len(Orders)
    /\ state[Current] = NotAtEngine
    /\ rejected' = rejected \cup {Current}
    /\ final' = [final EXCEPT ![Current] = "REJECTED"]
    /\ done' = done \cup {Current}
    /\ at' = at + 1
    /\ tries' = 0
    /\ UNCHANGED <<pc, got, streamVars, applied, book, engine, pos, faults, lost, history>>

\* An unparseable 4xx or answer, of POST or of GET, and a typed envelope of GET:
\* neither loop catches the exception.
RequestRefused ==
    /\ \/ pc = "submitting" /\ at <= Len(Orders)
       \/ pc = "getting"
    /\ Fault
    /\ Abort("aborted")
    /\ UNCHANGED <<at, tries, got, connected, failures, cursor, trackers, book, engine, pos, lost,
                   history>>

SubmitEnds ==
    /\ pc = "submitting" /\ at > Len(Orders)
    /\ pc' = "awaiting"
    /\ at' = 1
    /\ UNCHANGED <<tries, got, streamVars, trackers, book, engine, pos, faults, lost, history>>

-----------------------------------------------------------------------------
(* The main task: _await_all_terminal and _reconcile_via_get *)

\* done is tested first, then degraded; only then does the task wait.
AwaitNext ==
    /\ pc = "awaiting" /\ at <= Len(Orders)
    /\ IF Current \in done
       THEN at' = at + 1 /\ UNCHANGED pc
       ELSE pc' = (IF stream = "reset" THEN "getting" ELSE "blocked") /\ UNCHANGED at
    /\ UNCHANGED <<tries, got, streamVars, trackers, book, engine, pos, faults, lost, history>>

Settled ==
    /\ pc = "blocked"
    /\ Current \in done
    /\ pc' = "awaiting"
    /\ at' = at + 1
    /\ UNCHANGED <<tries, got, streamVars, trackers, book, engine, pos, faults, lost, history>>

\* Faulty variant: the wait has no timeout while the stream is up.
TimesOutWhenReset ==
    /\ pc = "blocked"
    /\ stream = "reset"
    /\ pc' = "getting"
    /\ timedOut' = timedOut \cup {Current}
    /\ UNCHANGED <<at, tries, got, streamVars, trackers, book, engine, pos, faults, lost, unpriced,
                   unsubscribed>>

\* asyncio.timeout fires.  It may do so when done was set and the task has not
\* run yet.
TimesOut ==
    /\ pc = "blocked"
    /\ pc' = "getting"
    /\ timedOut' = timedOut \cup {Current}
    /\ UNCHANGED <<at, tries, got, streamVars, trackers, book, engine, pos, faults, lost, unpriced,
                   unsubscribed>>

\* The engine answers; the stream task may run before the answer is used.  An answer
\* without avg_fill_price, which the client allows for, counts as a fault.
GetAnswered ==
    /\ pc = "getting"
    /\ pc' = "got"
    /\ \E priced \in BOOLEAN :
        /\ got' = [state |-> state[Current], filled |-> filled[Current], priced |-> priced]
        /\ IF priced THEN UNCHANGED faults ELSE Fault
    /\ tries' = 0
    /\ UNCHANGED <<at, streamVars, trackers, book, engine, pos, lost, history>>

GetUnanswered ==
    /\ pc = "getting"
    /\ Fault
    /\ IF tries + 1 < MaxAttempts
       THEN tries' = tries + 1 /\ UNCHANGED <<pc, stream>>
       ELSE Abort("aborted") /\ UNCHANGED tries
    /\ UNCHANGED <<at, got, connected, failures, cursor, trackers, book, engine, pos, lost, history>>

\* Faulty variant: the order is settled and its residual left out.
NoResidual == 0

Residual == IF got.filled > applied[Current] THEN got.filled - applied[Current] ELSE 0

\* The residual is taken against what is applied now, not when GET was sent.  Without
\* an average price it is not booked, and the order is settled all the same.
Reconcile ==
    /\ pc = "got"
    /\ got' = NoSnapshot
    /\ \/ /\ got.state \notin Terminal
          /\ final' = [final EXCEPT ![Current] = NoState]
          /\ pc' = "awaiting" /\ at' = at + 1
          /\ UNCHANGED <<stream, applied, done, book, unpriced>>
       \/ /\ got.state \in Terminal
          /\ got.priced => Fits(Current, Residual)
          /\ IF got.priced
             THEN Apply(Current, Residual) /\ UNCHANGED unpriced
             ELSE /\ unpriced' = IF Residual > 0 THEN unpriced \cup {Current} ELSE unpriced
                  /\ UNCHANGED <<applied, book>>
          /\ final' = [final EXCEPT ![Current] = got.state]
          /\ done' = done \cup {Current}
          /\ pc' = "awaiting" /\ at' = at + 1
          /\ UNCHANGED stream
       \/ /\ got.state \in Terminal /\ got.priced /\ ~Fits(Current, Residual)
          /\ Abort("oversold")
          /\ UNCHANGED <<at, applied, final, done, book, unpriced>>
    /\ UNCHANGED <<tries, connected, failures, cursor, rejected, engine, pos, faults, lost,
                   timedOut, unsubscribed>>

\* Every order was awaited: the stream task is cancelled and the book returned.
Return ==
    /\ pc = "awaiting" /\ at > Len(Orders)
    /\ pc' = "returned"
    /\ stream' = "closed"
    /\ UNCHANGED <<at, tries, got, connected, failures, cursor, trackers, book, engine, pos, faults,
                   lost, history>>

-----------------------------------------------------------------------------
Main ==
    \/ HandshakeDone \/ HandshakeTimeout
    \/ PostAccepted \/ PostUnanswered \/ PostRejected \/ RequestRefused \/ SubmitEnds
    \/ AwaitNext \/ Settled \/ TimesOut
    \/ GetAnswered \/ GetUnanswered \/ Reconcile
    \/ Return

Next ==
    \/ Main
    \/ Connect \/ StreamDrops \/ StreamRefused \/ StreamReset \/ StreamGap \/ Deliver
    \/ \E o \in Order : EngineFill(o) \/ EngineExpire(o)

Spec == Init /\ [][Next]_vars

\* Every await of the main task has a timeout or a bounded number of retries, and
\* the event loop runs it when it is ready.  Nothing is assumed of the stream or
\* of the engine.
FairSpec == Spec /\ WF_vars(Main)

-----------------------------------------------------------------------------
(* Properties *)

\* "Single-source fills": through retried POSTs, reconnects, replays and resets,
\* the book never runs ahead of the engine for an order that did not time out.
\* Running ahead is what oversells, so the run is never given up for an oversell
\* unless a wait timed out first.
AheadOnlyAfterTimeout ==
    /\ \A o \in Order : applied[o] > filled[o] => o \in timedOut
    /\ pc = "oversold" => timedOut # {}

\* An order that is settled is in the book with everything the engine filled,
\* whether the last fill came by the stream or as the residual of a GET.  Short of it
\* is only an order whose GET came without an average price, or one of which the
\* connection skipped an event, and, since the loop subscribes before it submits, the
\* latter only after a handshake timeout or a failure.
SettledIsComplete ==
    \A o \in done : applied[o] < filled[o] =>
        \/ o \in unpriced
        \/ /\ \E s \in lost : log[s].order = o
           /\ unsubscribed \/ faults > 0

\* The run ends, whatever the stream and the engine do or fail to do.
LoopEnds == <>(pc \in Over)

-----------------------------------------------------------------------------
(* What the documentation says and the code does not do *)

\* "kills the ack-already-FILLED + replay double-count class": the book never
\* holds more of an order than the engine filled.
NeverCountsTwice == \A o \in Order : applied[o] <= filled[o]

\* "the GET-residual path still guarantees correctness" when the handshake times
\* out: at the return, an order reported terminal is in the book in full.
GuaranteedByGet ==
    pc = "returned" =>
        \A o \in Order : final[o] \in Terminal => applied[o] >= filled[o]
=============================================================================
