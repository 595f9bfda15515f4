---------------------------- MODULE SimLoopProofs ----------------------------
(***************************************************************************)
(* What one run of the sim loop guarantees for any list of orders, any     *)
(* retry limit and any number of faults: the book runs ahead of the engine *)
(* only after a wait timed out, and an order that is settled is in the     *)
(* book in full unless the connection skipped one of its events.           *)
(***************************************************************************)
EXTENDS SimLoop, TLAPS

(***************************************************************************)
(* The watermark counts events, the book counts shares: what joins them is *)
(* how many shares of an order the engine had published up to each event.  *)
(* The invariant says that there is such a tally, and carries with it what *)
(* would otherwise take an induction over the log: it never falls, and it  *)
(* rises only past an event of the order.                                  *)
(***************************************************************************)
QtyOf(e, o) == IF e.order = o THEN e.qty ELSE 0

Tally(c, events) ==
    \A o \in Order :
        /\ c[o][0] = 0
        /\ \A i \in 1 .. Len(events) : c[o][i] = c[o][i - 1] + QtyOf(events[i], o)
        /\ \A i \in 0 .. Len(events) : \A j \in i .. Len(events) :
            /\ c[o][i] <= c[o][j]
            /\ c[o][i] = c[o][j] \/ \E k \in i + 1 .. j : events[k].order = o

\* A terminal state is the last the engine says of an order, and what it has filled of
\* one is what it has published.
EngineOK(c, st, fl, events) ==
    /\ c \in [Order -> [Nat -> Nat]]
    /\ st \in [Order -> Working \cup Terminal \cup {NotAtEngine}]
    /\ fl \in [Order -> Nat]
    /\ events \in Seq(Event)
    /\ Tally(c, events)
    /\ \A o \in Order :
        /\ fl[o] <= Quantity[o]
        /\ st[o] = NotAtEngine => fl[o] = 0
        /\ c[o][Len(events)] = fl[o]
    /\ \A k \in 1 .. Len(events) :
        events[k].state \in Terminal =>
            /\ st[events[k].order] \in Terminal
            /\ \A m \in k + 1 .. Len(events) : events[m].order # events[k].order

\* The connection skipped an event of the order.
Missed(o) == \E s \in lost : log[s].order = o

\* The book against the tally at the watermark: no less, unless an event was skipped or
\* the last one did not fit; no more, unless the wait timed out or the residuals are taken with the stream over.
Balance(c) ==
    \A o \in Order :
        /\ pc = "oversold" \/ Missed(o) \/ c[o][cursor] <= applied[o]
        /\ \/ o \in timedOut
           \/ applied[o] <= c[o][cursor]
           \/ stream \in {"reset", "closed"} /\ applied[o] <= filled[o]

Accounted == \E c \in [Order -> [Nat -> Nat]] : EngineOK(c, state, filled, log) /\ Balance(c)

\* The book moves by what is applied, and by nothing else.
BookMoves ==
    \A o \in Order :
        book[o] = IF Side[o] = "BUY" THEN Held[o] + applied[o] ELSE Held[o] - applied[o]

\* Where the main task is: before the handshake nothing is at the engine, and it awaits
\* an order of the list.
InPlace ==
    /\ pc = "handshake" =>
        at = 1 /\ log = <<>> /\ rejected = {} /\ \A o \in Order : state[o] = NotAtEngine
    /\ pc \in {"blocked", "getting", "got"} => at <= Len(Orders)
    /\ pc \notin Over => stream # "closed"
    /\ stream \in {"connecting", "open"} => failures < MaxAttempts

\* A refused order never reaches the engine.
RefusedIsUnknown ==
    /\ \A i \in DOMAIN Orders : pc = "submitting" /\ Orders[i] \in rejected => i < at
    /\ \A o \in rejected : o \in done /\ state[o] = NotAtEngine

\* A settled order is final at the engine, and in the book unless an event was skipped
\* or its GET came without a price.
DoneIsFinal ==
    \A o \in done :
        /\ state[o] \in Terminal \/ o \in rejected
        /\ Missed(o) \/ o \in unpriced \/ filled[o] <= applied[o]

\* A GET is sent after a timeout or once the stream is over, and its terminal answer is
\* still true when it is used.
AnswerHolds ==
    /\ pc \in {"getting", "got"} => Current \in timedOut \/ stream \in {"reset", "closed"}
    /\ pc = "got" =>
        /\ got.filled <= filled[Current]
        /\ got.state \in Terminal => state[Current] = got.state /\ filled[Current] = got.filled

\* What lies between the watermark and the connection was skipped; and a connection
\* skips only what was published before it was made, or after a fault.
Skipped ==
    /\ stream = "open" => cursor + 1 .. pos \subseteq lost
    /\ lost # {} => unsubscribed \/ faults > 0
    /\ stream = "connecting" /\ connected => faults > 0
    /\ pc \notin {"handshake"} \cup Over => connected \/ unsubscribed

OversoldLate == pc = "oversold" => timedOut # {}

IInv ==
    /\ TypeOK
    /\ InPlace
    /\ BookMoves
    /\ RefusedIsUnknown
    /\ DoneIsFinal
    /\ AnswerHolds
    /\ Skipped
    /\ OversoldLate
    /\ Accounted

-----------------------------------------------------------------------------
(* The tally of a log that grows *)

LEMMA LenIsNat == ASSUME NEW S, NEW events \in Seq(S) PROVE Len(events) \in Nat
OBVIOUS

LEMMA RangesGrow ==
    ASSUME NEW m \in Nat, NEW n \in Nat, m <= n
    PROVE  0 .. m \subseteq 0 .. n /\ 1 .. m \subseteq 1 .. n
OBVIOUS

LEMMA AnswerFields ==
    ASSUME TypeOK
    PROVE  got.filled \in Nat /\ got.state \in Working \cup Terminal \cup {NotAtEngine}
BY DEF TypeOK, Snapshot, NoSnapshot

\* The order the main task is at.
LEMMA CurrentIsOrder ==
    /\ Len(Orders) \in Nat /\ DOMAIN Orders = 1 .. Len(Orders)
    /\ at \in 1 .. Len(Orders) => Current \in Order
<1>1. Len(Orders) \in Nat /\ DOMAIN Orders = 1 .. Len(Orders)
  BY SimLoopAssumption DEF SimLoopAssumption
<1> QED BY <1>1 DEF Current, Order

\* One more event: the tally before it stands, and at it rises by its quantity.
LEMMA TallyExtends ==
    ASSUME NEW c \in [Order -> [Nat -> Nat]], NEW events \in Seq(Event), Tally(c, events),
           NEW e \in Event
    PROVE  \E d \in [Order -> [Nat -> Nat]] :
             /\ Tally(d, Append(events, e))
             /\ \A o \in Order : \A i \in 0 .. Len(events) : d[o][i] = c[o][i]
             /\ \A o \in Order : d[o][Len(events) + 1] = c[o][Len(events)] + QtyOf(e, o)
<1> DEFINE n == Len(events)
           more == Append(events, e)
           d == [o \in Order |-> [i \in Nat |-> IF i <= n THEN c[o][i]
                                                ELSE c[o][n] + QtyOf(e, o)]]
<1>1. n \in Nat /\ Len(more) = n + 1 /\ more[n + 1] = e
      /\ \A k \in 1 .. n : more[k] = events[k]
  OBVIOUS
<1>2. \A o \in Order : QtyOf(e, o) \in Nat
  BY DEF QtyOf, Event
<1>3. \A o \in Order, i \in Nat : c[o][i] \in Nat
  OBVIOUS
<1>4. \A o \in Order, i \in Nat : c[o][n] + QtyOf(e, o) \in Nat
  <2>1. \A o \in Order : c[o][n] \in Nat /\ QtyOf(e, o) \in Nat
    BY <1>1, <1>2, <1>3
  <2>2. \A a, b \in Nat : a + b \in Nat
    OBVIOUS
  <2> HIDE DEF n
  <2> QED BY <2>1, <2>2
<1>5. d \in [Order -> [Nat -> Nat]]
  BY <1>3, <1>4
<1>6. \A o \in Order, i \in Nat : d[o][i] = IF i <= n THEN c[o][i] ELSE c[o][n] + QtyOf(e, o)
  OBVIOUS
<1> HIDE DEF n, more, d
<1>7. \A o \in Order : \A i \in 0 .. n : d[o][i] = c[o][i]
  BY <1>1, <1>6
<1>8. \A o \in Order : d[o][n + 1] = c[o][n] + QtyOf(e, o)
  BY <1>1, <1>6
<1>9. ASSUME NEW o \in Order
      PROVE  /\ d[o][0] = 0
             /\ \A i \in 1 .. n + 1 : d[o][i] = d[o][i - 1] + QtyOf(more[i], o)
             /\ \A i \in 0 .. n + 1 : \A j \in i .. n + 1 :
                 /\ d[o][i] <= d[o][j]
                 /\ d[o][i] = d[o][j] \/ \E k \in i + 1 .. j : more[k].order = o
  <2>1. /\ c[o][0] = 0
        /\ \A i \in 1 .. n : c[o][i] = c[o][i - 1] + QtyOf(events[i], o)
        /\ \A i \in 0 .. n : \A j \in i .. n :
            /\ c[o][i] <= c[o][j]
            /\ c[o][i] = c[o][j] \/ \E k \in i + 1 .. j : events[k].order = o
    BY DEF Tally, n
  <2>2. d[o][0] = 0
    BY <1>1, <1>7, <2>1
  <2>3. ASSUME NEW i \in 1 .. n + 1 PROVE d[o][i] = d[o][i - 1] + QtyOf(more[i], o)
    <3>1. CASE i = n + 1
      <4>1. i - 1 = n /\ n \in 0 .. n
        BY <1>1, <3>1
      <4>2. d[o][n] = c[o][n] /\ more[i] = e
        BY <1>1, <1>7, <3>1, <4>1
      <4> QED BY <1>8, <3>1, <4>1, <4>2
    <3>2. CASE i # n + 1
      <4>1. i \in 1 .. n /\ i \in 0 .. n /\ i - 1 \in 0 .. n
        BY <1>1, <3>2
      <4> QED BY <1>1, <1>7, <2>1, <4>1
    <3> QED BY <3>1, <3>2
  <2>4. ASSUME NEW i \in 0 .. n + 1, NEW j \in i .. n + 1
        PROVE  /\ d[o][i] <= d[o][j]
               /\ d[o][i] = d[o][j] \/ \E k \in i + 1 .. j : more[k].order = o
    <3>1. CASE j <= n
      <4>1. i \in 0 .. n /\ j \in i .. n /\ j \in 0 .. n
        BY <1>1, <3>1
      <4>2. d[o][i] = c[o][i] /\ d[o][j] = c[o][j]
        BY <1>7, <4>1
      <4>3. \A k \in i + 1 .. j : more[k] = events[k]
        BY <1>1, <4>1
      <4> QED BY <2>1, <4>1, <4>2, <4>3
    <3>2. CASE j = n + 1 /\ i = n + 1
      <4>1. d[o][i] = d[o][j] /\ d[o][j] \in Nat
        BY <1>5, <3>2
      <4> QED BY <4>1
    <3>3. CASE j = n + 1 /\ i <= n
      <4>1. i \in 0 .. n /\ n \in i .. n /\ n \in 0 .. n /\ i \in Nat
        BY <1>1, <3>3
      <4>2. d[o][i] = c[o][i] /\ d[o][j] = c[o][n] + QtyOf(e, o)
        BY <1>7, <1>8, <3>3, <4>1
      <4>3. c[o][i] <= c[o][n] /\ c[o][i] \in Nat /\ c[o][n] \in Nat /\ QtyOf(e, o) \in Nat
        BY <1>1, <1>2, <1>3, <2>1, <4>1
      <4>4. d[o][i] <= d[o][j]
        <5>1. \A a, b, q \in Nat : a <= b => a <= b + q
          OBVIOUS
        <5> QED BY <4>2, <4>3, <5>1
      <4>5. CASE e.order = o
        <5>1. n + 1 \in i + 1 .. j /\ more[n + 1].order = o
          BY <1>1, <3>3, <4>1, <4>5
        <5> QED BY <4>4, <5>1
      <4>6. CASE e.order # o
        <5>1. d[o][j] = c[o][n]
          BY SMTT(30), <4>2, <4>3, <4>6 DEF QtyOf
        <5>2. \A k \in i + 1 .. n : k \in i + 1 .. j /\ more[k] = events[k]
          BY <1>1, <3>3, <4>1
        <5>3. c[o][i] = c[o][n] \/ \E k \in i + 1 .. n : events[k].order = o
          BY <2>1, <4>1
        <5> QED BY <4>2, <4>4, <5>1, <5>2, <5>3
      <4> QED BY <4>5, <4>6
    <3> QED BY <1>1, <3>1, <3>2, <3>3
  <2> QED BY <2>2, <2>3, <2>4
<1>10. Tally(d, more)
  <2>1. Len(more) = n + 1
    BY <1>1
  <2>2. ASSUME NEW o \in Order, NEW i \in 1 .. Len(more)
        PROVE  d[o][i] = d[o][i - 1] + QtyOf(more[i], o)
    <3>1. i \in 1 .. n + 1
      BY <2>1
    <3> QED BY <1>9, <3>1
  <2>3. ASSUME NEW o \in Order, NEW i \in 0 .. Len(more), NEW j \in i .. Len(more)
        PROVE  /\ d[o][i] <= d[o][j]
               /\ d[o][i] = d[o][j] \/ \E k \in i + 1 .. j : more[k].order = o
    <3>1. i \in 0 .. n + 1 /\ j \in i .. n + 1
      BY <2>1
    <3> QED BY <1>9, <3>1
  <2>4. \A o \in Order : d[o][0] = 0
    BY <1>9
  <2> QED BY <2>2, <2>3, <2>4 DEF Tally
<1> QED BY <1>5, <1>7, <1>8, <1>10 DEF n, more

\* From one state of the engine to a later one, x being the only order that moved.
Later(x, c, st, fl, events, d, st2, fl2, events2) ==
    /\ Len(events) <= Len(events2)
    /\ \A k \in 1 .. Len(events) : events2[k] = events[k]
    /\ \A o \in Order : \A i \in 0 .. Len(events) : d[o][i] = c[o][i]
    /\ \A o \in Order : o # x \/ st[o] \in Terminal => st2[o] = st[o] /\ fl2[o] = fl[o]
    /\ fl[x] <= fl2[x]

\* The engine publishes one event of an order that is not final.
LEMMA Publish ==
    ASSUME NEW c, NEW st, NEW fl, NEW events, EngineOK(c, st, fl, events),
           NEW x \in Order, st[x] \notin Terminal, NEW n \in Nat, fl[x] + n <= Quantity[x],
           NEW s \in Working \cup Terminal
    PROVE  \E d : LET st2 == [st EXCEPT ![x] = s]
                      fl2 == [fl EXCEPT ![x] = @ + n]
                      events2 == Append(events, [order |-> x, qty |-> n, state |-> s])
                  IN EngineOK(d, st2, fl2, events2)
                     /\ Later(x, c, st, fl, events, d, st2, fl2, events2)
<1> DEFINE st2 == [st EXCEPT ![x] = s]
           fl2 == [fl EXCEPT ![x] = @ + n]
           e == [order |-> x, qty |-> n, state |-> s]
           events2 == Append(events, e)
           len == Len(events)
<1>1. /\ c \in [Order -> [Nat -> Nat]] /\ events \in Seq(Event) /\ Tally(c, events)
      /\ st \in [Order -> Working \cup Terminal \cup {NotAtEngine}] /\ fl \in [Order -> Nat]
      /\ \A o \in Order : fl[o] <= Quantity[o] /\ (st[o] = NotAtEngine => fl[o] = 0)
                          /\ c[o][len] = fl[o]
      /\ \A k \in 1 .. len : events[k].state \in Terminal =>
            /\ st[events[k].order] \in Terminal
            /\ \A m \in k + 1 .. len : events[m].order # events[k].order
  BY DEF EngineOK
<1>2. e \in Event /\ e.order = x /\ e.qty = n /\ e.state = s
  BY DEF Event
<1>3. /\ len \in Nat /\ Len(events2) = len + 1 /\ events2[len + 1] = e
      /\ \A k \in 1 .. len : events2[k] = events[k] /\ events[k] \in Event
                            /\ events[k].order \in Order
      /\ events2 \in Seq(Event)
  <2> HIDE DEF e
  <2>1. \A f \in Event : f.order \in Order
    BY DEF Event
  <2>2. /\ len \in Nat /\ Len(events2) = len + 1 /\ events2[len + 1] = e
        /\ events2 \in Seq(Event)
    BY SMTT(30), <1>1, <1>2
  <2>3. \A k \in 1 .. len : events2[k] = events[k] /\ events[k] \in Event
    BY <1>1, <1>2
  <2> QED BY <2>1, <2>2, <2>3
<1>4. \A o \in Order : /\ st2[o] = IF o = x THEN s ELSE st[o]
                       /\ fl2[o] = IF o = x THEN fl[x] + n ELSE fl[o]
  BY <1>1
<1>5. /\ st2 \in [Order -> Working \cup Terminal \cup {NotAtEngine}]
      /\ fl2 \in [Order -> Nat]
  <2>1. fl[x] + n \in Nat
    BY SMTT(30), <1>1
  <2> QED BY <1>1, <2>1
<1>6. PICK d \in [Order -> [Nat -> Nat]] :
        /\ Tally(d, events2)
        /\ \A o \in Order : \A i \in 0 .. len : d[o][i] = c[o][i]
        /\ \A o \in Order : d[o][len + 1] = c[o][len] + QtyOf(e, o)
  <2> HIDE DEF e, st2, fl2
  <2>1. \E d \in [Order -> [Nat -> Nat]] :
          /\ Tally(d, Append(events, e))
          /\ \A o \in Order : \A i \in 0 .. Len(events) : d[o][i] = c[o][i]
          /\ \A o \in Order : d[o][Len(events) + 1] = c[o][Len(events)] + QtyOf(e, o)
    <3>1. c \in [Order -> [Nat -> Nat]] /\ events \in Seq(Event) /\ Tally(c, events) /\ e \in Event
      BY <1>1, <1>2
    <3> HIDE DEF events2, len
    <3> QED BY <3>1, TallyExtends
  <2>2. events2 = Append(events, e) /\ len = Len(events)
    OBVIOUS
  <2> HIDE DEF events2, len
  <2> QED BY <2>1, <2>2
<1> HIDE DEF st2, fl2, e, events2, len
<1>7. \A o \in Order : d[o][len + 1] = fl2[o]
  <2> SUFFICES ASSUME NEW o \in Order PROVE d[o][len + 1] = fl2[o]
    OBVIOUS
  <2>1. d[o][len + 1] = fl[o] + QtyOf(e, o) /\ fl[o] \in Nat
    BY <1>1, <1>6
  <2>2. QtyOf(e, o) = IF o = x THEN n ELSE 0
    BY <1>2 DEF QtyOf
  <2>3. fl2[o] = IF o = x THEN fl[o] + n ELSE fl[o]
    BY <1>4
  <2> QED BY <2>1, <2>2, <2>3
<1>8. s # NotAtEngine
  BY DEF Working, Terminal, NotAtEngine
<1>9. \A o \in Order : fl2[o] <= Quantity[o] /\ (st2[o] = NotAtEngine => fl2[o] = 0)
  BY <1>1, <1>4, <1>8
<1>10. ASSUME NEW k \in 1 .. len + 1, events2[k].state \in Terminal
       PROVE  /\ st2[events2[k].order] \in Terminal
              /\ \A m \in k + 1 .. len + 1 : events2[m].order # events2[k].order
  <2>1. CASE k = len + 1
    <3>1. st2[x] = s /\ events2[k] = e
      BY <1>3, <1>4, <2>1
    <3>2. k + 1 .. len + 1 = {}
      BY <1>3, <2>1
    <3> QED BY <1>2, <1>10, <3>1, <3>2
  <2>2. CASE k # len + 1
    <3>1. k \in 1 .. len
      BY <1>3, <2>2
    <3>2. events2[k] = events[k] /\ events[k].order \in Order
      BY <1>3, <3>1
    <3>3. /\ st[events[k].order] \in Terminal
          /\ \A m \in k + 1 .. len : events[m].order # events[k].order
      BY <1>1, <1>10, <3>1, <3>2
    <3>4. events[k].order # x
      BY <3>3
    <3>5. ASSUME NEW m \in k + 1 .. len + 1 PROVE events2[m].order # events[k].order
      <4>1. CASE m = len + 1
        BY <1>2, <1>3, <3>4, <4>1
      <4>2. CASE m # len + 1
        <5>1. m \in k + 1 .. len /\ m \in 1 .. len
          <6>1. k \in Nat /\ m \in Int /\ k + 1 <= m /\ m <= len + 1 /\ 1 <= k /\ len \in Nat
            BY <1>3, <3>1
          <6> QED BY <4>2, <6>1
        <5> QED BY <1>3, <3>3, <5>1
      <4> QED BY <4>1, <4>2
    <3> QED BY <1>4, <3>2, <3>3, <3>4, <3>5
  <2> QED BY <2>1, <2>2
<1>11. EngineOK(d, st2, fl2, events2)
  BY <1>3, <1>5, <1>6, <1>7, <1>9, <1>10 DEF EngineOK
<1>12. Later(x, c, st, fl, events, d, st2, fl2, events2)
  <2>1. len <= Len(events2) /\ \A k \in 1 .. len : events2[k] = events[k]
    BY SMTT(30), <1>3
  <2>2. fl[x] <= fl2[x]
    <3>1. fl[x] \in Nat /\ fl2[x] = fl[x] + n
      BY <1>1, <1>4
    <3> QED BY <3>1
  <2> QED BY <1>4, <1>6, <2>1, <2>2 DEF Later, len
<1> QED BY <1>11, <1>12 DEF st2, fl2, e, events2

\* An order taken and not executed yet.
LEMMA TakesNew ==
    ASSUME NEW c, NEW st, NEW fl, NEW events, EngineOK(c, st, fl, events),
           NEW x \in Order, st[x] = NotAtEngine
    PROVE  LET st2 == [st EXCEPT ![x] = "NEW"]
           IN EngineOK(c, st2, fl, events) /\ Later(x, c, st, fl, events, c, st2, fl, events)
<1> DEFINE st2 == [st EXCEPT ![x] = "NEW"]
<1>1. /\ st \in [Order -> Working \cup Terminal \cup {NotAtEngine}] /\ fl \in [Order -> Nat]
      /\ events \in Seq(Event)
  BY DEF EngineOK
<1>2. \A o \in Order : st2[o] = IF o = x THEN "NEW" ELSE st[o]
  BY <1>1
<1>3. st2 \in [Order -> Working \cup Terminal \cup {NotAtEngine}]
  BY <1>1 DEF Working
<1>4. st[x] \notin Terminal /\ "NEW" # NotAtEngine
  BY DEF Terminal, NotAtEngine
<1>5. \A k \in 1 .. Len(events) : events[k].order \in Order
  <2>1. \A k \in 1 .. Len(events) : events[k] \in Event
    BY <1>1
  <2> QED BY <2>1 DEF Event
<1> HIDE DEF st2
<1>6. EngineOK(c, st2, fl, events)
  BY <1>2, <1>3, <1>4, <1>5 DEF EngineOK
<1>7. Later(x, c, st, fl, events, c, st2, fl, events)
  BY <1>1, <1>2, <1>4 DEF Later
<1> QED BY <1>6, <1>7 DEF st2

LEMMA LaterComposes ==
    ASSUME NEW x \in Order, NEW c, NEW st, NEW fl \in [Order -> Nat], NEW events \in Seq(Event),
           NEW d, NEW st2, NEW fl2 \in [Order -> Nat], NEW events2 \in Seq(Event),
           NEW g, NEW st3, NEW fl3 \in [Order -> Nat], NEW events3 \in Seq(Event),
           st[x] \notin Terminal,
           Later(x, c, st, fl, events, d, st2, fl2, events2),
           Later(x, d, st2, fl2, events2, g, st3, fl3, events3)
    PROVE  Later(x, c, st, fl, events, g, st3, fl3, events3)
<1>1. Len(events) \in Nat /\ Len(events2) \in Nat /\ Len(events3) \in Nat
  OBVIOUS
<1>2. /\ Len(events) <= Len(events2) /\ Len(events2) <= Len(events3)
      /\ \A k \in 1 .. Len(events) : events2[k] = events[k]
      /\ \A k \in 1 .. Len(events2) : events3[k] = events2[k]
      /\ \A o \in Order : \A i \in 0 .. Len(events) : d[o][i] = c[o][i]
      /\ \A o \in Order : \A i \in 0 .. Len(events2) : g[o][i] = d[o][i]
      /\ \A o \in Order : o # x => st2[o] = st[o] /\ fl2[o] = fl[o]
      /\ \A o \in Order : o # x => st3[o] = st2[o] /\ fl3[o] = fl2[o]
      /\ fl[x] <= fl2[x] /\ fl2[x] <= fl3[x]
  BY DEF Later
<1>3. \A k \in 1 .. Len(events) : events3[k] = events[k]
  BY <1>1, <1>2
<1>4. \A o \in Order : \A i \in 0 .. Len(events) : g[o][i] = c[o][i]
  BY <1>1, <1>2
<1>5. fl[x] <= fl3[x] /\ Len(events) <= Len(events3)
  <2>1. fl[x] \in Nat /\ fl2[x] \in Nat /\ fl3[x] \in Nat
    OBVIOUS
  <2> QED BY <1>1, <1>2, <2>1
<1> QED BY <1>2, <1>3, <1>4, <1>5 DEF Later

LEMMA LaterIsReflexive ==
    ASSUME NEW c, NEW st, NEW fl, NEW events, EngineOK(c, st, fl, events), NEW x \in Order
    PROVE  Later(x, c, st, fl, events, c, st, fl, events)
<1>1. Len(events) \in Nat /\ fl[x] \in Nat
  BY DEF EngineOK
<1> QED BY <1>1 DEF Later

\* What a POST leads to at the engine, answered or not.
LEMMA AcceptGoesOn ==
    ASSUME NEW c, EngineOK(c, state, filled, log), NEW x \in Order,
           Accept(x) \/ UNCHANGED engine
    PROVE  /\ \E d : /\ EngineOK(d, state', filled', log')
                     /\ Later(x, c, state, filled, log, d, state', filled', log')
           /\ state'[x] # state[x] => state[x] = NotAtEngine
<1>1. CASE UNCHANGED engine
  BY <1>1, LaterIsReflexive DEF engine
<1>2. CASE Accept(x) /\ state[x] # NotAtEngine
  BY <1>1, <1>2 DEF Accept
<1>3. CASE Accept(x) /\ state[x] = NotAtEngine
  <2>1. PICK events \in Executions(x) :
          LET s == IF events = <<>> THEN "NEW" ELSE events[Len(events)].state IN
            /\ log' = log \o events
            /\ state' = [state EXCEPT ![x] = s]
            /\ filled' = [filled EXCEPT ![x] = IF s = "FILLED" THEN Quantity[x] ELSE 0]
    BY <1>3 DEF Accept
  <2> DEFINE q == Quantity[x]
  <2>2. /\ log \in Seq(Event) /\ filled \in [Order -> Nat] /\ filled[x] = 0
        /\ state[x] \notin Terminal /\ q \in Nat /\ q >= 1
        /\ state \in [Order -> Working \cup Terminal \cup {NotAtEngine}]
    BY SMTT(30), <1>3, SimLoopAssumption DEF EngineOK, SimLoopAssumption, Terminal, NotAtEngine
  <2>3. \/ events = <<>>
        \/ events = <<[order |-> x, qty |-> q, state |-> "FILLED"]>>
        \/ events = <<[order |-> x, qty |-> 0, state |-> "EXPIRED"]>>
        \/ \E n \in 1 .. q - 1 : events = <<[order |-> x, qty |-> n, state |-> "PARTIALLY_FILLED"],
                                           [order |-> x, qty |-> q - n, state |-> "FILLED"]>>
    BY <2>1 DEF Executions
  <2> HIDE DEF q
  <2>4. CASE events = <<>>
    <3>1. log' = log /\ state' = [state EXCEPT ![x] = "NEW"] /\ filled' = filled
      BY <2>1, <2>2, <2>4
    <3> QED BY <1>3, <3>1, TakesNew
  <2>5. ASSUME NEW n \in {0, q}, NEW s \in {"FILLED", "EXPIRED"}, n = (IF s = "FILLED" THEN q ELSE 0),
               events = <<[order |-> x, qty |-> n, state |-> s]>>
        PROVE  \E d : /\ EngineOK(d, state', filled', log')
                      /\ Later(x, c, state, filled, log, d, state', filled', log')
    <3>1. Len(events) = 1 /\ events[Len(events)].state = s /\ events # <<>>
      BY <2>5
    <3>2. log' = Append(log, [order |-> x, qty |-> n, state |-> s])
      BY <2>1, <2>2, <2>5
    <3>3. state' = [state EXCEPT ![x] = s]
      BY <2>1, <3>1
    <3>4. filled' = [filled EXCEPT ![x] = @ + n]
      <4>1. filled' = [filled EXCEPT ![x] = n]
        BY <2>1, <2>5, <3>1 DEF q
      <4>2. filled[x] + n = n
        BY <2>2
      <4> QED BY <4>1, <4>2
    <3>5. n \in Nat /\ filled[x] + n <= Quantity[x] /\ s \in Working \cup Terminal
      BY <2>2 DEF q, Terminal
    <3> QED BY <2>2, <3>2, <3>3, <3>4, <3>5, Publish
  <2>6. ASSUME NEW n \in 1 .. q - 1,
               events = <<[order |-> x, qty |-> n, state |-> "PARTIALLY_FILLED"],
                          [order |-> x, qty |-> q - n, state |-> "FILLED"]>>
        PROVE  \E d : /\ EngineOK(d, state', filled', log')
                      /\ Later(x, c, state, filled, log, d, state', filled', log')
    <3> DEFINE e1 == [order |-> x, qty |-> n, state |-> "PARTIALLY_FILLED"]
               e2 == [order |-> x, qty |-> q - n, state |-> "FILLED"]
               st1 == [state EXCEPT ![x] = "PARTIALLY_FILLED"]
               fl1 == [filled EXCEPT ![x] = @ + n]
               ev1 == Append(log, e1)
    <3>1. n \in Nat /\ q - n \in Nat /\ n <= q /\ n + (q - n) = q
      BY <2>2
    <3>2. Len(events) = 2 /\ events[Len(events)].state = "FILLED" /\ events # <<>>
      BY <2>6
    <3>3. PICK d : EngineOK(d, st1, fl1, ev1) /\ Later(x, c, state, filled, log, d, st1, fl1, ev1)
      <4>1. "PARTIALLY_FILLED" \in Working \cup Terminal
        BY DEF Working
      <4>2. filled[x] + n <= Quantity[x]
        BY <2>2, <3>1 DEF q
      <4> QED BY <2>2, <3>1, <4>1, <4>2, Publish
    <3>4. st1[x] \notin Terminal /\ fl1[x] = n
      BY <2>2, <3>1 DEF Terminal
    <3>5. log' = Append(ev1, e2)
      <4>1. e1 \in Event /\ e2 \in Event
        BY <3>1 DEF Event, Working, Terminal
      <4>2. log' = log \o <<e1, e2>>
        BY <2>1, <2>6
      <4> HIDE DEF e1, e2
      <4> QED BY <2>2, <4>1, <4>2
    <3>6. state' = [st1 EXCEPT ![x] = "FILLED"]
      BY <2>1, <2>2, <3>2
    <3>7. filled' = [fl1 EXCEPT ![x] = @ + (q - n)]
      <4>1. filled' = [filled EXCEPT ![x] = q]
        BY <2>1, <3>2 DEF q
      <4>2. fl1[x] + (q - n) = q
        BY <3>1, <3>4
      <4> QED BY <2>2, <4>1, <4>2
    <3> HIDE DEF st1, fl1, ev1
    <3>8. \E g : /\ EngineOK(g, state', filled', log')
                 /\ Later(x, d, st1, fl1, ev1, g, state', filled', log')
      <4>1. "FILLED" \in Working \cup Terminal
        BY DEF Terminal
      <4>2. fl1[x] + (q - n) <= Quantity[x]
        BY <2>2, <3>1, <3>4 DEF q
      <4> QED BY <3>1, <3>3, <3>4, <3>5, <3>6, <3>7, <4>1, <4>2, Publish
    <3>9. PICK g : /\ EngineOK(g, state', filled', log')
                   /\ Later(x, d, st1, fl1, ev1, g, state', filled', log')
      BY <3>8
    <3>10. /\ fl1 \in [Order -> Nat] /\ ev1 \in Seq(Event)
           /\ filled' \in [Order -> Nat] /\ log' \in Seq(Event)
      BY <3>3, <3>9 DEF EngineOK
    <3>11. Later(x, c, state, filled, log, g, state', filled', log')
      BY <2>2, <3>3, <3>9, <3>10, LaterComposes
    <3> QED BY <3>9, <3>11
  <2>7. CASE events = <<[order |-> x, qty |-> q, state |-> "FILLED"]>>
    BY <1>3, <2>5, <2>7
  <2>8. CASE events = <<[order |-> x, qty |-> 0, state |-> "EXPIRED"]>>
    BY <1>3, <2>5, <2>8
  <2> QED BY <1>3, <2>3, <2>4, <2>6, <2>7, <2>8
<1> QED BY <1>1, <1>2, <1>3

\* What moves at the engine disturbs neither the book's balance nor what is settled.
LEMMA EngineMoves ==
    ASSUME IInv, NEW x \in Order, x \in rejected => state'[x] = state[x],
           NEW c \in [Order -> [Nat -> Nat]], EngineOK(c, state, filled, log), Balance(c),
           NEW d, EngineOK(d, state', filled', log'),
           Later(x, c, state, filled, log, d, state', filled', log'),
           UNCHANGED <<cursor, applied, timedOut, unpriced, lost, done, rejected, book>>, pc \notin Over,
           stream' = stream \/ stream' = "closed"
    PROVE  /\ Accounted' /\ DoneIsFinal' /\ BookMoves'
           /\ \A o \in rejected' : o \in done' /\ state'[o] = NotAtEngine
           /\ \A o \in Order : filled[o] <= filled'[o]
           /\ \A o \in Order : state[o] \in Terminal => state'[o] = state[o] /\ filled'[o] = filled[o]
           /\ state' \in [Order -> Working \cup Terminal \cup {NotAtEngine}]
           /\ filled' \in [Order -> Nat]
           /\ log' \in Seq(Event) /\ Len(log) <= Len(log') /\ Len(log) \in Nat /\ Len(log') \in Nat
<1> USE DEF IInv
<1>1. /\ state' \in [Order -> Working \cup Terminal \cup {NotAtEngine}]
      /\ filled' \in [Order -> Nat] /\ log' \in Seq(Event) /\ d \in [Order -> [Nat -> Nat]]
  BY DEF EngineOK
<1>2. /\ Len(log) <= Len(log') /\ Len(log) \in Nat /\ Len(log') \in Nat
      /\ filled \in [Order -> Nat] /\ applied \in [Order -> Nat]
      /\ cursor \in 0 .. Len(log) /\ lost \subseteq 1 .. Len(log)
  <2>1. /\ log \in Seq(Event) /\ filled \in [Order -> Nat] /\ applied \in [Order -> Nat]
        /\ cursor \in 0 .. Len(log) /\ lost \subseteq 1 .. Len(log)
    BY DEF TypeOK
  <2>2. Len(log) <= Len(log')
    BY DEF Later
  <2>3. Len(log) \in Nat /\ Len(log') \in Nat
    BY <1>1, <2>1, LenIsNat
  <2> QED BY <2>1, <2>2, <2>3
<1>3. /\ \A k \in 1 .. Len(log) : log'[k] = log[k]
      /\ \A o \in Order : \A i \in 0 .. Len(log) : d[o][i] = c[o][i]
      /\ \A o \in Order : o # x \/ state[o] \in Terminal
                            => state'[o] = state[o] /\ filled'[o] = filled[o]
      /\ filled[x] <= filled'[x]
  BY DEF Later
<1>4. \A o \in Order : filled[o] \in Nat /\ filled[o] <= filled'[o]
  <2> SUFFICES ASSUME NEW o \in Order PROVE filled[o] \in Nat /\ filled[o] <= filled'[o]
    OBVIOUS
  <2>1. filled[o] \in Nat /\ filled'[o] \in Nat
    BY <1>1, <1>2
  <2>2. CASE o = x
    BY <1>3, <2>1, <2>2
  <2>3. CASE o # x
    BY <1>3, <2>1, <2>3
  <2> QED BY <2>2, <2>3
<1>5. \A o : Missed(o)' <=> Missed(o)
  BY <1>2, <1>3 DEF Missed
<1>6. Balance(d)'
  <2> SUFFICES ASSUME NEW o \in Order
               PROVE  /\ Missed(o)' \/ d[o][cursor] <= applied[o]
                      /\ \/ o \in timedOut
                         \/ applied[o] <= d[o][cursor]
                         \/ stream' \in {"reset", "closed"} /\ applied[o] <= filled'[o]
    BY DEF Balance
  <2>1. d[o][cursor] = c[o][cursor] /\ cursor \in Nat /\ c[o][cursor] \in Nat
    BY SMTT(30), <1>2, <1>3
  <2>2. Missed(o) \/ c[o][cursor] <= applied[o]
    BY DEF Balance, Over
  <2>3. \/ o \in timedOut
        \/ applied[o] <= c[o][cursor]
        \/ stream \in {"reset", "closed"} /\ applied[o] <= filled[o]
    BY DEF Balance
  <2>4. applied[o] <= filled[o] => applied[o] <= filled'[o]
    <3>1. applied[o] \in Nat /\ filled[o] \in Nat /\ filled'[o] \in Nat /\ filled[o] <= filled'[o]
      BY <1>1, <1>2, <1>4
    <3> QED BY <3>1
  <2> QED BY <1>5, <2>1, <2>2, <2>3, <2>4
<1>7. Accounted'
  BY <1>1, <1>6 DEF Accounted
<1>8. BookMoves'
  BY DEF BookMoves
<1>9. \A o \in rejected' : o \in done' /\ state'[o] = NotAtEngine
  BY <1>3 DEF RefusedIsUnknown, TypeOK
<1>10. DoneIsFinal'
  <2> SUFFICES ASSUME NEW o \in done
               PROVE  /\ state'[o] \in Terminal \/ o \in rejected
                      /\ Missed(o) \/ o \in unpriced \/ filled'[o] <= applied[o]
    BY <1>5 DEF DoneIsFinal
  <2>1. o \in Order
    BY DEF TypeOK
  <2>2. CASE state[o] \in Terminal
    BY <1>3, <2>1, <2>2 DEF DoneIsFinal
  <2>3. CASE o \in rejected
    <3>1. state'[o] = NotAtEngine
      BY <1>9, <2>3
    <3>2. filled'[o] = 0
      BY <2>1, <3>1 DEF EngineOK
    <3> QED BY <1>2, <2>1, <2>3, <3>2
  <2> QED BY <2>2, <2>3 DEF DoneIsFinal
<1> QED BY <1>1, <1>2, <1>3, <1>4, <1>7, <1>8, <1>9, <1>10

-----------------------------------------------------------------------------
(* The initial states *)

LEMMA InitEstablishes == Init => IInv
<1> SUFFICES ASSUME Init PROVE IInv
  OBVIOUS
<1> USE DEF Init
<1>0. /\ Len(Orders) \in Nat /\ Held \in [Order -> Nat] /\ MaxAttempts \in Nat \ {0}
      /\ MaxFaults \in Nat /\ Quantity \in [Order -> Nat \ {0}]
  BY SimLoopAssumption DEF SimLoopAssumption
<1>1. TypeOK
  <2>1. /\ at \in 1 .. Len(Orders) + 1 /\ tries \in 0 .. MaxAttempts - 1
        /\ failures \in 0 .. MaxAttempts /\ faults \in 0 .. MaxFaults
    BY <1>0
  <2>2. /\ log \in Seq(Event) /\ Len(log) = 0 /\ cursor \in 0 .. Len(log) /\ pos \in 0 .. Len(log)
        /\ lost \in SUBSET (1 .. Len(log))
    OBVIOUS
  <2>3. /\ applied \in [Order -> Nat] /\ filled \in [Order -> Nat] /\ book \in [Order -> Nat]
        /\ final \in [Order -> Terminal \cup {NoState}]
        /\ state \in [Order -> Working \cup Terminal \cup {NotAtEngine}]
    BY <1>0
  <2>4. got \in Snapshot
    BY DEF NoSnapshot, Snapshot
  <2> QED BY <2>1, <2>2, <2>3, <2>4 DEF TypeOK
<1>2. InPlace /\ RefusedIsUnknown /\ DoneIsFinal /\ AnswerHolds /\ Skipped /\ OversoldLate
  BY <1>0 DEF InPlace, RefusedIsUnknown, DoneIsFinal, AnswerHolds, Skipped, OversoldLate, Over
<1>3. BookMoves
  BY <1>0 DEF BookMoves
<1>4. Accounted
  <2> DEFINE c == [o \in Order |-> [i \in Nat |-> 0]]
  <2>1. c \in [Order -> [Nat -> Nat]] /\ \A o \in Order, i \in Nat : c[o][i] = 0
    OBVIOUS
  <2>2. Len(log) = 0 /\ log \in Seq(Event)
    OBVIOUS
  <2> HIDE DEF c
  <2>3. Tally(c, log)
    BY <2>1, <2>2 DEF Tally
  <2>4. EngineOK(c, state, filled, log)
    BY SMTT(30), <1>0, <2>1, <2>2, <2>3 DEF EngineOK
  <2>5. Balance(c)
    BY <2>1 DEF Balance
  <2> QED BY <2>1, <2>4, <2>5 DEF Accounted
<1> QED BY <1>1, <1>2, <1>3, <1>4 DEF IInv

-----------------------------------------------------------------------------
(* The engine moves *)

LEMMA EngineStepPreserves ==
    ASSUME IInv, NEW x \in Order, EngineFill(x) \/ EngineExpire(x)
    PROVE  IInv'
<1> USE DEF IInv
<1>1. /\ pc \notin Over /\ state[x] \in Working
      /\ UNCHANGED <<pc, at, tries, got, connected, stream, failures, cursor>>
      /\ UNCHANGED <<applied, final, done, rejected, book, pos, faults, lost, timedOut, unpriced>>
      /\ UNCHANGED unsubscribed
  BY DEF EngineFill, EngineExpire, Running, mainVars, streamVars, trackers, history
<1>2. PICK c \in [Order -> [Nat -> Nat]] : EngineOK(c, state, filled, log) /\ Balance(c)
  BY DEF Accounted
<1>3. /\ state[x] \notin Terminal /\ state[x] # NotAtEngine
      /\ filled \in [Order -> Nat] /\ Quantity[x] \in Nat /\ filled[x] <= Quantity[x]
  BY <1>1, <1>2, SimLoopAssumption
     DEF Working, Terminal, NotAtEngine, EngineOK, SimLoopAssumption
<1>4. \E d : /\ EngineOK(d, state', filled', log')
             /\ Later(x, c, state, filled, log, d, state', filled', log')
  <2>1. CASE EngineFill(x)
    <3>1. PICK n \in 1 .. Quantity[x] - filled[x] :
            LET s == IF filled[x] + n = Quantity[x] THEN "FILLED" ELSE "PARTIALLY_FILLED" IN
              /\ filled' = [filled EXCEPT ![x] = @ + n]
              /\ state' = [state EXCEPT ![x] = s]
              /\ log' = Append(log, [order |-> x, qty |-> n, state |-> s])
      BY <2>1 DEF EngineFill
    <3>2. n \in Nat /\ filled[x] + n <= Quantity[x]
      <4>1. filled[x] \in Nat
        BY <1>3
      <4> QED BY <1>3, <4>1
    <3>3. PICK s \in Working \cup Terminal :
              /\ filled' = [filled EXCEPT ![x] = @ + n]
              /\ state' = [state EXCEPT ![x] = s]
              /\ log' = Append(log, [order |-> x, qty |-> n, state |-> s])
      BY <3>1 DEF Working, Terminal
    <3> QED BY <1>2, <1>3, <3>2, <3>3, Publish
  <2>2. CASE EngineExpire(x)
    <3>1. PICK s \in Working \cup Terminal :
            /\ state' = [state EXCEPT ![x] = s]
            /\ log' = Append(log, [order |-> x, qty |-> 0, state |-> s])
            /\ filled' = filled
      BY <2>2 DEF EngineExpire, Terminal
    <3>2. PICK n \in Nat : n = 0
      OBVIOUS
    <3>3. /\ state' = [state EXCEPT ![x] = s]
          /\ log' = Append(log, [order |-> x, qty |-> n, state |-> s])
      BY <3>1, <3>2
    <3>4. filled[x] + n = filled[x]
      BY <1>3, <3>2
    <3>5. filled' = [filled EXCEPT ![x] = @ + n] /\ filled[x] + n <= Quantity[x]
      BY <1>3, <3>1, <3>4
    <3> QED BY <1>2, <1>3, <3>3, <3>5, Publish
  <2> QED BY <2>1, <2>2
<1>5. PICK d : /\ EngineOK(d, state', filled', log')
               /\ Later(x, c, state, filled, log, d, state', filled', log')
  BY <1>4
<1>6. x \notin rejected
  BY <1>3 DEF RefusedIsUnknown
<1>7. /\ Accounted' /\ DoneIsFinal' /\ BookMoves'
      /\ \A o \in rejected' : o \in done' /\ state'[o] = NotAtEngine
      /\ \A o \in Order : filled[o] <= filled'[o]
      /\ \A o \in Order : state[o] \in Terminal => state'[o] = state[o] /\ filled'[o] = filled[o]
      /\ state' \in [Order -> Working \cup Terminal \cup {NotAtEngine}]
      /\ filled' \in [Order -> Nat]
      /\ log' \in Seq(Event) /\ Len(log) <= Len(log') /\ Len(log) \in Nat /\ Len(log') \in Nat
  BY <1>1, <1>2, <1>5, <1>6, EngineMoves
<1>8. TypeOK'
  <2>1. cursor \in 0 .. Len(log') /\ pos \in 0 .. Len(log') /\ lost \in SUBSET (1 .. Len(log'))
    <3>1. cursor \in 0 .. Len(log) /\ pos \in 0 .. Len(log) /\ lost \in SUBSET (1 .. Len(log))
      BY DEF TypeOK
    <3> QED BY <1>7, <3>1, RangesGrow
  <2> QED BY <1>1, <1>7, <2>1 DEF TypeOK
<1>9. InPlace'
  <2>1. pc # "handshake"
    <3>1. CASE pc = "handshake"
      <4>1. state[x] = NotAtEngine
        BY <3>1 DEF InPlace
      <4> QED BY <1>3, <4>1
    <3> QED BY <3>1
  <2> QED BY <1>1, <2>1 DEF InPlace
<1>10. RefusedIsUnknown'
  BY <1>1, <1>7 DEF RefusedIsUnknown
<1>11. AnswerHolds'
  <2>1. Current' = Current
    BY <1>1 DEF Current
  <2>2. ASSUME pc = "got"
        PROVE  /\ got.filled <= filled'[Current]
               /\ got.state \in Terminal =>
                    state'[Current] = got.state /\ filled'[Current] = got.filled
    <3>1. Current \in Order
      BY <2>2, CurrentIsOrder DEF InPlace, TypeOK
    <3>2. got.filled \in Nat /\ filled[Current] \in Nat /\ filled'[Current] \in Nat
      BY <1>3, <1>7, <3>1, AnswerFields
    <3>3. got.filled <= filled[Current] /\ filled[Current] <= filled'[Current]
      BY <1>7, <2>2, <3>1 DEF AnswerHolds
    <3>4. got.filled <= filled'[Current]
      BY <3>2, <3>3
    <3> QED BY <1>7, <2>2, <3>1, <3>4 DEF AnswerHolds
  <2> QED BY <1>1, <2>1, <2>2 DEF AnswerHolds
<1>12. Skipped' /\ OversoldLate'
  BY <1>1 DEF Skipped, OversoldLate
<1> QED BY <1>7, <1>8, <1>9, <1>10, <1>11, <1>12

-----------------------------------------------------------------------------
(* Steps that leave the book, the trackers, the watermark and the engine alone *)

\* Skipping more or timing out only excuses more, and a stream that is over stays so.
LEMMA QuietStep ==
    ASSUME IInv, UNCHANGED <<state, filled, log, applied, done, rejected, book, cursor>>,
           timedOut \subseteq timedOut', lost \subseteq lost', unpriced \subseteq unpriced',
           pc = "oversold" => pc' = "oversold",
           stream \in {"reset", "closed"} => stream' \in {"reset", "closed"}
    PROVE  Accounted' /\ DoneIsFinal' /\ BookMoves'
<1> USE DEF IInv
<1>1. \A o : Missed(o) => Missed(o)'
  BY DEF Missed
<1>2. DoneIsFinal'
  BY <1>1 DEF DoneIsFinal
<1>3. PICK c \in [Order -> [Nat -> Nat]] : EngineOK(c, state, filled, log) /\ Balance(c)
  BY DEF Accounted
<1>4. Balance(c)'
  BY <1>1, <1>3 DEF Balance
<1>5. EngineOK(c, state', filled', log')
  BY <1>3
<1> QED BY <1>2, <1>3, <1>4, <1>5 DEF Accounted, BookMoves

LEMMA StutterPreserves == IInv /\ UNCHANGED vars => IInv'
<1> SUFFICES ASSUME IInv, UNCHANGED vars PROVE IInv'
  OBVIOUS
<1> USE DEF IInv
<1>1. /\ UNCHANGED <<pc, at, tries, got, connected, stream, failures, cursor, applied, final>>
      /\ UNCHANGED <<done, rejected, book, state, filled, log, pos, faults, lost, timedOut, unpriced>>
      /\ UNCHANGED unsubscribed
  BY DEF vars, mainVars, streamVars, trackers, engine, history
<1>2. TypeOK'
  BY <1>1 DEF TypeOK
<1>3. InPlace' /\ RefusedIsUnknown' /\ AnswerHolds' /\ Skipped' /\ OversoldLate'
  BY <1>1 DEF InPlace, RefusedIsUnknown, AnswerHolds, Current, Skipped, OversoldLate
<1> QED BY <1>1, <1>2, <1>3, QuietStep

LEMMA ConnectPreserves == IInv /\ Connect => IInv'
<1> SUFFICES ASSUME IInv, Connect PROVE IInv'
  OBVIOUS
<1> USE DEF IInv
<1>1. /\ UNCHANGED <<pc, at, tries, got, failures, cursor, applied, final>>
      /\ UNCHANGED <<done, rejected, book, state, filled, log, faults, timedOut, unpriced>>
      /\ UNCHANGED unsubscribed
  BY DEF Connect, mainVars, trackers, engine, history
<1>2. /\ pc \notin Over /\ stream = "connecting" /\ stream' = "open" /\ connected' = TRUE
      /\ pos' \in Resume /\ lost' = IF cursor > 0 THEN lost ELSE lost \cup 1 .. pos'
  BY DEF Connect, Running
<1>3. /\ Len(log) \in Nat /\ cursor \in 0 .. Len(log) /\ lost \subseteq 1 .. Len(log)
  BY LenIsNat DEF TypeOK
<1>4. /\ pos' \in 0 .. Len(log)
      /\ cursor > 0 => pos' <= cursor
      /\ cursor = 0 => pos' = Len(log)
  BY <1>2, <1>3 DEF Resume
<1>5. lost \subseteq lost' /\ lost' \subseteq 1 .. Len(log)
  BY <1>2, <1>3, <1>4
<1>6. TypeOK'
  BY <1>1, <1>2, <1>4, <1>5 DEF TypeOK
<1>7. InPlace' /\ RefusedIsUnknown' /\ OversoldLate'
  BY <1>1, <1>2 DEF InPlace, RefusedIsUnknown, OversoldLate
<1>8. AnswerHolds'
  BY <1>1, <1>2 DEF AnswerHolds, Current
<1>9. Skipped'
  <2>1. cursor + 1 .. pos' \subseteq lost'
    <3>1. CASE cursor > 0
      BY <1>3, <1>4, <3>1
    <3>2. CASE ~(cursor > 0)
      <4>1. cursor = 0
        BY <1>3, <3>2
      <4> QED BY <1>2, <4>1
    <3> QED BY <3>1, <3>2
  <2>2. ASSUME lost' # {}, ~unsubscribed PROVE faults > 0
    <3>1. CASE lost # {}
      BY <2>2, <3>1 DEF Skipped
    <3>2. CASE lost = {}
      <4>1. cursor = 0 /\ pos' # 0
        BY <1>2, <1>3, <2>2, <3>2
      <4>2. log # <<>>
        BY <1>3, <1>4, <4>1
      <4>3. pc # "handshake"
        BY <4>2 DEF InPlace
      <4>4. connected
        BY <1>2, <2>2, <4>3 DEF Skipped
      <4> QED BY <1>2, <4>4 DEF Skipped
    <3> QED BY <3>1, <3>2
  <2> QED BY <1>1, <1>2, <2>1, <2>2 DEF Skipped
<1> QED BY <1>1, <1>2, <1>5, <1>6, <1>7, <1>8, <1>9, QuietStep

\* A fault of the stream: it may be made again, it is over, or the run is.
LEMMA StreamFaultPreserves ==
    ASSUME IInv, StreamDrops \/ StreamRefused \/ StreamReset
    PROVE  IInv'
<1> USE DEF IInv
<1>1. /\ UNCHANGED <<at, tries, got, connected, cursor, applied, final, pos>>
      /\ UNCHANGED <<done, rejected, book, state, filled, log, lost, timedOut, unpriced>>
      /\ UNCHANGED unsubscribed
  BY DEF StreamDrops, StreamRefused, StreamReset, mainVars, trackers, engine, history
<1>2. pc \notin Over /\ stream \in {"connecting", "open"} /\ Fault
  BY DEF StreamDrops, StreamRefused, StreamReset, Running
<1>3. /\ \/ pc' = pc /\ stream' = "connecting" /\ failures' = failures + 1 /\ failures' < MaxAttempts
         \/ pc' = pc /\ stream' = "reset" /\ failures' = failures
         \/ pc' = "aborted" /\ stream' = "closed" /\ failures' \in {failures, failures + 1}
  <2>1. MaxAttempts \in Nat /\ failures \in Nat
    BY SimLoopAssumption DEF SimLoopAssumption, TypeOK
  <2>2. CASE StreamDrops
    BY <2>1, <2>2 DEF StreamDrops, Abort
  <2>3. CASE StreamRefused
    BY <2>3 DEF StreamRefused, Abort
  <2>4. CASE StreamReset
    BY <2>4 DEF StreamReset, mainVars
  <2> QED BY <2>2, <2>3, <2>4
<1>4. /\ faults \in Nat /\ MaxFaults \in Nat /\ faults < MaxFaults /\ faults' = faults + 1
      /\ failures \in Nat /\ MaxAttempts \in Nat /\ failures < MaxAttempts
  BY <1>2, SimLoopAssumption DEF SimLoopAssumption, TypeOK, Fault, InPlace
<1>5. TypeOK'
  <2>1. faults' \in 0 .. MaxFaults /\ failures' \in 0 .. MaxAttempts /\ faults' > 0
    BY <1>3, <1>4
  <2>2. /\ stream' \in {"connecting", "open", "reset", "closed"}
        /\ pc' \in {"handshake", "submitting", "awaiting", "blocked", "getting", "got"} \cup Over
    BY <1>3 DEF TypeOK, Over
  <2> QED BY <1>1, <2>1, <2>2 DEF TypeOK
<1>6. InPlace'
  BY <1>1, <1>2, <1>3, <1>4 DEF InPlace, Over
<1>7. RefusedIsUnknown' /\ OversoldLate'
  BY <1>1, <1>3 DEF RefusedIsUnknown, OversoldLate
<1>8. AnswerHolds'
  BY <1>1, <1>2, <1>3 DEF AnswerHolds, Current
<1>9. Skipped'
  BY <1>1, <1>2, <1>3, <1>4 DEF Skipped, Over
<1>10. /\ stream \in {"reset", "closed"} => stream' \in {"reset", "closed"}
       /\ pc # "oversold"
  BY <1>2 DEF Over
<1> QED BY <1>1, <1>5, <1>6, <1>7, <1>8, <1>9, <1>10, QuietStep

LEMMA StreamGapPreserves == IInv /\ StreamGap => IInv'
<1> SUFFICES ASSUME IInv, StreamGap PROVE IInv'
  OBVIOUS
<1> USE DEF IInv
<1>1. /\ UNCHANGED <<pc, at, tries, got, connected, stream, failures, cursor, applied, final>>
      /\ UNCHANGED <<done, rejected, book, state, filled, log, timedOut, unpriced>>
      /\ UNCHANGED unsubscribed
  BY DEF StreamGap, mainVars, streamVars, trackers, engine, history
<1>2. stream = "open" /\ Fault
  BY DEF StreamGap
<1>3. PICK n \in pos + 1 .. Len(log) :
        pos' = n /\ lost' = lost \cup {s \in pos + 1 .. n : s > cursor}
  BY DEF StreamGap
<1>4. /\ Len(log) \in Nat /\ pos \in 0 .. Len(log) /\ cursor \in 0 .. Len(log)
      /\ lost \subseteq 1 .. Len(log)
  BY LenIsNat DEF TypeOK
<1>5. pos' \in 0 .. Len(log) /\ lost \subseteq lost' /\ lost' \subseteq 1 .. Len(log)
  <2>1. n \in 1 .. Len(log) /\ pos + 1 .. n \subseteq 1 .. Len(log)
    BY <1>4
  <2>2. {s \in pos + 1 .. n : s > cursor} \subseteq pos + 1 .. n
    OBVIOUS
  <2>3. lost \subseteq lost' /\ lost' \subseteq 1 .. Len(log)
    BY <1>3, <1>4, <2>1, <2>2
  <2>4. pos' \in 0 .. Len(log)
    BY <1>3, <1>4
  <2> QED BY <2>3, <2>4
<1>6. faults' \in 0 .. MaxFaults /\ faults' > 0
  BY <1>2, SimLoopAssumption DEF SimLoopAssumption, TypeOK, Fault
<1>7. TypeOK'
  BY <1>1, <1>5, <1>6 DEF TypeOK
<1>8. InPlace' /\ RefusedIsUnknown' /\ OversoldLate' /\ AnswerHolds'
  BY <1>1 DEF InPlace, RefusedIsUnknown, OversoldLate, AnswerHolds, Current
<1>9. Skipped'
  <2>1. \A s \in cursor + 1 .. pos' : s \in lost'
    <3> SUFFICES ASSUME NEW s \in cursor + 1 .. pos' PROVE s \in lost'
      OBVIOUS
    <3>1. CASE s <= pos
      <4>1. s \in cursor + 1 .. pos
        BY <1>4, <3>1
      <4> QED BY <1>2, <1>5, <4>1 DEF Skipped
    <3>2. CASE ~(s <= pos)
      <4>1. s \in pos + 1 .. n /\ s > cursor
        BY <1>3, <1>4, <3>2
      <4> QED BY <1>3, <4>1
    <3> QED BY <3>1, <3>2
  <2> QED BY <1>1, <1>2, <1>6, <2>1 DEF Skipped
<1> QED BY <1>1, <1>5, <1>7, <1>8, <1>9, QuietStep

-----------------------------------------------------------------------------
(* The main task, where it only moves *)

\* The steps that say nothing to the engine and apply nothing.
LEMMA MainMovesPreserve ==
    ASSUME IInv,
           UNCHANGED <<connected, failures, cursor, applied, final, done, rejected, book>>,
           UNCHANGED <<state, filled, log, pos, lost, unpriced>>,
           TypeOK', InPlace', RefusedIsUnknown', AnswerHolds',
           timedOut \subseteq timedOut',
           \/ stream' = stream /\ (pc \in Over <=> pc' \in Over)
           \/ stream' = "closed" /\ pc' \in {"aborted", "returned"},
           pc # "oversold", pc' # "oversold",
           unsubscribed => unsubscribed', faults > 0 => faults' > 0,
           pc = "handshake" /\ pc' \notin {"handshake"} \cup Over => connected \/ unsubscribed'
    PROVE  IInv'
<1> USE DEF IInv
<1>1. Skipped'
  BY DEF Skipped, Over
<1>2. OversoldLate'
  BY DEF OversoldLate
<1>3. stream \in {"reset", "closed"} => stream' \in {"reset", "closed"}
  OBVIOUS
<1> QED BY <1>1, <1>2, <1>3, QuietStep

LEMMA HandshakePreserves == IInv /\ (HandshakeDone \/ HandshakeTimeout) => IInv'
<1> SUFFICES ASSUME IInv, HandshakeDone \/ HandshakeTimeout PROVE IInv'
  OBVIOUS
<1> USE DEF IInv
<1>1. /\ UNCHANGED <<at, tries, got, connected, stream, failures, cursor, applied, final>>
      /\ UNCHANGED <<done, rejected, book, state, filled, log, pos, faults, lost, timedOut, unpriced>>
  BY DEF HandshakeDone, HandshakeTimeout, streamVars, trackers, engine, history
<1>2. /\ pc = "handshake" /\ pc' = "submitting"
      /\ \/ connected /\ unsubscribed' = unsubscribed
         \/ unsubscribed' = TRUE
  BY DEF HandshakeDone, HandshakeTimeout, history
<1>3. TypeOK'
  BY <1>1, <1>2 DEF TypeOK
<1>4. InPlace'
  BY <1>1, <1>2 DEF InPlace, Over
<1>5. RefusedIsUnknown'
  BY <1>1, <1>2 DEF RefusedIsUnknown, InPlace
<1>6. AnswerHolds'
  BY <1>2 DEF AnswerHolds
<1> QED BY <1>1, <1>2, <1>3, <1>4, <1>5, <1>6, MainMovesPreserve DEF Over

LEMMA RequestRefusedPreserves == IInv /\ RequestRefused => IInv'
<1> SUFFICES ASSUME IInv, RequestRefused PROVE IInv'
  OBVIOUS
<1> USE DEF IInv
<1>1. /\ UNCHANGED <<at, tries, got, connected, failures, cursor, applied, final>>
      /\ UNCHANGED <<done, rejected, book, state, filled, log, pos, lost, timedOut, unpriced>>
      /\ UNCHANGED unsubscribed
  BY DEF RequestRefused, trackers, engine, history
<1>2. pc \in {"submitting", "getting"} /\ Fault /\ pc' = "aborted" /\ stream' = "closed"
  BY DEF RequestRefused, Abort
<1>3. faults' \in 0 .. MaxFaults /\ faults' > 0
  BY <1>2, SimLoopAssumption DEF SimLoopAssumption, TypeOK, Fault
<1>4. TypeOK'
  BY <1>1, <1>2, <1>3 DEF TypeOK, Over
<1>5. InPlace' /\ RefusedIsUnknown' /\ AnswerHolds'
  BY <1>1, <1>2 DEF InPlace, RefusedIsUnknown, AnswerHolds, Over
<1> QED BY <1>1, <1>2, <1>3, <1>4, <1>5, MainMovesPreserve

LEMMA GetUnansweredPreserves == IInv /\ GetUnanswered => IInv'
<1> SUFFICES ASSUME IInv, GetUnanswered PROVE IInv'
  OBVIOUS
<1> USE DEF IInv
<1>1. /\ UNCHANGED <<at, got, connected, failures, cursor, applied, final>>
      /\ UNCHANGED <<done, rejected, book, state, filled, log, pos, lost, timedOut, unpriced>>
      /\ UNCHANGED unsubscribed
  BY DEF GetUnanswered, trackers, engine, history
<1>2. /\ pc = "getting" /\ Fault
      /\ \/ tries + 1 < MaxAttempts /\ tries' = tries + 1 /\ pc' = pc /\ stream' = stream
         \/ pc' = "aborted" /\ stream' = "closed" /\ tries' = tries
  BY DEF GetUnanswered, Abort
<1>3. faults' \in 0 .. MaxFaults /\ faults' > 0
  BY <1>2, SimLoopAssumption DEF SimLoopAssumption, TypeOK, Fault
<1>4. tries' \in 0 .. MaxAttempts - 1
  BY <1>2, SimLoopAssumption DEF SimLoopAssumption, TypeOK
<1>5. TypeOK'
  BY <1>1, <1>2, <1>3, <1>4 DEF TypeOK, Over
<1>6. InPlace'
  BY <1>1, <1>2 DEF InPlace, Over
<1>7. RefusedIsUnknown' /\ AnswerHolds'
  BY <1>1, <1>2 DEF RefusedIsUnknown, AnswerHolds, Current
<1> QED BY <1>1, <1>2, <1>3, <1>5, <1>6, <1>7, MainMovesPreserve

LEMMA GetAnsweredPreserves == IInv /\ GetAnswered => IInv'
<1> SUFFICES ASSUME IInv, GetAnswered PROVE IInv'
  OBVIOUS
<1> USE DEF IInv
<1>1. /\ UNCHANGED <<at, connected, stream, failures, cursor, applied, final>>
      /\ UNCHANGED <<done, rejected, book, state, filled, log, pos, lost, timedOut, unpriced>>
      /\ UNCHANGED unsubscribed
  BY DEF GetAnswered, streamVars, trackers, engine, history
<1>2. PICK priced \in BOOLEAN :
        /\ pc = "getting" /\ pc' = "got" /\ tries' = 0
        /\ got' = [state |-> state[Current], filled |-> filled[Current], priced |-> priced]
        /\ UNCHANGED faults \/ Fault
  BY DEF GetAnswered
<1>3. Current \in Order /\ at <= Len(Orders)
  BY <1>2, CurrentIsOrder DEF InPlace, TypeOK
<1>4. filled[Current] \in Nat /\ state[Current] \in Working \cup Terminal \cup {NotAtEngine}
  BY <1>3 DEF TypeOK
<1>5. got' \in Snapshot
  BY <1>2, <1>4 DEF Snapshot
<1>6. TypeOK' /\ (faults > 0 => faults' > 0)
  <2>1. tries' \in 0 .. MaxAttempts - 1
    BY <1>2, SimLoopAssumption DEF SimLoopAssumption
  <2>2. faults' \in 0 .. MaxFaults /\ (faults > 0 => faults' > 0)
    BY <1>2, SimLoopAssumption DEF SimLoopAssumption, TypeOK, Fault
  <2> QED BY <1>1, <1>2, <1>5, <2>1, <2>2 DEF TypeOK
<1>7. InPlace' /\ RefusedIsUnknown'
  BY <1>1, <1>2, <1>3 DEF InPlace, RefusedIsUnknown, Over
<1>8. AnswerHolds'
  BY <1>1, <1>2, <1>4 DEF AnswerHolds, Current
<1> QED BY <1>1, <1>2, <1>6, <1>7, <1>8, MainMovesPreserve DEF Over

\* The main task goes to the next order, or waits for one, or asks for it.
LEMMA MainWaitsPreserves ==
    ASSUME IInv, SubmitEnds \/ AwaitNext \/ Settled \/ TimesOut \/ Return
    PROVE  IInv'
<1> USE DEF IInv
<1>1. /\ UNCHANGED <<tries, got, connected, failures, cursor, applied, final, faults>>
      /\ UNCHANGED <<done, rejected, book, state, filled, log, pos, lost, unpriced>>
      /\ UNCHANGED unsubscribed
  BY DEF SubmitEnds, AwaitNext, Settled, TimesOut, Return, streamVars, trackers, engine, history
<1>2. Len(Orders) \in Nat /\ at \in 1 .. Len(Orders) + 1
  BY CurrentIsOrder DEF TypeOK
<1>3. /\ pc \in {"submitting", "awaiting", "blocked"}
      /\ \/ /\ pc' = "awaiting" /\ at' \in 1 .. Len(Orders) + 1
            /\ timedOut' = timedOut /\ stream' = stream
         \/ /\ pc' = "blocked" /\ at' = at /\ at <= Len(Orders)
            /\ timedOut' = timedOut /\ stream' = stream
         \/ /\ pc' = "getting" /\ at' = at /\ at <= Len(Orders)
            /\ timedOut' \in {timedOut, timedOut \cup {Current}}
            /\ stream' = stream /\ (Current \in timedOut' \/ stream = "reset")
         \/ pc' = "returned" /\ at' = at /\ timedOut' = timedOut /\ stream' = "closed"
  <2>1. CASE SubmitEnds
    BY <1>2, <2>1 DEF SubmitEnds, streamVars, history
  <2>2. CASE AwaitNext
    BY <1>2, <2>2 DEF AwaitNext, streamVars, history
  <2>3. CASE Settled
    <3>1. at <= Len(Orders)
      BY <2>3 DEF Settled, InPlace
    <3> QED BY <1>2, <2>3, <3>1 DEF Settled, streamVars, history
  <2>4. CASE TimesOut
    <3>1. at <= Len(Orders)
      BY <2>4 DEF TimesOut, InPlace
    <3> QED BY <2>4, <3>1 DEF TimesOut, streamVars
  <2>5. CASE Return
    BY <2>5 DEF Return, history
  <2> QED BY <2>1, <2>2, <2>3, <2>4, <2>5
<1>4. TypeOK'
  <2>1. at <= Len(Orders) => Current \in Order
    BY <1>2, CurrentIsOrder
  <2>2. timedOut' \in SUBSET Order
    BY <1>3, <2>1 DEF TypeOK
  <2>3. at' \in 1 .. Len(Orders) + 1
    BY <1>2, <1>3
  <2>4. /\ pc' \in {"handshake", "submitting", "awaiting", "blocked", "getting", "got"} \cup Over
        /\ stream' \in {"connecting", "open", "reset", "closed"}
    BY <1>3 DEF TypeOK, Over
  <2> QED BY <1>1, <2>2, <2>3, <2>4 DEF TypeOK
<1>5. InPlace'
  BY <1>1, <1>3 DEF InPlace, Over
<1>6. RefusedIsUnknown'
  BY <1>1, <1>3 DEF RefusedIsUnknown
<1>7. AnswerHolds'
  BY <1>1, <1>3 DEF AnswerHolds, Current
<1> QED BY <1>1, <1>3, <1>4, <1>5, <1>6, <1>7, MainMovesPreserve DEF Over

-----------------------------------------------------------------------------
(* The main task submits *)

\* Answered or not, a POST is for an order that was not refused.
LEMMA PostPreserves == IInv /\ (PostAccepted \/ PostUnanswered) => IInv'
<1> SUFFICES ASSUME IInv, PostAccepted \/ PostUnanswered PROVE IInv'
  OBVIOUS
<1> USE DEF IInv
<1>1. /\ UNCHANGED <<got, connected, failures, cursor, applied, final>>
      /\ UNCHANGED <<done, rejected, book, pos, lost, timedOut, unpriced>>
      /\ UNCHANGED unsubscribed
  BY DEF PostAccepted, PostUnanswered, streamVars, trackers, history
<1>2. pc = "submitting" /\ at <= Len(Orders) /\ (Accept(Current) \/ UNCHANGED engine)
  BY DEF PostAccepted, PostUnanswered
<1>3. /\ \/ pc' = pc /\ stream' = stream
         \/ pc' = "aborted" /\ stream' = "closed" /\ at' = at
      /\ at' \in {at, at + 1} /\ tries' \in {0, tries, tries + 1}
      /\ tries' = tries + 1 => tries + 1 < MaxAttempts \/ tries' = tries \/ tries' = 0
      /\ faults' = faults \/ Fault
  BY DEF PostAccepted, PostUnanswered, Abort, streamVars
<1>4. Current \in Order /\ Current = Orders[at] /\ at \in DOMAIN Orders /\ at \in Nat
      /\ Len(Orders) \in Nat
  BY <1>2, CurrentIsOrder DEF TypeOK, Current
<1>5. Current \notin rejected
  BY <1>2, <1>4 DEF RefusedIsUnknown
<1>6. PICK c \in [Order -> [Nat -> Nat]] : EngineOK(c, state, filled, log) /\ Balance(c)
  BY DEF Accounted
<1>7. PICK d : /\ EngineOK(d, state', filled', log')
               /\ Later(Current, c, state, filled, log, d, state', filled', log')
  BY <1>2, <1>4, <1>6, AcceptGoesOn
<1>8. /\ Accounted' /\ DoneIsFinal' /\ BookMoves'
      /\ \A o \in rejected' : o \in done' /\ state'[o] = NotAtEngine
      /\ state' \in [Order -> Working \cup Terminal \cup {NotAtEngine}]
      /\ filled' \in [Order -> Nat]
      /\ log' \in Seq(Event) /\ Len(log) <= Len(log') /\ Len(log) \in Nat /\ Len(log') \in Nat
  <2>1. pc \notin Over /\ (stream' = stream \/ stream' = "closed")
    BY <1>2, <1>3 DEF Over
  <2> QED BY <1>1, <1>4, <1>5, <1>6, <1>7, <2>1, EngineMoves
<1>9. faults' \in 0 .. MaxFaults /\ (faults > 0 => faults' > 0)
  BY <1>3, SimLoopAssumption DEF SimLoopAssumption, TypeOK, Fault
<1>10. TypeOK'
  <2>1. cursor \in 0 .. Len(log') /\ pos \in 0 .. Len(log') /\ lost \in SUBSET (1 .. Len(log'))
    <3>1. cursor \in 0 .. Len(log) /\ pos \in 0 .. Len(log) /\ lost \in SUBSET (1 .. Len(log))
      BY DEF TypeOK
    <3> QED BY <1>8, <3>1, RangesGrow
  <2>2. tries' \in 0 .. MaxAttempts - 1
    <3>1. tries \in 0 .. MaxAttempts - 1 /\ MaxAttempts \in Nat \ {0}
      BY SimLoopAssumption DEF SimLoopAssumption, TypeOK
    <3> QED BY <1>3, <3>1
  <2>3. at' \in 1 .. Len(Orders) + 1
    <3>1. at \in 1 .. Len(Orders) /\ Len(Orders) \in Nat
      BY <1>4, CurrentIsOrder
    <3>2. CASE at' = at
      BY <3>1, <3>2
    <3>3. CASE at' = at + 1
      BY <3>1, <3>3
    <3> QED BY <1>3, <3>2, <3>3
  <2>4. /\ pc' \in {"handshake", "submitting", "awaiting", "blocked", "getting", "got"} \cup Over
        /\ stream' \in {"connecting", "open", "reset", "closed"}
    BY <1>3 DEF TypeOK, Over
  <2> QED BY <1>1, <1>8, <1>9, <2>1, <2>2, <2>3, <2>4 DEF TypeOK
<1>11. InPlace'
  BY <1>1, <1>2, <1>3 DEF InPlace, Over
<1>12. RefusedIsUnknown'
  <2>1. \A i \in DOMAIN Orders : i < at => i < at + 1
    BY <1>4, CurrentIsOrder
  <2> QED BY <1>1, <1>2, <1>3, <1>8, <2>1 DEF RefusedIsUnknown
<1>13. AnswerHolds'
  BY <1>2, <1>3 DEF AnswerHolds
<1>14. Skipped' /\ OversoldLate'
  BY <1>1, <1>2, <1>3, <1>9 DEF Skipped, OversoldLate, Over
<1> QED BY <1>8, <1>10, <1>11, <1>12, <1>13, <1>14

LEMMA PostRejectedPreserves == IInv /\ PostRejected => IInv'
<1> SUFFICES ASSUME IInv, PostRejected PROVE IInv'
  OBVIOUS
<1> USE DEF IInv
<1>1. /\ UNCHANGED <<pc, got, connected, stream, failures, cursor, applied, book>>
      /\ UNCHANGED <<state, filled, log, pos, faults, lost, timedOut, unpriced>>
      /\ UNCHANGED unsubscribed
  BY DEF PostRejected, streamVars, engine, history
<1>2. /\ pc = "submitting" /\ at <= Len(Orders) /\ state[Current] = NotAtEngine
      /\ rejected' = rejected \cup {Current} /\ done' = done \cup {Current}
      /\ final' = [final EXCEPT ![Current] = "REJECTED"] /\ at' = at + 1 /\ tries' = 0
  BY DEF PostRejected
<1>3. Current \in Order /\ Current = Orders[at] /\ at \in DOMAIN Orders /\ at \in Nat
      /\ Len(Orders) \in Nat
  BY <1>2, CurrentIsOrder DEF TypeOK, Current
<1>4. TypeOK'
  <2>1. tries' \in 0 .. MaxAttempts - 1
    BY <1>2, SimLoopAssumption DEF SimLoopAssumption
  <2>2. at' \in 1 .. Len(Orders) + 1
    BY <1>2, <1>3 DEF TypeOK
  <2>3. final' \in [Order -> Terminal \cup {NoState}]
    BY <1>2 DEF TypeOK, Terminal
  <2>4. done' \in SUBSET Order /\ rejected' \in SUBSET Order
    BY <1>2, <1>3 DEF TypeOK
  <2> QED BY <1>1, <2>1, <2>2, <2>3, <2>4 DEF TypeOK
<1>5. InPlace' /\ BookMoves' /\ AnswerHolds' /\ Skipped' /\ OversoldLate'
  BY <1>1, <1>2 DEF InPlace, BookMoves, AnswerHolds, Skipped, OversoldLate
<1>6. RefusedIsUnknown'
  <2>1. ASSUME NEW i \in DOMAIN Orders, Orders[i] \in rejected' PROVE i < at'
    <3>1. CASE Orders[i] = Current
      <4>1. i = at
        BY <1>3, <3>1, SimLoopAssumption DEF SimLoopAssumption
      <4> QED BY <1>2, <1>3, <4>1
    <3>2. CASE Orders[i] # Current
      <4>1. i < at /\ i \in Nat
        BY <1>2, <2>1, <3>2, CurrentIsOrder DEF RefusedIsUnknown
      <4> QED BY <1>2, <1>3, <4>1
    <3> QED BY <3>1, <3>2
  <2> QED BY <1>1, <1>2, <2>1 DEF RefusedIsUnknown
<1>7. \A o : Missed(o)' <=> Missed(o)
  BY <1>1 DEF Missed
<1>8. DoneIsFinal'
  <2>1. filled[Current] = 0 /\ applied[Current] \in Nat
    BY <1>2, <1>3 DEF Accounted, EngineOK, TypeOK
  <2>2. filled[Current] <= applied[Current]
    BY <2>1
  <2> QED BY <1>1, <1>2, <1>7, <2>2 DEF DoneIsFinal
<1>9. Accounted'
  <2>1. PICK c \in [Order -> [Nat -> Nat]] : EngineOK(c, state, filled, log) /\ Balance(c)
    BY DEF Accounted
  <2>2. EngineOK(c, state', filled', log') /\ Balance(c)'
    BY <1>1, <1>7, <2>1 DEF Balance
  <2> QED BY <2>2 DEF Accounted
<1> QED BY <1>4, <1>5, <1>6, <1>8, <1>9

-----------------------------------------------------------------------------
(* What is applied to the book *)

\* The types of what an applied quantity moves; a sell that fits leaves no short position.
LEMMA ApplyMoves ==
    ASSUME IInv, NEW x \in Order, NEW n \in Nat, Fits(x, n), Apply(x, n)
    PROVE  /\ applied' \in [Order -> Nat] /\ book' \in [Order -> Nat] /\ BookMoves'
           /\ \A o \in Order : applied'[o] = IF o = x THEN applied[x] + n ELSE applied[o]
<1> USE DEF IInv
<1>1. /\ book' = [book EXCEPT ![x] = IF Side[x] = "BUY" THEN book[x] + n ELSE book[x] - n]
      /\ applied' = [applied EXCEPT ![x] = applied[x] + n]
  BY DEF Apply
<1>2. /\ applied \in [Order -> Nat] /\ book \in [Order -> Nat] /\ Held \in [Order -> Nat]
      /\ Side \in [Order -> {"BUY", "SELL"}]
  BY SimLoopAssumption DEF TypeOK, SimLoopAssumption
<1>3. applied[x] \in Nat /\ book[x] \in Nat /\ applied[x] + n \in Nat /\ book[x] + n \in Nat
  BY <1>2
<1>4. Side[x] = "SELL" => n <= book[x] /\ book[x] - n \in Nat
  BY <1>3 DEF Fits
<1>5. (IF Side[x] = "BUY" THEN book[x] + n ELSE book[x] - n) \in Nat
  BY <1>2, <1>3, <1>4
<1>6. applied' \in [Order -> Nat] /\ book' \in [Order -> Nat]
  BY <1>1, <1>2, <1>3, <1>5
<1>7. \A o \in Order : applied'[o] = IF o = x THEN applied[x] + n ELSE applied[o]
  BY <1>1, <1>2
<1>8. BookMoves'
  <2> SUFFICES ASSUME NEW o \in Order
               PROVE  book'[o] = IF Side[o] = "BUY" THEN Held[o] + applied'[o]
                                                    ELSE Held[o] - applied'[o]
    BY DEF BookMoves
  <2>1. book[o] = IF Side[o] = "BUY" THEN Held[o] + applied[o] ELSE Held[o] - applied[o]
    BY DEF BookMoves
  <2>2. CASE o # x
    BY <1>1, <1>2, <2>1, <2>2
  <2>3. CASE o = x
    <3>1. Held[x] \in Nat
      BY <1>2
    <3>2. /\ book'[x] = IF Side[x] = "BUY" THEN book[x] + n ELSE book[x] - n
          /\ applied'[x] = applied[x] + n
      BY <1>1, <1>2
    <3>3. CASE Side[x] = "BUY"
      <4>1. book'[x] = Held[x] + applied[x] + n
        BY <2>1, <2>3, <3>2, <3>3
      <4>2. Held[x] + applied[x] + n = Held[x] + (applied[x] + n)
        BY <1>3, <3>1
      <4> QED BY <2>3, <3>2, <3>3, <4>1, <4>2
    <3>4. CASE Side[x] # "BUY"
      <4>1. book'[x] = Held[x] - applied[x] - n
        BY <2>1, <2>3, <3>2, <3>4
      <4>2. Held[x] - applied[x] - n = Held[x] - (applied[x] + n)
        BY <1>3, <3>1
      <4> QED BY <2>3, <3>2, <3>4, <4>1, <4>2
    <3> QED BY <3>3, <3>4
  <2> QED BY <2>2, <2>3
<1> QED BY <1>6, <1>7, <1>8

\* While what was applied with what comes is no more than was filled, a sell fits.
LEMMA FitsWithinFilled ==
    ASSUME IInv, NEW x \in Order, NEW n \in Nat, applied[x] + n <= filled[x]
    PROVE  Fits(x, n)
<1> USE DEF IInv
<1>1. /\ applied[x] \in Nat /\ filled[x] \in Nat /\ Held[x] \in Nat /\ Quantity[x] \in Nat
      /\ Side[x] = "SELL" => Quantity[x] <= Held[x]
  BY SimLoopAssumption DEF TypeOK, SimLoopAssumption
<1>2. filled[x] <= Quantity[x]
  BY DEF Accounted, EngineOK
<1>3. Side[x] = "SELL" => book[x] = Held[x] - applied[x]
  BY DEF BookMoves
<1> QED BY <1>1, <1>2, <1>3 DEF Fits

\* The tally between the watermark and the next frame.
LEMMA NextFrame ==
    ASSUME IInv, NEW c \in [Order -> [Nat -> Nat]], EngineOK(c, state, filled, log), Balance(c),
           stream = "open", pos < Len(log), pos + 1 > cursor, pc \notin Over
    PROVE  LET seq == pos + 1
               e == log[seq]
           IN /\ seq \in 1 .. Len(log) /\ e.order \in Order /\ e.qty \in Nat
              /\ e.state \in Working \cup Terminal
              /\ \A o \in Order :
                  /\ c[o][seq] = c[o][pos] + QtyOf(e, o)
                  /\ c[o][cursor] \in Nat /\ c[o][pos] \in Nat /\ c[o][seq] \in Nat
                  /\ c[o][cursor] <= c[o][pos] /\ c[o][seq] <= filled[o]
                  /\ Missed(o) \/ c[o][cursor] = c[o][pos]
              /\ e.state \in Terminal =>
                  state[e.order] \in Terminal /\ c[e.order][seq] = filled[e.order]
<1> USE DEF IInv
<1> DEFINE seq == pos + 1
           e == log[seq]
           len == Len(log)
<1>1. /\ len \in Nat /\ log \in Seq(Event) /\ pos \in 0 .. len /\ cursor \in 0 .. len
      /\ cursor + 1 .. pos \subseteq lost
  BY LenIsNat DEF TypeOK, Skipped
<1>2. /\ seq \in 1 .. len /\ seq \in 0 .. len /\ pos \in cursor .. len /\ len \in seq .. len
      /\ seq - 1 = pos /\ pos \in Nat /\ cursor \in Nat /\ seq \in Nat /\ len \in Nat
  BY <1>1
<1>3. e \in Event
  BY <1>1, <1>2
<1>4. e.order \in Order /\ e.qty \in Nat /\ e.state \in Working \cup Terminal
  BY <1>3 DEF Event
<1>5. Tally(c, log) /\ \A o \in Order : c[o][len] = filled[o]
  BY DEF EngineOK
<1> HIDE DEF seq, e, len
<1>6. ASSUME NEW o \in Order
      PROVE  /\ c[o][seq] = c[o][pos] + QtyOf(e, o)
             /\ c[o][cursor] \in Nat /\ c[o][pos] \in Nat /\ c[o][seq] \in Nat
             /\ c[o][cursor] <= c[o][pos] /\ c[o][seq] <= filled[o]
             /\ Missed(o) \/ c[o][cursor] = c[o][pos]
  <2>1. /\ \A i \in 1 .. len : c[o][i] = c[o][i - 1] + QtyOf(log[i], o)
        /\ \A i \in 0 .. len : \A j \in i .. len :
            /\ c[o][i] <= c[o][j]
            /\ c[o][i] = c[o][j] \/ \E k \in i + 1 .. j : log[k].order = o
    BY <1>5 DEF Tally, len
  <2>2. c[o][seq] = c[o][pos] + QtyOf(e, o)
    BY <1>2, <2>1 DEF e
  <2>3. c[o][cursor] \in Nat /\ c[o][pos] \in Nat /\ c[o][seq] \in Nat
    BY <1>2
  <2>4. c[o][cursor] <= c[o][pos] /\ c[o][seq] <= c[o][len]
    BY <1>1, <1>2, <2>1
  <2>5. c[o][cursor] = c[o][pos] \/ \E k \in cursor + 1 .. pos : log[k].order = o
    BY <1>1, <1>2, <2>1
  <2>6. Missed(o) \/ c[o][cursor] = c[o][pos]
    BY <1>1, <2>5 DEF Missed
  <2> QED BY <1>5, <2>2, <2>3, <2>4, <2>6
<1>7. ASSUME e.state \in Terminal
      PROVE  state[e.order] \in Terminal /\ c[e.order][seq] = filled[e.order]
  <2>1. /\ state[e.order] \in Terminal
        /\ \A m \in seq + 1 .. len : log[m].order # e.order
    BY <1>2, <1>7 DEF EngineOK, e, len
  <2>2. c[e.order][seq] = c[e.order][len] \/ \E k \in seq + 1 .. len : log[k].order = e.order
    BY <1>2, <1>4, <1>5 DEF Tally, len
  <2> QED BY <1>4, <1>5, <2>1, <2>2
<1> QED BY <1>2, <1>4, <1>6, <1>7 DEF seq, e, len

-----------------------------------------------------------------------------
(* A frame is delivered *)

\* A frame that arrives is never before the handshake: nothing was published then.
LEMMA DeliverPreserves == IInv /\ Deliver => IInv'
<1> SUFFICES ASSUME IInv, Deliver PROVE IInv'
  OBVIOUS
<1> USE DEF IInv
<1> DEFINE seq == pos + 1
           e == log[seq]
<1>1. /\ UNCHANGED <<at, tries, got, connected, state, filled, log, faults, lost>>
      /\ UNCHANGED <<timedOut, unpriced, unsubscribed, rejected>>
  BY DEF Deliver, engine, history, trackers
<1>2. /\ pc \notin Over /\ stream = "open" /\ pos < Len(log) /\ pos' = seq /\ failures' = 0
      /\ IF ~(seq > cursor)
         THEN UNCHANGED <<pc, stream, cursor, applied, final, done, book>>
         ELSE /\ cursor' = seq
              /\ IF Fits(e.order, e.qty)
                 THEN /\ Apply(e.order, e.qty)
                      /\ IF e.state \in Terminal
                         THEN /\ final' = [final EXCEPT ![e.order] = e.state]
                              /\ done' = done \cup {e.order}
                         ELSE UNCHANGED <<final, done>>
                      /\ UNCHANGED <<pc, stream>>
                 ELSE /\ Abort("oversold")
                      /\ UNCHANGED <<book, applied, final, done>>
  BY DEF Deliver, Running, IsNew, trackers
<1>3. /\ pos \in 0 .. Len(log) /\ cursor \in 0 .. Len(log) /\ Len(log) \in Nat /\ log \in Seq(Event)
      /\ MaxAttempts \in Nat \ {0}
  BY LenIsNat, SimLoopAssumption DEF TypeOK, SimLoopAssumption
<1>4. /\ seq \in 0 .. Len(log) /\ failures' \in 0 .. MaxAttempts /\ failures' < MaxAttempts
  BY <1>2, <1>3
<1>5. Current' = Current /\ \A o : Missed(o)' <=> Missed(o)
  BY <1>1 DEF Current, Missed
<1>6. CASE ~(seq > cursor)
  <2>1. UNCHANGED <<pc, stream, cursor, applied, final, done, book>>
    BY <1>2, <1>6
  <2>2. TypeOK'
    BY <1>1, <1>2, <1>4, <2>1 DEF TypeOK
  <2>3. InPlace' /\ RefusedIsUnknown' /\ AnswerHolds' /\ OversoldLate'
    BY <1>1, <1>4, <1>5, <2>1 DEF InPlace, RefusedIsUnknown, AnswerHolds, OversoldLate
  <2>4. Skipped'
    <3>1. cursor + 1 .. seq = {}
      BY <1>3, <1>6
    <3> QED BY <1>1, <1>2, <2>1, <3>1 DEF Skipped
  <2>5. Accounted' /\ DoneIsFinal' /\ BookMoves'
    BY <1>1, <2>1, QuietStep
  <2> QED BY <2>2, <2>3, <2>4, <2>5
<1>7. CASE seq > cursor
  <2>1. PICK c \in [Order -> [Nat -> Nat]] : EngineOK(c, state, filled, log) /\ Balance(c)
    BY DEF Accounted
  <2>2. /\ seq \in 1 .. Len(log) /\ e.order \in Order /\ e.qty \in Nat
        /\ e.state \in Working \cup Terminal
        /\ e.state \in Terminal =>
             state[e.order] \in Terminal /\ c[e.order][seq] = filled[e.order]
    BY <1>2, <1>7, <2>1, NextFrame
  <2>3. \A o \in Order :
          /\ c[o][seq] = c[o][pos] + QtyOf(e, o)
          /\ c[o][cursor] \in Nat /\ c[o][pos] \in Nat /\ c[o][seq] \in Nat
          /\ c[o][cursor] <= c[o][pos] /\ c[o][seq] <= filled[o]
          /\ Missed(o) \/ c[o][cursor] = c[o][pos]
    BY <1>2, <1>7, <2>1, NextFrame
  <2>4. \A o \in Order : applied[o] \in Nat /\ filled[o] \in Nat /\ QtyOf(e, o) \in Nat
                         /\ QtyOf(e, o) = IF o = e.order THEN e.qty ELSE 0
    BY <2>2 DEF TypeOK, QtyOf
  <2>5. \A o \in Order : /\ Missed(o) \/ c[o][cursor] <= applied[o]
                         /\ o \in timedOut \/ applied[o] <= c[o][cursor]
    BY <1>2, <2>1 DEF Balance, Over
  <2>6. cursor' = seq
    BY <1>2, <1>7
  <2> HIDE DEF seq, e
  <2>7. CASE Fits(e.order, e.qty)
    <3>1. /\ Apply(e.order, e.qty) /\ UNCHANGED <<pc, stream>>
          /\ \/ e.state \in Terminal /\ final' = [final EXCEPT ![e.order] = e.state]
                /\ done' = done \cup {e.order}
             \/ UNCHANGED <<final, done>>
      BY <1>2, <1>7, <2>7
    <3>2. /\ applied' \in [Order -> Nat] /\ book' \in [Order -> Nat] /\ BookMoves'
          /\ \A o \in Order : applied'[o] = applied[o] + QtyOf(e, o)
      <4>1. /\ applied' \in [Order -> Nat] /\ book' \in [Order -> Nat] /\ BookMoves'
            /\ \A o \in Order : applied'[o] = IF o = e.order THEN applied[e.order] + e.qty
                                                             ELSE applied[o]
        BY <2>2, <2>7, <3>1, ApplyMoves
      <4>2. \A o \in Order : applied'[o] = applied[o] + QtyOf(e, o)
        BY SMTT(30), <2>4, <4>1
      <4> QED BY <4>1, <4>2
    <3>3. \A o \in Order :
            /\ Missed(o) \/ c[o][seq] <= applied'[o]
            /\ o \in timedOut \/ applied'[o] <= c[o][seq]
            /\ applied[o] <= applied'[o] /\ applied'[o] \in Nat
      <4>1. SUFFICES ASSUME NEW o \in Order
                     PROVE  /\ Missed(o) \/ c[o][seq] <= applied'[o]
                            /\ o \in timedOut \/ applied'[o] <= c[o][seq]
                            /\ applied[o] <= applied'[o] /\ applied'[o] \in Nat
        OBVIOUS
      <4>2. \A a, q, k, p, s, b \in Nat :
              s = p + q /\ b = a + q /\ k <= p =>
                /\ k = p /\ k <= a => s <= b
                /\ a <= k => b <= s
                /\ a <= b
        OBVIOUS
      <4>3. applied'[o] = applied[o] + QtyOf(e, o) /\ applied'[o] \in Nat
        BY <3>2
      <4> QED BY <2>3, <2>4, <2>5, <4>2, <4>3
    <3>4. TypeOK'
      <4>1. final' \in [Order -> Terminal \cup {NoState}] /\ done' \in SUBSET Order
        BY <2>2, <3>1 DEF TypeOK
      <4> QED BY <1>1, <1>2, <1>4, <2>6, <3>1, <3>2, <4>1 DEF TypeOK
    <3>5. InPlace' /\ AnswerHolds' /\ OversoldLate'
      BY <1>1, <1>4, <1>5, <3>1 DEF InPlace, AnswerHolds, OversoldLate
    <3>6. RefusedIsUnknown'
      BY <1>1, <3>1 DEF RefusedIsUnknown
    <3>7. Skipped'
      <4>1. seq + 1 .. seq = {}
        BY <1>3 DEF seq
      <4> QED BY <1>1, <1>2, <2>6, <3>1, <4>1 DEF Skipped
    <3>8. DoneIsFinal'
      <4> SUFFICES ASSUME NEW o \in done'
                   PROVE  /\ state[o] \in Terminal \/ o \in rejected
                          /\ Missed(o) \/ o \in unpriced' \/ filled[o] <= applied'[o]
        BY <1>1, <1>5 DEF DoneIsFinal
      <4>1. CASE o \in done
        <5>1. o \in Order
          BY <4>1 DEF TypeOK
        <5>2. /\ state[o] \in Terminal \/ o \in rejected
              /\ Missed(o) \/ o \in unpriced \/ filled[o] <= applied[o]
          BY <4>1 DEF DoneIsFinal
        <5>3. filled[o] \in Nat /\ applied[o] \in Nat /\ applied'[o] \in Nat
              /\ applied[o] <= applied'[o]
          BY <2>4, <3>3, <5>1
        <5> QED BY <1>1, <5>2, <5>3
      <4>2. CASE o \notin done
        <5>1. o = e.order /\ e.state \in Terminal
          BY <3>1, <4>2
        <5> QED BY <2>2, <3>3, <5>1
      <4> QED BY <4>1, <4>2
    <3>9. Accounted'
      <4>1. Balance(c)'
        BY <1>1, <1>5, <2>6, <3>3 DEF Balance
      <4> QED BY <1>1, <2>1, <4>1 DEF Accounted
    <3> QED BY <3>2, <3>4, <3>5, <3>6, <3>7, <3>8, <3>9
  <2>8. CASE ~Fits(e.order, e.qty)
    <3>1. pc' = "oversold" /\ stream' = "closed" /\ UNCHANGED <<book, applied, final, done>>
      BY <1>2, <1>7, <2>8 DEF Abort
    <3>2. TypeOK'
      BY <1>1, <1>2, <1>4, <2>6, <3>1 DEF TypeOK, Over
    <3>3. InPlace' /\ BookMoves' /\ RefusedIsUnknown' /\ DoneIsFinal' /\ AnswerHolds' /\ Skipped'
      BY <1>1, <1>5, <3>1
         DEF InPlace, BookMoves, RefusedIsUnknown, DoneIsFinal, AnswerHolds, Skipped, Over
    <3>4. OversoldLate'
      <4>1. e.order \in timedOut
        <5> SUFFICES ASSUME e.order \notin timedOut PROVE FALSE
          OBVIOUS
        <5> DEFINE o == e.order
        <5>1. applied[o] <= c[o][cursor] /\ QtyOf(e, o) = e.qty /\ o \in Order
          BY <2>2, <2>4, <2>5
        <5>2. \A a, q, k, p, s, f \in Nat :
                s = p + q /\ k <= p /\ a <= k /\ s <= f => a + q <= f
          OBVIOUS
        <5>3. /\ c[o][seq] = c[o][pos] + e.qty
              /\ c[o][cursor] \in Nat /\ c[o][pos] \in Nat /\ c[o][seq] \in Nat
              /\ c[o][cursor] <= c[o][pos] /\ c[o][seq] <= filled[o]
              /\ applied[o] \in Nat /\ filled[o] \in Nat /\ e.qty \in Nat
          BY <2>2, <2>3, <2>4, <5>1
        <5> HIDE DEF o
        <5>4. applied[o] + e.qty <= filled[o]
          BY <5>1, <5>2, <5>3
        <5> QED BY <2>2, <2>8, <5>4, FitsWithinFilled DEF o
      <4> QED BY <1>1, <4>1 DEF OversoldLate
    <3>5. Accounted'
      <4>1. \A o \in Order : o \in timedOut \/ applied[o] <= c[o][seq]
        <5>1. \A a, q, k, p, s \in Nat : s = p + q /\ k <= p /\ a <= k => a <= s
          OBVIOUS
        <5>2. SUFFICES ASSUME NEW o \in Order, o \notin timedOut PROVE applied[o] <= c[o][seq]
          OBVIOUS
        <5>3. /\ c[o][seq] = c[o][pos] + QtyOf(e, o) /\ c[o][cursor] <= c[o][pos]
              /\ c[o][cursor] \in Nat /\ c[o][pos] \in Nat /\ c[o][seq] \in Nat
          BY <2>3
        <5>4. applied[o] \in Nat /\ QtyOf(e, o) \in Nat
          BY <2>4
        <5>5. applied[o] <= c[o][cursor]
          BY <2>5, <5>2
        <5> QED BY <5>1, <5>3, <5>4, <5>5
      <4>2. Balance(c)'
        BY <1>1, <1>5, <2>6, <3>1, <4>1 DEF Balance
      <4> QED BY <1>1, <2>1, <4>2 DEF Accounted
    <3> QED BY <3>2, <3>3, <3>4, <3>5
  <2> QED BY <2>7, <2>8
<1> QED BY <1>6, <1>7

-----------------------------------------------------------------------------
(* The answer of GET is used *)

LEMMA ReconcilePreserves == IInv /\ Reconcile => IInv'
<1> SUFFICES ASSUME IInv, Reconcile PROVE IInv'
  OBVIOUS
<1> USE DEF IInv
<1>1. /\ UNCHANGED <<tries, connected, failures, cursor, rejected, state, filled, log, pos, faults>>
      /\ UNCHANGED <<lost, timedOut, unsubscribed>>
  BY DEF Reconcile, engine
<1>2. /\ pc = "got" /\ got' = NoSnapshot
  BY DEF Reconcile
<1>2a. NoSnapshot \in Snapshot
  BY DEF NoSnapshot, Snapshot
<1>3. at <= Len(Orders) /\ Current \in Order /\ Len(Orders) \in Nat /\ at \in 1 .. Len(Orders) + 1
  BY <1>2, CurrentIsOrder DEF InPlace, TypeOK
<1>4. \A o : Missed(o)' <=> Missed(o)
  BY <1>1 DEF Missed
<1>5. /\ got.filled \in Nat /\ applied[Current] \in Nat /\ filled[Current] \in Nat
      /\ book[Current] \in Nat
  BY <1>3, AnswerFields DEF TypeOK
<1>6. Residual \in Nat /\ Residual = IF got.filled > applied[Current]
                                     THEN got.filled - applied[Current] ELSE 0
  BY <1>5 DEF Residual
<1>7. CASE got.state \notin Terminal
  <2>1. /\ final' = [final EXCEPT ![Current] = NoState] /\ pc' = "awaiting" /\ at' = at + 1
        /\ UNCHANGED <<stream, applied, done, book, unpriced>>
    BY <1>7 DEF Reconcile
  <2>2. TypeOK'
    <3>1. at' \in 1 .. Len(Orders) + 1
      BY <1>3, <2>1
    <3>2. final' \in [Order -> Terminal \cup {NoState}]
      BY <2>1 DEF TypeOK
    <3> QED BY <1>1, <1>2, <1>2a, <2>1, <3>1, <3>2 DEF TypeOK
  <2>3. InPlace' /\ RefusedIsUnknown' /\ AnswerHolds' /\ Skipped' /\ OversoldLate'
    BY <1>1, <1>2, <2>1
       DEF InPlace, RefusedIsUnknown, AnswerHolds, Skipped, OversoldLate, Over
  <2>4. Accounted' /\ DoneIsFinal' /\ BookMoves'
    BY <1>1, <1>2, <2>1, QuietStep
  <2> QED BY <2>2, <2>3, <2>4
<1>8. CASE got.state \in Terminal
  <2>1. /\ state[Current] = got.state /\ filled[Current] = got.filled
        /\ Current \in timedOut \/ stream \in {"reset", "closed"}
    BY <1>2, <1>8 DEF AnswerHolds
  <2>2. Fits(Current, Residual)
    <3>1. CASE Residual = 0
      BY <1>5, <3>1 DEF Fits
    <3>2. CASE Residual # 0
      <4>1. applied[Current] + Residual <= filled[Current]
        BY <1>5, <1>6, <2>1, <3>2
      <4> QED BY <1>3, <1>6, <4>1, FitsWithinFilled
    <3> QED BY <3>1, <3>2
  <2>3. /\ \/ got.priced /\ Apply(Current, Residual) /\ UNCHANGED unpriced
           \/ /\ ~got.priced /\ UNCHANGED <<applied, book>>
              /\ unpriced' = IF Residual > 0 THEN unpriced \cup {Current} ELSE unpriced
        /\ final' = [final EXCEPT ![Current] = got.state] /\ done' = done \cup {Current}
        /\ pc' = "awaiting" /\ at' = at + 1 /\ stream' = stream
    BY <1>8, <2>2 DEF Reconcile
  <2>4. /\ applied' \in [Order -> Nat] /\ book' \in [Order -> Nat] /\ BookMoves'
        /\ \A o \in Order : o # Current => applied'[o] = applied[o]
        /\ applied'[Current] = IF got.priced THEN applied[Current] + Residual
                                             ELSE applied[Current]
        /\ unpriced' \in SUBSET Order /\ unpriced \subseteq unpriced'
        /\ got.priced \/ Residual = 0 \/ Current \in unpriced'
    <3>1. CASE got.priced
      <4>1. /\ applied' \in [Order -> Nat] /\ book' \in [Order -> Nat] /\ BookMoves'
            /\ \A o \in Order : applied'[o] = IF o = Current THEN applied[Current] + Residual
                                                             ELSE applied[o]
        BY <1>3, <1>6, <2>2, <2>3, <3>1, ApplyMoves
      <4> QED BY <1>3, <2>3, <3>1, <4>1 DEF TypeOK
    <3>2. CASE ~got.priced
      <4>1. BookMoves'
        BY <2>3, <3>2 DEF BookMoves
      <4> QED BY <1>3, <1>6, <2>3, <3>2, <4>1 DEF TypeOK
    <3> QED BY <3>1, <3>2
  <2>5. /\ Current \in unpriced' \/ filled[Current] <= applied'[Current]
        /\ applied[Current] <= applied'[Current]
        /\ applied'[Current] = applied[Current] \/ applied'[Current] <= filled[Current]
    BY <1>5, <1>6, <2>1, <2>4
  <2>6. TypeOK'
    <3>1. at' \in 1 .. Len(Orders) + 1
      BY <1>3, <2>3
    <3>2. final' \in [Order -> Terminal \cup {NoState}] /\ done' \in SUBSET Order
      BY <1>3, <1>8, <2>3 DEF TypeOK
    <3> QED BY <1>1, <1>2, <1>2a, <2>3, <2>4, <3>1, <3>2 DEF TypeOK
  <2>7. InPlace' /\ RefusedIsUnknown' /\ AnswerHolds' /\ Skipped' /\ OversoldLate'
    BY <1>1, <1>2, <2>3
       DEF InPlace, RefusedIsUnknown, AnswerHolds, Skipped, OversoldLate, Over
  <2>8. DoneIsFinal'
    <3> SUFFICES ASSUME NEW o \in done'
                 PROVE  /\ state[o] \in Terminal \/ o \in rejected
                        /\ Missed(o) \/ o \in unpriced' \/ filled[o] <= applied'[o]
      BY <1>1, <1>4 DEF DoneIsFinal
    <3>1. CASE o = Current
      BY <1>8, <2>1, <2>5, <3>1
    <3>2. CASE o # Current
      <4>1. o \in done /\ o \in Order
        BY <2>3, <3>2 DEF TypeOK
      <4> QED BY <2>4, <3>2, <4>1 DEF DoneIsFinal
    <3> QED BY <3>1, <3>2
  <2>9. Accounted'
    <3>1. PICK c \in [Order -> [Nat -> Nat]] : EngineOK(c, state, filled, log) /\ Balance(c)
      BY DEF Accounted
    <3>2. ASSUME NEW o \in Order
          PROVE  /\ Missed(o) \/ c[o][cursor] <= applied'[o]
                 /\ \/ o \in timedOut
                    \/ applied'[o] <= c[o][cursor]
                    \/ stream \in {"reset", "closed"} /\ applied'[o] <= filled[o]
      <4>1. /\ Missed(o) \/ c[o][cursor] <= applied[o]
            /\ \/ o \in timedOut
               \/ applied[o] <= c[o][cursor]
               \/ stream \in {"reset", "closed"} /\ applied[o] <= filled[o]
        BY <1>2, <3>1 DEF Balance
      <4>2. CASE o # Current
        BY <2>4, <4>1, <4>2
      <4>3. CASE o = Current
        <5>1. cursor \in Nat /\ c[o][cursor] \in Nat /\ applied[o] \in Nat /\ applied'[o] \in Nat
          <6>1. cursor \in Nat
            BY LenIsNat DEF TypeOK
          <6> QED BY <1>5, <2>4, <4>3, <6>1
        <5>2. Missed(o) \/ c[o][cursor] <= applied'[o]
          BY <2>5, <4>1, <4>3, <5>1
        <5> QED BY <2>1, <2>5, <4>1, <4>3, <5>2
      <4> QED BY <4>2, <4>3
    <3>3. Balance(c)'
      BY <1>1, <1>4, <2>3, <3>2 DEF Balance
    <3> QED BY <1>1, <3>1, <3>3 DEF Accounted
  <2> QED BY <2>4, <2>6, <2>7, <2>8, <2>9
<1> QED BY <1>7, <1>8

-----------------------------------------------------------------------------
(* The run *)

LEMMA StepPreserves == IInv /\ [Next]_vars => IInv'
<1> SUFFICES ASSUME IInv, [Next]_vars PROVE IInv'
  OBVIOUS
<1>1. CASE UNCHANGED vars
  BY <1>1, StutterPreserves
<1>2. CASE Connect
  BY <1>2, ConnectPreserves
<1>3. CASE StreamDrops \/ StreamRefused \/ StreamReset
  BY <1>3, StreamFaultPreserves
<1>4. CASE StreamGap
  BY <1>4, StreamGapPreserves
<1>5. CASE Deliver
  BY <1>5, DeliverPreserves
<1>6. ASSUME NEW o \in Order, EngineFill(o) \/ EngineExpire(o) PROVE IInv'
  BY <1>6, EngineStepPreserves
<1>7. CASE HandshakeDone \/ HandshakeTimeout
  BY <1>7, HandshakePreserves
<1>8. CASE PostAccepted \/ PostUnanswered
  BY <1>8, PostPreserves
<1>9. CASE PostRejected
  BY <1>9, PostRejectedPreserves
<1>10. CASE RequestRefused
  BY <1>10, RequestRefusedPreserves
<1>11. CASE SubmitEnds \/ AwaitNext \/ Settled \/ TimesOut \/ Return
  BY <1>11, MainWaitsPreserves
<1>12. CASE GetAnswered
  BY <1>12, GetAnsweredPreserves
<1>13. CASE GetUnanswered
  BY <1>13, GetUnansweredPreserves
<1>14. CASE Reconcile
  BY <1>14, ReconcilePreserves
<1> QED BY <1>1, <1>2, <1>3, <1>4, <1>5, <1>6, <1>7, <1>8, <1>9, <1>10, <1>11, <1>12, <1>13, <1>14
           DEF Next, Main

\* Whatever the streams, the engine and the requests do, in any order and with any
\* faults (execution/sim_loop.py, engine_adapter.py): the book and the watermark stay
\* accounted for by what the engine published.
THEOREM Inductive == Spec => []IInv
<1>1. Init => IInv
  BY InitEstablishes
<1>2. IInv /\ [Next]_vars => IInv'
  BY StepPreserves
<1> QED BY <1>1, <1>2, PTL DEF Spec

\* The trackers, the stream and the answers keep their types: no order is oversold into
\* a short position, no retry counter passes its limit, the watermark stays in the log.
THEOREM TypeCorrect == Spec => []TypeOK
<1>1. IInv => TypeOK
  BY DEF IInv
<1> QED BY <1>1, Inductive, PTL

\* "Single-source fills" of sim_loop.py, for every list of orders: the book runs ahead of
\* the engine, and an oversell gives the run up, only after a wait timed out.
THEOREM AheadOnlyAfterTimeoutHolds == Spec => []AheadOnlyAfterTimeout
<1>1. IInv => AheadOnlyAfterTimeout
  <2> SUFFICES ASSUME IInv PROVE AheadOnlyAfterTimeout
    OBVIOUS
  <2> USE DEF IInv
  <2>1. PICK c \in [Order -> [Nat -> Nat]] : EngineOK(c, state, filled, log) /\ Balance(c)
    BY DEF Accounted
  <2>2. Len(log) \in Nat /\ cursor \in 0 .. Len(log)
    BY LenIsNat DEF TypeOK
  <2>3. ASSUME NEW o \in Order, applied[o] > filled[o] PROVE o \in timedOut
    <3>1. c[o][cursor] <= c[o][Len(log)] /\ c[o][Len(log)] = filled[o]
      <4>1. cursor \in 0 .. Len(log) /\ Len(log) \in cursor .. Len(log)
        BY <2>2
      <4> QED BY <2>1, <4>1 DEF EngineOK, Tally
    <3>2. applied[o] \in Nat /\ filled[o] \in Nat /\ c[o][cursor] \in Nat
      <4>1. cursor \in Nat
        BY <2>2
      <4> QED BY <4>1 DEF TypeOK
    <3>3. ~(applied[o] <= filled[o]) /\ ~(applied[o] <= c[o][cursor])
      <4>1. \A a, f, k \in Nat : a > f /\ k <= f => ~(a <= f) /\ ~(a <= k)
        OBVIOUS
      <4>2. c[o][cursor] <= filled[o]
        BY <3>1
      <4> QED BY <2>3, <3>2, <4>1, <4>2
    <3>4. \/ o \in timedOut
          \/ applied[o] <= c[o][cursor]
          \/ applied[o] <= filled[o]
      BY <2>1 DEF Balance
    <3> QED BY <3>3, <3>4
  <2> QED BY <2>3 DEF AheadOnlyAfterTimeout, OversoldLate
<1> QED BY <1>1, Inductive, PTL

\* An order that is settled, by the stream or by the residual of a GET
\* (_apply_event, _reconcile_via_get), is in the book in full, or its GET came without an
\* average price, or the connection skipped one of its events after a handshake timeout or
\* a fault.
THEOREM SettledIsCompleteHolds == Spec => []SettledIsComplete
<1>1. IInv => SettledIsComplete
  <2> SUFFICES ASSUME IInv, NEW o \in done, applied[o] < filled[o]
               PROVE  \/ o \in unpriced
                      \/ /\ \E s \in lost : log[s].order = o
                         /\ unsubscribed \/ faults > 0
    BY DEF SettledIsComplete
  <2> USE DEF IInv
  <2>1. o \in Order /\ applied[o] \in Nat /\ filled[o] \in Nat
    BY DEF TypeOK
  <2>2. ~(filled[o] <= applied[o])
    BY <2>1
  <2>3. Missed(o) \/ o \in unpriced
    BY <2>2 DEF DoneIsFinal
  <2> QED BY <2>3 DEF Missed, Skipped
<1> QED BY <1>1, Inductive, PTL
=============================================================================
