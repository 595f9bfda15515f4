------------------------- MODULE DailyRefreshProofs -------------------------
(***************************************************************************)
(* What the daily refresh guarantees for any set of callers, any book and  *)
(* universe, any calendar, any connections and any limits: the rows it     *)
(* leaves behind, the days it skips, the panels it keeps in step, what a   *)
(* run that completes has reported, and when a valuation may go back.      *)
(***************************************************************************)
EXTENDS DailyRefresh, WellFoundedInduction, TLAPS

(***************************************************************************)
(* The inductive invariant.                                                *)
(***************************************************************************)

\* A request that is tried again has an attempt left; elsewhere none is counted.
AttemptsLeft == \A r \in Runner : tries[r] < Attempts(pc[r])

\* Since the last capture the endpoint and the cache have agreed, and it was not empty.
PolledIsBanked == polled => banked = published /\ published # {}

\* The loop is held by the one run that is between two awaits.
OneWorks == \A r \in Runner : pc[r] \in Working <=> busy = r

\* Until the hook loads the prices, a run has the bars it fetched and no others.
FetchedOnly ==
    \A r \in Runner :
        /\ pc[r] = "idle" => got[r] = {}
        /\ pc[r] \in {"idle", "held", "universe"} =>
            \A s \in Held \ got[r] : \A d \in Day : frames[r][s][d] = 0

\* Every price that is stored or held anywhere was served, for a session begun.
Served ==
    \A s \in Held, d \in Day :
        /\ bars[s][d] > 0 => d \in Open /\ d <= today
        /\ prices.bars[s][d] <= bars[s][d]
        /\ \A r \in Runner : frames[r][s][d] <= bars[s][d]
        /\ equity[d][s] <= bars[s][d]
        /\ gateway[d].row[s] <= bars[s][d]

\* The hook goes past the snapshot only with a day to value the book on.
Valued ==
    \A r \in Runner :
        pc[r] \in {"equity", "checking", "gateway", "answer"} => PricedDays(frames[r]) # {}

\* Nothing is built or loaded that is newer than the prices.
NeverAhead ==
    /\ features.version <= prices.version
    /\ backtest.prices = None
    /\ backtest.features # None => backtest.features <= prices.version

\* From one save to the next the panel follows the prices; while it is being stored
\* it is torn, and already that of the prices on disk.
PanelFollows ==
    /\ (busy = Nobody \/ pc[busy] = "saving") /\ prices.whole /\ features.is = "whole" =>
        \/ features.version = prices.version
        \/ prices.version \in unbuilt
    /\ \A r \in Runner : pc[r] = "storing" => features.version = prices.version

\* A run that fetched anything builds from, and then loads, what it has saved.
OwnPrices ==
    \A r \in Runner :
        pc[r] \in {"building", "storing"} /\ got[r] # {} =>
            prices.whole /\ prices.bars = frames[r]

\* A run no other run wrote rows beside has bars at least as settled as the rows.
NoOlder ==
    \A r \in Runner :
        ~raced[r] /\ got[r] # {} =>
            \A s \in Held, d \in Day :
                frames[r][s][d] > 0 =>
                    /\ equity[d][s] <= frames[r][s][d]
                    /\ gateway[d].row[s] <= frames[r][s][d]

\* What a run wrote without a failure is there.
Reported ==
    \A r \in Runner :
        /\ ~failed[r] /\ "postgres" \in slots =>
            (pc[r] \in {"checking", "gateway", "answer"} =>
                \A d \in PricedDays(frames[r]) : equity[d] # NoRow)
        /\ pc[r] = "answer" => gateway[BarDate(frames[r])] # NoReport

\* A copy on its way is of a day the book was priced on, and no older than the row it
\* replaces unless another report has overtaken it.
Kept(c) ==
    /\ c.report.of = c.day
    /\ \A s \in Held :
        /\ c.report.row[s] > 0 /\ c.report.row[s] <= bars[s][c.day]
        /\ ~c.stale => gateway[c.day].row[s] <= c.report.row[s]

LateCopies == \A c \in wire : Kept(c)

IInv ==
    /\ TypeOK
    /\ OneWorks
    /\ FetchedOnly
    /\ Served
    /\ RowsAreReal
    /\ Valued
    /\ PolledIsBanked
    /\ LateCopies
    /\ NeverAhead
    /\ PanelFollows
    /\ OwnPrices
    /\ NoOlder
    /\ Reported

-----------------------------------------------------------------------------
(* The days a panel prices, and the last of them *)

LEMMA LastExists ==
    ASSUME NEW T \in SUBSET Day, T # {}
    PROVE  \E x \in T : \A y \in T : y <= x
<1> DEFINE Back == {LastDay - d : d \in T}
<1>1. LastDay \in Nat
  BY DailyRefreshAssumption DEF DailyRefreshAssumption
<1>2. Back \subseteq Nat /\ Back # {}
  <2>1. \A d \in T : LastDay - d \in Nat
    BY <1>1 DEF Day
  <2> QED BY <2>1
<1>3. PICK b \in Back : \A c \in Back : ~ (<<c, b>> \in OpToRel(<, Nat))
  <2> HIDE DEF Back
  <2> QED BY <1>2, WFMin, NatLessThanWellFounded
<1>4. \A c \in Back : b <= c
  <2> SUFFICES ASSUME NEW c \in Back PROVE b <= c
    OBVIOUS
  <2> HIDE DEF Back
  <2>1. ~ (c < b)
    BY <1>2, <1>3 DEF OpToRel
  <2> QED BY <1>2, <2>1
<1>5. PICK x \in T : b = LastDay - x
  OBVIOUS
<1>6. ASSUME NEW y \in T PROVE y <= x
  BY <1>1, <1>4, <1>5, LastDay - y \in Back DEF Day
<1> QED BY <1>6

\* BarDate is the last day the whole book is priced on.
LEMMA BarDateIsLast ==
    ASSUME NEW panel, PricedDays(panel) # {}
    PROVE  /\ BarDate(panel) \in PricedDays(panel)
           /\ BarDate(panel) \in Day
           /\ \A e \in PricedDays(panel) : e <= BarDate(panel)
<1>1. PricedDays(panel) \in SUBSET Day
  BY DEF PricedDays
<1>2. \E x \in PricedDays(panel) : \A e \in PricedDays(panel) : e <= x
  BY <1>1, LastExists
<1> DEFINE P == PricedDays(panel)
<1> HIDE DEF P
<1>3. \E x \in P : \A e \in P : e <= x
  BY <1>2 DEF P
<1>4. BarDate(panel) = CHOOSE d \in P : \A e \in P : e <= d
  BY DEF BarDate, P
<1>5. BarDate(panel) \in P /\ \A e \in P : e <= BarDate(panel)
  BY <1>3, <1>4
<1> QED BY <1>1, <1>5 DEF P

\* A fully priced row is a row, and not the empty one.
LEMMA PricedRow ==
    ASSUME NEW panel \in Bars, NEW d \in PricedDays(panel)
    PROVE  /\ d \in Day
           /\ DailyBars(panel, d) \in Row
           /\ DailyBars(panel, d) # NoRow
           /\ \A s \in Held : DailyBars(panel, d)[s] = panel[s][d] /\ panel[s][d] > 0
<1>1. d \in Day /\ \A s \in Held : DailyBars(panel, d)[s] = panel[s][d] /\ panel[s][d] > 0
  BY DEF PricedDays, DailyBars
<1>2. DailyBars(panel, d) \in Row
  BY <1>1 DEF DailyBars, Bars, Row
<1>3. PICK s \in Held : TRUE
  BY DailyRefreshAssumption DEF DailyRefreshAssumption
<1>4. NoRow[s] = 0
  BY DEF NoRow
<1>5. DailyBars(panel, d)[s] > 0
  BY <1>1
<1>6. DailyBars(panel, d) # NoRow
  BY <1>4, <1>5
<1> QED BY <1>1, <1>2, <1>6

LEMMA EmptyPanel == NoBars \in Bars /\ NoRow \in Row /\ (\A s \in Held, d \in Day : NoBars[s][d] = 0)
BY DEF NoBars, Bars, NoRow, Row

LEMMA PricesAreNumbers ==
    ASSUME TypeOK
    PROVE  \A s \in Held, d \in Day :
             /\ bars[s][d] \in Nat /\ prices.bars[s][d] \in Nat
             /\ equity[d][s] \in Nat /\ gateway[d].row[s] \in Nat
             /\ \A r \in Runner : frames[r][s][d] \in Nat
<1> SUFFICES ASSUME NEW s \in Held, NEW d \in Day
             PROVE  /\ bars[s][d] \in Nat /\ prices.bars[s][d] \in Nat
                    /\ equity[d][s] \in Nat /\ gateway[d].row[s] \in Nat
                    /\ \A r \in Runner : frames[r][s][d] \in Nat
  OBVIOUS
<1>1. \A panel \in Bars : panel[s][d] \in Nat
  BY DEF Bars
<1>2. \A row \in Row : row[s] \in Nat
  BY DEF Row
<1>3. bars \in Bars /\ prices.bars \in Bars /\ \A r \in Runner : frames[r] \in Bars
  BY DEF TypeOK
<1>4. equity[d] \in Row /\ gateway[d].row \in Row
  BY DEF TypeOK, Report
<1> QED BY <1>1, <1>2, <1>3, <1>4

-----------------------------------------------------------------------------
(* The initial states *)

LEMMA InitEstablishes == Init => IInv
<1> SUFFICES ASSUME Init PROVE IInv
  OBVIOUS
<1> USE DailyRefreshAssumption DEF DailyRefreshAssumption
<1>1. 1 \in Day /\ 2 \in Day /\ LastDay \in Nat
  BY DEF Day
<1>2. /\ bars \in Bars
      /\ \A s \in Held, d \in Day : bars[s][d] = IF d = 1 THEN 2 ELSE 0
  BY DEF Init, Bars
<1>3. /\ equity \in [Day -> Row]
      /\ \A d \in Day, s \in Held : equity[d][s] = bars[s][d]
  BY <1>2 DEF Init, Bars, Row
<1>4. equity[1] \in Row
  BY <1>1, <1>3
<1>5. /\ gateway \in [Day -> [of : 0 .. LastDay, row : Row]]
      /\ gateway[1].of = 1 /\ gateway[1].row = equity[1]
      /\ \A d \in Day \ {1} : gateway[d] = NoReport
  <2>1. NoReport \in [of : 0 .. LastDay, row : Row]
    BY <1>1, EmptyPanel DEF NoReport
  <2> QED BY <1>1, <1>4, <2>1 DEF Init, Day
<1>6. \A d \in Day \ {1}, s \in Held : gateway[d].row[s] = 0
  BY <1>5 DEF NoReport, NoRow
<1>7. frames \in [Runner -> Bars] /\ \A r \in Runner, s \in Held, d \in Day : frames[r][s][d] = 0
  BY EmptyPanel DEF Init
<1>8. prices.bars = bars /\ prices.whole = TRUE /\ prices.version = 0
  BY DEF Init
<1>9. TypeOK
  <2>1. tries \in [Runner -> Nat] /\ \A r \in Runner : tries[r] < Attempts(pc[r])
    BY DEF Init, Attempts
  <2>2. /\ prices \in [whole : BOOLEAN, version : Nat, bars : Bars]
        /\ features \in [is : {"whole", "empty", "torn"}, version : Nat]
        /\ marker \in [kind : {"none", "holiday", "refresh"}, day : 0 .. LastDay]
        /\ backtest \in [features : Nat \cup {None}, prices : Nat \cup {None}]
    BY <1>1, <1>2 DEF Init, NotLoaded, None
  <2>3. /\ pc \in [Runner -> {"idle"} \cup Awaiting \cup Working]
        /\ got \in [Runner -> SUBSET Symbol]
        /\ failed \in [Runner -> BOOLEAN] /\ raced \in [Runner -> BOOLEAN]
    BY DEF Init
  <2>4. /\ today \in Day /\ busy \in Runner \cup {Nobody}
        /\ published \subseteq Day /\ banked \subseteq Day /\ polled \in BOOLEAN
        /\ slots \subseteq Slot /\ wire \subseteq Copy
    BY <1>1 DEF Init
  <2>5. runs = 0 /\ unbuilt = {} /\ faults \in {0, 1} /\ faults <= MaxFaults
    BY DEF Init, StartFaults
  <2>6. runs \in 0 .. MaxRuns /\ faults \in 0 .. MaxFaults /\ unbuilt \subseteq Nat
    BY <2>5
  <2> QED BY <1>2, <1>3, <1>5, <1>7, <2>1, <2>2, <2>3, <2>4, <2>6 DEF TypeOK, Report
<1>10. OneWorks /\ FetchedOnly
  BY <1>7 DEF OneWorks, FetchedOnly, Init, Working
<1>11. Served
  <2> SUFFICES ASSUME NEW s \in Held, NEW d \in Day
               PROVE  /\ bars[s][d] > 0 => d \in Open /\ d <= today
                      /\ prices.bars[s][d] <= bars[s][d]
                      /\ \A r \in Runner : frames[r][s][d] <= bars[s][d]
                      /\ equity[d][s] <= bars[s][d]
                      /\ gateway[d].row[s] <= bars[s][d]
    BY DEF Served
  <2>1. bars[s][d] = IF d = 1 THEN 2 ELSE 0
    BY <1>2
  <2>2. gateway[d].row[s] = IF d = 1 THEN 2 ELSE 0
    BY <1>2, <1>3, <1>5, <1>6
  <2>3. today = 2
    BY DEF Init
  <2> QED BY <1>3, <1>7, <1>8, <2>1, <2>2, <2>3
<1>12. RowsAreReal
  <2>1. ASSUME NEW d \in Day, d # 1 PROVE equity[d] = NoRow
    BY <1>2, <2>1 DEF Init, NoRow
  <2>2. \A s \in Held : equity[1][s] = 2
    BY <1>1, <1>2, <1>3
  <2> QED BY <1>5, <2>1, <2>2 DEF RowsAreReal
<1>13. Valued /\ Reported /\ NoOlder /\ OwnPrices
  BY DEF Valued, Reported, NoOlder, OwnPrices, Init
<1>14. PolledIsBanked /\ LateCopies /\ NeverAhead /\ PanelFollows
  BY DEF PolledIsBanked, LateCopies, Kept, NeverAhead, PanelFollows, Init, NotLoaded, None
<1> QED BY <1>9, <1>10, <1>11, <1>12, <1>13, <1>14 DEF IInv

-----------------------------------------------------------------------------
(* The market and the calendar *)

LEMMA PublishPreserves ==
    ASSUME IInv, NEW t \in Held, NEW e \in Day, Publish(t, e)
    PROVE  IInv'
<1> USE DEF IInv
<1>1. PICK v \in {1, 2} : bars[t][e] < v /\ bars' = [bars EXCEPT ![t][e] = v]
  <2>1. PICK w \in (IF e = today THEN {1, 2} ELSE {2}) :
          bars[t][e] < w /\ bars' = [bars EXCEPT ![t][e] = w]
    BY DEF Publish
  <2> QED BY <2>1
<1>2. e \in Open /\ e <= today
  BY DEF Publish
<1>3. UNCHANGED <<today, published, banked, polled, slots, wire, pc, tries, got, frames,
                  failed, raced, busy>>
  BY DEF Publish, local, links
<1>4. UNCHANGED <<prices, features, equity, gateway, marker, backtest, runs, faults, unbuilt>>
  BY DEF Publish, store, rows
<1>5. bars \in Bars /\ today \in Day
  BY DEF TypeOK
<1>6. bars' \in Bars
  BY <1>1, <1>5 DEF Bars
<1>7. \A s \in Held, d \in Day :
        /\ bars[s][d] \in 0 .. 2 /\ bars'[s][d] \in 0 .. 2
        /\ bars'[s][d] # bars[s][d] => s = t /\ d = e
        /\ bars[s][d] <= bars'[s][d]
  BY <1>1, <1>5, <1>6 DEF Bars
<1>8. TypeOK'
  BY <1>3, <1>4, <1>6 DEF TypeOK
<1>9. Served'
  <2> SUFFICES ASSUME NEW s \in Held, NEW d \in Day
               PROVE  /\ bars'[s][d] > 0 => d \in Open /\ d <= today
                      /\ prices.bars[s][d] <= bars'[s][d]
                      /\ \A r \in Runner : frames[r][s][d] <= bars'[s][d]
                      /\ equity[d][s] <= bars'[s][d]
                      /\ gateway[d].row[s] <= bars'[s][d]
    BY <1>3, <1>4 DEF Served
  <2>1. /\ prices.bars[s][d] \in 0 .. 2 /\ equity[d][s] \in 0 .. 2
        /\ gateway[d].row[s] \in 0 .. 2 /\ \A r \in Runner : frames[r][s][d] \in 0 .. 2
    BY DEF TypeOK, Bars, Row, Report
  <2>2. bars'[s][d] > 0 => d \in Open /\ d <= today
    BY <1>2, <1>7 DEF Served
  <2> QED BY <1>7, <2>1, <2>2 DEF Served
<1>10. OneWorks' /\ FetchedOnly'
  BY <1>3 DEF OneWorks, FetchedOnly
<1>11. RowsAreReal' /\ PolledIsBanked' /\ NeverAhead' /\ PanelFollows'
  BY <1>3, <1>4 DEF RowsAreReal, PolledIsBanked, NeverAhead, PanelFollows
<1>14. LateCopies'
  <2> SUFFICES ASSUME NEW c \in wire, NEW s \in Held
               PROVE  c.report.row[s] <= bars'[s][c.day]
    BY <1>3, <1>4 DEF LateCopies, Kept
  <2>1. c.day \in Day /\ c.report.row[s] \in 0 .. 2
    BY DEF TypeOK, Copy, Report, Row
  <2>2. c.report.row[s] <= bars[s][c.day]
    BY DEF LateCopies, Kept
  <2> QED BY <1>7, <2>1, <2>2
<1>12. Valued' /\ OwnPrices' /\ NoOlder'
  BY <1>3, <1>4 DEF Valued, OwnPrices, NoOlder, PricedDays, DailyBars
<1>13. Reported'
  BY <1>3, <1>4 DEF Reported, PricedDays, DailyBars, BarDate
<1> QED BY <1>8, <1>9, <1>10, <1>11, <1>12, <1>13, <1>14

LEMMA MidnightPreserves == IInv /\ Midnight => IInv'
<1> SUFFICES ASSUME IInv, Midnight PROVE IInv'
  OBVIOUS
<1> USE DEF IInv
<1>1. today < LastDay /\ today' = today + 1
  BY DEF Midnight
<1>2. UNCHANGED <<bars, published, banked, polled, slots, wire, pc, tries, got, frames,
                  failed, raced, busy>>
  BY DEF Midnight, local, links
<1>3. UNCHANGED <<prices, features, equity, gateway, marker, backtest, runs, faults, unbuilt>>
  BY DEF Midnight, store, rows
<1>4. today \in Day /\ today' \in Day
  BY <1>1, DailyRefreshAssumption DEF TypeOK, Day, DailyRefreshAssumption
<1>5. TypeOK'
  BY <1>2, <1>3, <1>4 DEF TypeOK
<1>6. Served'
  BY <1>1, <1>2, <1>3, <1>4 DEF Served, Day
<1>7. OneWorks' /\ FetchedOnly'
  BY <1>2 DEF OneWorks, FetchedOnly
<1>8. RowsAreReal' /\ PolledIsBanked' /\ LateCopies' /\ NeverAhead' /\ PanelFollows'
  BY <1>2, <1>3 DEF RowsAreReal, PolledIsBanked, LateCopies, Kept, NeverAhead, PanelFollows
<1>9. Valued' /\ OwnPrices' /\ NoOlder'
  BY <1>2, <1>3 DEF Valued, OwnPrices, NoOlder, PricedDays, DailyBars
<1>10. Reported'
  BY <1>2, <1>3 DEF Reported, PricedDays, DailyBars, BarDate
<1> QED BY <1>5, <1>6, <1>7, <1>8, <1>9, <1>10

LEMMA CalendarPreserves ==
    ASSUME IInv, HolidayPoll \/ \E d \in Day : Revise(d)
    PROVE  IInv'
<1> USE DEF IInv
<1>1. UNCHANGED <<today, bars, slots, wire, pc, tries, got, frames,
                  failed, raced, busy>>
  BY DEF HolidayPoll, Revise, local, links
<1>2. UNCHANGED <<prices, features, equity, gateway, marker, backtest, runs, unbuilt>>
  BY DEF HolidayPoll, Revise, store, rows
<1>3. published' \subseteq Day /\ banked' \subseteq Day /\ polled' \in BOOLEAN
  BY DEF HolidayPoll, Revise, Captured, TypeOK
<1>4. faults' \in 0 .. MaxFaults
  BY DailyRefreshAssumption DEF HolidayPoll, Revise, Fault, TypeOK, DailyRefreshAssumption
<1>5. TypeOK'
  BY <1>1, <1>2, <1>3, <1>4 DEF TypeOK
<1>6. PolledIsBanked'
  BY DEF PolledIsBanked, HolidayPoll, Revise, Captured
<1>7. Served'
  BY <1>1, <1>2 DEF Served
<1>8. OneWorks' /\ FetchedOnly'
  BY <1>1 DEF OneWorks, FetchedOnly
<1>9. RowsAreReal' /\ LateCopies' /\ NeverAhead' /\ PanelFollows'
  BY <1>1, <1>2 DEF RowsAreReal, LateCopies, Kept, NeverAhead, PanelFollows
<1>10. Valued' /\ OwnPrices' /\ NoOlder'
  BY <1>1, <1>2 DEF Valued, OwnPrices, NoOlder, PricedDays, DailyBars
<1>11. Reported'
  BY <1>1, <1>2 DEF Reported, PricedDays, DailyBars, BarDate
<1> QED BY <1>5, <1>6, <1>7, <1>8, <1>9, <1>10, <1>11

LEMMA StutterPreserves == IInv /\ UNCHANGED vars => IInv'
<1> SUFFICES ASSUME IInv, UNCHANGED vars PROVE IInv'
  OBVIOUS
<1> USE DEF IInv
<1>1. UNCHANGED <<today, published, banked, polled, slots, wire, bars, pc, tries, got,
                  frames, failed, raced, busy>>
  BY DEF vars, market, links, local
<1>2. UNCHANGED <<prices, features, equity, gateway, marker, backtest, runs, faults, unbuilt>>
  BY DEF vars, store, rows
<1>3. TypeOK'
  BY <1>1, <1>2 DEF TypeOK
<1>4. Served'
  BY <1>1, <1>2 DEF Served
<1>5. OneWorks' /\ FetchedOnly'
  BY <1>1 DEF OneWorks, FetchedOnly
<1>6. RowsAreReal' /\ PolledIsBanked' /\ LateCopies' /\ NeverAhead' /\ PanelFollows'
  BY <1>1, <1>2 DEF RowsAreReal, PolledIsBanked, LateCopies, Kept, NeverAhead, PanelFollows
<1>7. Valued' /\ OwnPrices' /\ NoOlder'
  BY <1>1, <1>2 DEF Valued, OwnPrices, NoOlder, PricedDays, DailyBars
<1>8. Reported'
  BY <1>1, <1>2 DEF Reported, PricedDays, DailyBars, BarDate
<1> QED BY <1>3, <1>4, <1>5, <1>6, <1>7, <1>8

-----------------------------------------------------------------------------
(* A run begins, or is skipped *)

LEMMA SkipHolidayPreserves ==
    ASSUME IInv, NEW r \in Runner, SkipHoliday(r)
    PROVE  IInv'
<1> USE DEF IInv
<1>1. runs < MaxRuns /\ runs' = runs + 1 /\ marker' = [kind |-> "holiday", day |-> today]
  BY DEF SkipHoliday, WriteMarker
<1>2. UNCHANGED <<today, published, banked, polled, slots, wire, bars, pc, tries, got,
                  frames, failed, raced, busy>>
  BY DEF SkipHoliday, market, links, local
<1>3. UNCHANGED <<prices, features, equity, gateway, backtest, faults, unbuilt>>
  BY DEF SkipHoliday, store
<1>4. today \in Day
  BY DEF TypeOK
<1>5. TypeOK'
  <2>1. runs' \in 0 .. MaxRuns
    BY <1>1, DailyRefreshAssumption DEF TypeOK, DailyRefreshAssumption
  <2>2. marker' \in [kind : {"none", "holiday", "refresh"}, day : 0 .. LastDay]
    BY <1>1, <1>4 DEF Day
  <2> QED BY <1>2, <1>3, <2>1, <2>2 DEF TypeOK
<1>6. Served'
  BY <1>2, <1>3 DEF Served
<1>7. OneWorks' /\ FetchedOnly'
  BY <1>2 DEF OneWorks, FetchedOnly
<1>8. RowsAreReal' /\ NeverAhead' /\ PanelFollows'
  BY <1>2, <1>3 DEF RowsAreReal, NeverAhead, PanelFollows
<1>9. PolledIsBanked' /\ LateCopies'
  BY <1>2, <1>3 DEF PolledIsBanked, LateCopies, Kept
<1>10. Valued' /\ OwnPrices' /\ NoOlder'
  BY <1>2, <1>3 DEF Valued, OwnPrices, NoOlder, PricedDays, DailyBars
<1>11. Reported'
  BY <1>2, <1>3 DEF Reported, PricedDays, DailyBars, BarDate
<1> QED BY <1>5, <1>6, <1>7, <1>8, <1>9, <1>10, <1>11

LEMMA StartPreserves ==
    ASSUME IInv, NEW r \in Runner, Start(r)
    PROVE  IInv'
<1> USE DEF IInv
<1>1. /\ busy = Nobody /\ pc[r] = "idle" /\ runs < MaxRuns /\ runs' = runs + 1
      /\ pc' = [pc EXCEPT ![r] = "held"]
  BY DEF Start
<1>2. UNCHANGED <<today, published, banked, polled, slots, wire, bars, tries, got, frames,
                  failed, raced, busy>>
  BY DEF Start, market, links
<1>3. UNCHANGED <<prices, features, equity, gateway, marker, backtest, faults, unbuilt>>
  BY DEF Start, store, rows
<1>4. \A q \in Runner : pc'[q] = IF q = r THEN "held" ELSE pc[q]
  BY <1>1 DEF TypeOK
<1>5. TypeOK'
  <2>1. runs' \in 0 .. MaxRuns
    BY <1>1, DailyRefreshAssumption DEF TypeOK, DailyRefreshAssumption
  <2>2. pc' \in [Runner -> {"idle"} \cup Awaiting \cup Working]
    BY <1>1 DEF TypeOK, Awaiting
  <2>3. AttemptsLeft'
    BY <1>1, <1>2, <1>4, DailyRefreshAssumption
       DEF AttemptsLeft, Attempts, TypeOK, DailyRefreshAssumption
  <2> QED BY <1>2, <1>3, <2>1, <2>2, <2>3 DEF TypeOK, AttemptsLeft
<1>6. Served'
  BY <1>2, <1>3 DEF Served
<1>8. OneWorks' /\ FetchedOnly'
  BY <1>1, <1>2, <1>4 DEF OneWorks, FetchedOnly, Working
<1>9. RowsAreReal' /\ PolledIsBanked' /\ LateCopies' /\ NeverAhead'
  BY <1>2, <1>3 DEF RowsAreReal, PolledIsBanked, LateCopies, Kept, NeverAhead
<1>10. PanelFollows'
  BY <1>1, <1>2, <1>3, <1>4 DEF PanelFollows
<1>11. Valued' /\ OwnPrices' /\ NoOlder'
  BY <1>2, <1>3, <1>4 DEF Valued, OwnPrices, NoOlder, PricedDays, DailyBars
<1>12. Reported'
  BY <1>2, <1>3, <1>4 DEF Reported, PricedDays, DailyBars, BarDate
<1> QED BY <1>5, <1>6, <1>8, <1>9, <1>10, <1>11, <1>12

-----------------------------------------------------------------------------
(* The two phases of fetching *)

\* One attempt of either phase; only the last of the second takes the loop.
LEMMA FetchPreserves ==
    ASSUME IInv, NEW r \in Runner, NEW wanted \in SUBSET Symbol,
           NEW attempts, NEW phase, NEW next,
           \/ phase = "held" /\ next = "universe" /\ attempts = HeldAttempts
           \/ phase = "universe" /\ next = "saving" /\ attempts = UniverseAttempts,
           busy = Nobody, pc[r] = phase, Fetch(r, wanted, attempts, next),
           busy' = IF pc'[r] = "saving" THEN r ELSE Nobody,
           UNCHANGED <<market, links, failed, raced, store, rows, backtest, runs, unbuilt>>
    PROVE  IInv'
<1> USE DEF IInv
<1>1. UNCHANGED <<today, published, banked, polled, slots, wire, bars, failed, raced>>
  BY DEF market, links
<1>2. UNCHANGED <<prices, features, equity, gateway, marker, backtest, runs, unbuilt>>
  BY DEF store, rows
<1>3. PICK recovered \in SUBSET (wanted \ got[r]) :
        /\ faults' = faults \/ Fault
        /\ got' = [got EXCEPT ![r] = @ \cup recovered]
        /\ frames' = [frames EXCEPT ![r] =
                        [s \in Held |-> IF s \in recovered THEN bars[s] ELSE @[s]]]
        /\ \/ /\ pc' = [pc EXCEPT ![r] = next]
              /\ tries' = [tries EXCEPT ![r] = 0]
           \/ /\ tries[r] + 1 # attempts
              /\ tries' = [tries EXCEPT ![r] = @ + 1]
              /\ pc' = pc
  <2>1. PICK recovered \in SUBSET (wanted \ got[r]) :
        /\ IF recovered = (wanted \ got[r]) \/ tries[r] > 0 THEN UNCHANGED faults ELSE Fault
        /\ got' = [got EXCEPT ![r] = @ \cup recovered]
        /\ frames' = [frames EXCEPT ![r] =
                        [s \in Held |-> IF s \in recovered THEN bars[s] ELSE @[s]]]
        /\ IF recovered = (wanted \ got[r]) \/ tries[r] + 1 = attempts
           THEN /\ pc' = [pc EXCEPT ![r] = next]
                /\ tries' = [tries EXCEPT ![r] = 0]
           ELSE /\ tries' = [tries EXCEPT ![r] = @ + 1]
                /\ UNCHANGED pc
    BY DEF Fetch
  <2>2. faults' = faults \/ Fault
    BY <2>1
  <2>3. \/ /\ pc' = [pc EXCEPT ![r] = next]
           /\ tries' = [tries EXCEPT ![r] = 0]
        \/ /\ tries[r] + 1 # attempts
           /\ tries' = [tries EXCEPT ![r] = @ + 1]
           /\ pc' = pc
    BY <2>1
  <2> QED BY <2>1, <2>2, <2>3
<1>4. /\ pc'[r] \in {phase, next}
      /\ \A q \in Runner : pc'[q] = IF q = r THEN pc'[r] ELSE pc[q]
      /\ pc' \in [Runner -> {"idle"} \cup Awaiting \cup Working]
  BY <1>3 DEF TypeOK, Awaiting, Working
<1>5. /\ \A q \in Runner : q # r => tries'[q] = tries[q]
      /\ \/ pc'[r] = next /\ tries'[r] = 0
         \/ pc'[r] = phase /\ tries[r] + 1 # attempts /\ tries'[r] = tries[r] + 1
  BY <1>3 DEF TypeOK
<1>6. \A q \in Runner : got'[q] = IF q = r THEN got[r] \cup recovered ELSE got[q]
  BY <1>3 DEF TypeOK
<1>7. \A q \in Runner, s \in Held :
        frames'[q][s] = IF q = r /\ s \in recovered THEN bars[s] ELSE frames[q][s]
  BY <1>3 DEF TypeOK
<1>8. tries[r] \in Nat /\ tries[r] < attempts /\ attempts \in Nat
  <2>1. HeldAttempts \in Nat /\ UniverseAttempts \in Nat
    BY DailyRefreshAssumption DEF DailyRefreshAssumption
  <2> QED BY <2>1 DEF Attempts, TypeOK
<1>9. TypeOK'
  <2>1. faults' \in 0 .. MaxFaults
    BY <1>3, DailyRefreshAssumption DEF Fault, TypeOK, DailyRefreshAssumption
  <2>2. tries' \in [Runner -> Nat] /\ AttemptsLeft'
    <3>1. tries' \in [Runner -> Nat]
      BY <1>3, <1>8 DEF TypeOK
    <3>2. HeldAttempts \in Nat \ {0} /\ UniverseAttempts \in Nat \ {0}
      BY DailyRefreshAssumption DEF DailyRefreshAssumption
    <3>3. tries'[r] < Attempts(pc'[r])
      BY <1>5, <1>8, <3>2 DEF Attempts
    <3>4. \A q \in Runner : q # r => tries'[q] < Attempts(pc'[q])
      BY <1>4, <1>5 DEF TypeOK
    <3> QED BY <3>1, <3>3, <3>4 DEF AttemptsLeft
  <2>3. got' \in [Runner -> SUBSET Symbol]
    BY <1>3 DEF TypeOK
  <2>4. frames' \in [Runner -> Bars]
    <3>1. [s \in Held |-> IF s \in recovered THEN bars[s] ELSE frames[r][s]] \in Bars
      BY DEF TypeOK, Bars
    <3> QED BY <1>3, <3>1 DEF TypeOK
  <2>5. busy' \in Runner \cup {Nobody}
    OBVIOUS
  <2> QED BY <1>1, <1>2, <1>4, <2>1, <2>2, <2>3, <2>4, <2>5 DEF TypeOK, AttemptsLeft
<1>11. OneWorks'
  <2>1. \A q \in Runner : pc[q] \notin Working
    BY DailyRefreshAssumption DEF OneWorks, DailyRefreshAssumption
  <2>2. pc'[r] \in Working <=> pc'[r] = "saving"
    BY <1>4 DEF Working
  <2> QED BY <1>4, <2>1, <2>2, DailyRefreshAssumption DEF OneWorks, Working, DailyRefreshAssumption
<1>12. FetchedOnly'
  <2> SUFFICES ASSUME NEW q \in Runner
               PROVE  /\ pc'[q] = "idle" => got'[q] = {}
                      /\ pc'[q] \in {"idle", "held", "universe"} =>
                            \A s \in Held \ got'[q] : \A d \in Day : frames'[q][s][d] = 0
    BY DEF FetchedOnly
  <2>1. CASE q # r
    BY <1>4, <1>6, <1>7, <2>1 DEF FetchedOnly
  <2>2. CASE q = r
    BY <1>4, <1>6, <1>7, <2>2 DEF FetchedOnly
  <2> QED BY <2>1, <2>2
<1>13. Served'
  <2>1. \A q \in Runner, s \in Held, d \in Day : frames'[q][s][d] <= bars[s][d]
    <3> SUFFICES ASSUME NEW q \in Runner, NEW s \in Held, NEW d \in Day
                 PROVE  frames'[q][s][d] <= bars[s][d]
      OBVIOUS
    <3>1. bars[s][d] \in Nat /\ frames[q][s][d] <= bars[s][d]
      BY PricesAreNumbers DEF Served
    <3> QED BY <1>7, <3>1
  <2> QED BY <1>1, <1>2, <2>1 DEF Served
<1>14. RowsAreReal' /\ PolledIsBanked' /\ LateCopies' /\ NeverAhead'
  BY <1>1, <1>2 DEF RowsAreReal, PolledIsBanked, LateCopies, Kept, NeverAhead
<1>15. PanelFollows'
  BY <1>2, <1>4 DEF PanelFollows
<1>16. \A q \in Runner : q # r => frames'[q] = frames[q]
  BY <1>3 DEF TypeOK
<1>17. Valued' /\ OwnPrices'
  BY <1>2, <1>4, <1>6, <1>16 DEF Valued, OwnPrices, PricedDays, DailyBars
<1>18. NoOlder'
  <2> SUFFICES ASSUME NEW q \in Runner, ~raced[q], got'[q] # {}, NEW s \in Held, NEW d \in Day,
                      frames'[q][s][d] > 0
               PROVE  /\ equity[d][s] <= frames'[q][s][d]
                      /\ gateway[d].row[s] <= frames'[q][s][d]
    BY <1>1, <1>2 DEF NoOlder
  <2>1. CASE q = r /\ s \in recovered
    BY <1>7, <2>1 DEF Served
  <2>2. CASE q = r /\ s \notin recovered
    <3>1. frames[r][s][d] > 0
      BY <1>7, <2>2
    <3>2. s \in got[r]
      BY <3>1 DEF FetchedOnly
    <3> QED BY <1>7, <2>2, <3>1, <3>2 DEF NoOlder
  <2>3. CASE q # r
    BY <1>6, <1>7, <2>3 DEF NoOlder
  <2> QED BY <2>1, <2>2, <2>3
<1>19. Reported'
  BY <1>1, <1>2, <1>4, <1>16 DEF Reported, PricedDays, DailyBars, BarDate
<1> QED BY <1>9, <1>11, <1>12, <1>13, <1>14, <1>15, <1>17, <1>18, <1>19

LEMMA FetchHeldPreserves ==
    ASSUME IInv, NEW r \in Runner, FetchHeld(r)
    PROVE  IInv'
<1>1. /\ busy = Nobody /\ pc[r] = "held" /\ Fetch(r, Held, HeldAttempts, "universe")
      /\ busy' = busy
      /\ UNCHANGED <<market, links, failed, raced, store, rows, backtest, runs, unbuilt>>
  BY DEF FetchHeld
<1>2. pc'[r] # "saving"
  BY <1>1 DEF Fetch, IInv, TypeOK
<1>3. Held \in SUBSET Symbol
  BY DEF Symbol
<1> QED BY <1>1, <1>2, <1>3, FetchPreserves

LEMMA FetchUniversePreserves ==
    ASSUME IInv, NEW r \in Runner, FetchUniverse(r)
    PROVE  IInv'
<1>1. /\ busy = Nobody /\ pc[r] = "universe" /\ Fetch(r, Swept, UniverseAttempts, "saving")
      /\ busy' = IF pc'[r] = "saving" THEN r ELSE Nobody
      /\ UNCHANGED <<market, links, failed, raced, store, rows, backtest, runs, unbuilt>>
  BY DEF FetchUniverse
<1>2. Swept \in SUBSET Symbol
  BY DEF Symbol
<1> QED BY <1>1, <1>2, FetchPreserves

-----------------------------------------------------------------------------
(* The run has the loop: save the prices, build the panel, store it *)

LEMMA BeginPricesPreserves ==
    ASSUME IInv, NEW r \in Runner, BeginPrices(r)
    PROVE  IInv'
<1> USE DEF IInv
<1>1. UNCHANGED <<today, published, banked, polled, slots, wire, bars, tries, got, frames,
                  failed, raced, busy>>
  BY DEF BeginPrices, market, links
<1>2. UNCHANGED <<features, equity, gateway, marker, backtest, runs, faults, unbuilt>>
  BY DEF BeginPrices, rows
<1>3. pc[r] = "saving"
  BY DEF BeginPrices
<1>4. \/ /\ got[r] = {}
         /\ pc' = [pc EXCEPT ![r] = "building"]
         /\ prices' = prices
      \/ /\ got[r] # {}
         /\ pc' = [pc EXCEPT ![r] = "writing"]
         /\ prices' = [whole |-> FALSE, version |-> prices.version + 1, bars |-> NoBars]
  BY DEF BeginPrices
<1>5. /\ pc' \in [Runner -> {"idle"} \cup Awaiting \cup Working]
      /\ pc'[r] \in {"building", "writing"}
      /\ pc'[r] = "building" => got[r] = {}
      /\ \A q \in Runner : q # r => pc'[q] = pc[q]
  BY <1>4 DEF TypeOK, Working
<1>6. busy = r /\ busy # Nobody /\ \A q \in Runner : q # r => pc[q] \notin Working
  BY <1>3, DailyRefreshAssumption DEF OneWorks, Working, DailyRefreshAssumption
<1>7. /\ prices' \in [whole : BOOLEAN, version : Nat, bars : Bars]
      /\ prices.version <= prices'.version
      /\ \A s \in Held, d \in Day : prices'.bars[s][d] <= bars[s][d]
  <2>1. prices \in [whole : BOOLEAN, version : Nat, bars : Bars]
    BY DEF TypeOK
  <2>2. \A s \in Held, d \in Day : bars[s][d] \in Nat
    BY PricesAreNumbers
  <2>3. CASE prices' = prices
    BY <2>1, <2>3 DEF Served
  <2>4. CASE prices' = [whole |-> FALSE, version |-> prices.version + 1, bars |-> NoBars]
    BY <2>1, <2>2, <2>4, EmptyPanel
  <2> QED BY <1>4, <2>3, <2>4
<1>8. AttemptsLeft'
  BY <1>1, <1>3, <1>5 DEF AttemptsLeft, Attempts, TypeOK
<1>9. TypeOK'
  BY <1>1, <1>2, <1>5, <1>7, <1>8 DEF TypeOK, AttemptsLeft
<1>10. OneWorks' /\ FetchedOnly'
  BY <1>1, <1>3, <1>5, <1>6 DEF OneWorks, FetchedOnly, Working
<1>11. Served'
  BY <1>1, <1>2, <1>7 DEF Served
<1>12. RowsAreReal' /\ PolledIsBanked' /\ LateCopies'
  BY <1>1, <1>2 DEF RowsAreReal, PolledIsBanked, LateCopies, Kept
<1>13. Valued'
  BY <1>1, <1>5 DEF Valued, PricedDays, DailyBars
<1>14. NeverAhead'
  BY <1>2, <1>7 DEF NeverAhead, TypeOK, None
<1>15. PanelFollows'
  BY <1>1, <1>5, <1>6 DEF PanelFollows, Working
<1>16. OwnPrices'
  BY <1>1, <1>5, <1>6 DEF OwnPrices, Working
<1>17. NoOlder'
  BY <1>1, <1>2 DEF NoOlder
<1>18. Reported'
  BY <1>1, <1>2, <1>5 DEF Reported, PricedDays, DailyBars, BarDate
<1> QED BY <1>8, <1>9, <1>10, <1>11, <1>12, <1>13, <1>14, <1>15, <1>16, <1>17, <1>18

LEMMA EndPricesPreserves ==
    ASSUME IInv, NEW r \in Runner, EndPrices(r)
    PROVE  IInv'
<1> USE DEF IInv
<1>1. UNCHANGED <<today, published, banked, polled, slots, wire, bars, tries, got, frames,
                  failed, raced, busy>>
  BY DEF EndPrices, market, links
<1>2. UNCHANGED <<features, equity, gateway, marker, backtest, runs, faults, unbuilt>>
  BY DEF EndPrices, rows
<1>3. /\ pc[r] = "writing" /\ pc' = [pc EXCEPT ![r] = "building"]
      /\ prices' = [prices EXCEPT !.whole = TRUE, !.bars = frames[r]]
  BY DEF EndPrices
<1>4. /\ pc' \in [Runner -> {"idle"} \cup Awaiting \cup Working]
      /\ pc'[r] = "building" /\ \A q \in Runner : q # r => pc'[q] = pc[q]
  BY <1>3 DEF TypeOK, Working
<1>5. busy = r /\ busy # Nobody /\ \A q \in Runner : q # r => pc[q] \notin Working
  BY <1>3, DailyRefreshAssumption DEF OneWorks, Working, DailyRefreshAssumption
<1>6. /\ prices' \in [whole : BOOLEAN, version : Nat, bars : Bars]
      /\ prices'.version = prices.version /\ prices'.whole /\ prices'.bars = frames[r]
  BY <1>3 DEF TypeOK
<1>7. AttemptsLeft'
  BY <1>1, <1>3, <1>4 DEF AttemptsLeft, Attempts, TypeOK
<1>8. TypeOK'
  BY <1>1, <1>2, <1>4, <1>6, <1>7 DEF TypeOK, AttemptsLeft
<1>9. OneWorks' /\ FetchedOnly'
  BY <1>1, <1>3, <1>4, <1>5 DEF OneWorks, FetchedOnly, Working
<1>10. Served'
  BY <1>1, <1>2, <1>6 DEF Served
<1>11. RowsAreReal' /\ PolledIsBanked' /\ LateCopies'
  BY <1>1, <1>2 DEF RowsAreReal, PolledIsBanked, LateCopies, Kept
<1>12. Valued'
  BY <1>1, <1>4 DEF Valued, PricedDays, DailyBars
<1>13. NeverAhead'
  BY <1>2, <1>6 DEF NeverAhead
<1>14. PanelFollows'
  BY <1>1, <1>4, <1>5 DEF PanelFollows, Working
<1>15. OwnPrices'
  BY <1>1, <1>4, <1>5, <1>6 DEF OwnPrices, Working
<1>16. NoOlder'
  BY <1>1, <1>2 DEF NoOlder
<1>17. Reported'
  BY <1>1, <1>2, <1>4 DEF Reported, PricedDays, DailyBars, BarDate
<1> QED BY <1>7, <1>8, <1>9, <1>10, <1>11, <1>12, <1>13, <1>14, <1>15, <1>16, <1>17

LEMMA BuildFeaturesPreserves ==
    ASSUME IInv, NEW r \in Runner, BuildFeatures(r)
    PROVE  IInv'
<1> USE DEF IInv
<1>1. UNCHANGED <<today, published, banked, polled, slots, wire, bars, tries, got, frames,
                  failed, raced, busy>>
  BY DEF BuildFeatures, market, links
<1>2. UNCHANGED <<prices, equity, gateway, marker, backtest, runs, faults, unbuilt>>
  BY DEF BuildFeatures, rows
<1>3. /\ pc[r] = "building" /\ pc' = [pc EXCEPT ![r] = "storing"]
      /\ features' = [is |-> "torn", version |-> prices.version]
  BY DEF BuildFeatures
<1>4. /\ pc' \in [Runner -> {"idle"} \cup Awaiting \cup Working]
      /\ pc'[r] = "storing" /\ \A q \in Runner : q # r => pc'[q] = pc[q]
  BY <1>3 DEF TypeOK, Working
<1>5. busy = r /\ busy # Nobody /\ \A q \in Runner : q # r => pc[q] \notin Working
  BY <1>3, DailyRefreshAssumption DEF OneWorks, Working, DailyRefreshAssumption
<1>6. prices.version \in Nat
  BY DEF TypeOK
<1>7. AttemptsLeft'
  BY <1>1, <1>3, <1>4 DEF AttemptsLeft, Attempts, TypeOK
<1>8. TypeOK'
  BY <1>1, <1>2, <1>3, <1>4, <1>6, <1>7 DEF TypeOK, AttemptsLeft
<1>9. OneWorks' /\ FetchedOnly'
  BY <1>1, <1>3, <1>4, <1>5 DEF OneWorks, FetchedOnly, Working
<1>10. Served'
  BY <1>1, <1>2 DEF Served
<1>11. RowsAreReal' /\ PolledIsBanked' /\ LateCopies'
  BY <1>1, <1>2 DEF RowsAreReal, PolledIsBanked, LateCopies, Kept
<1>12. Valued'
  BY <1>1, <1>4 DEF Valued, PricedDays, DailyBars
<1>13. NeverAhead'
  BY <1>2, <1>3, <1>6 DEF NeverAhead
<1>14. PanelFollows'
  BY <1>1, <1>2, <1>3, <1>4, <1>5 DEF PanelFollows, Working
<1>15. OwnPrices'
  BY <1>1, <1>2, <1>3, <1>4, <1>5 DEF OwnPrices, Working
<1>16. NoOlder'
  BY <1>1, <1>2 DEF NoOlder
<1>17. Reported'
  BY <1>1, <1>2, <1>4 DEF Reported, PricedDays, DailyBars, BarDate
<1> QED BY <1>7, <1>8, <1>9, <1>10, <1>11, <1>12, <1>13, <1>14, <1>15, <1>16, <1>17

-----------------------------------------------------------------------------
(* A run ends: it returns, it is cut off, or it raises *)

\* What a run reports is of the last day it can value the book on.
LEMMA ReportIsOfBarDate ==
    ASSUME IInv, NEW r \in Runner, PricedDays(frames[r]) # {}
    PROVE  LET last == BarDate(frames[r])
               report == ReportOf(frames[r])
           IN /\ last \in Day /\ last \in PricedDays(frames[r]) /\ AsOf(frames[r]) = last
              /\ report \in Report /\ report # NoReport /\ report.of = last
              /\ \A s \in Held : /\ report.row[s] = frames[r][s][last]
                                 /\ report.row[s] \in Nat /\ report.row[s] > 0
<1> DEFINE last == BarDate(frames[r])
<1>1. frames[r] \in Bars
  BY DEF IInv, TypeOK
<1>2. last \in Day /\ last \in PricedDays(frames[r]) /\ AsOf(frames[r]) = last
  BY BarDateIsLast DEF AsOf
<1> HIDE DEF last
<1>3. /\ DailyBars(frames[r], last) \in Row
      /\ \A s \in Held : /\ DailyBars(frames[r], last)[s] = frames[r][s][last]
                         /\ frames[r][s][last] > 0
  BY <1>1, <1>2, PricedRow
<1>4. ReportOf(frames[r]) = [of |-> last, row |-> DailyBars(frames[r], last)]
  BY DEF ReportOf, last
<1>5. ReportOf(frames[r]) \in Report /\ ReportOf(frames[r]) # NoReport
  BY <1>2, <1>3, <1>4 DEF Report, NoReport, Day
<1>6. \A s \in Held : frames[r][s][last] \in Nat
  BY <1>2, PricesAreNumbers DEF IInv
<1> QED BY <1>2, <1>3, <1>4, <1>5, <1>6 DEF last

\* A request that is given up leaves a copy no older than the row it would replace,
\* unless its run was raced or had fetched nothing.
LEMMA CopyIsKept ==
    ASSUME IInv, NEW r \in Runner, pc[r] = "gateway", faults' \in 1 .. MaxFaults
    PROVE  CopyOf(r) \in Copy /\ Kept(CopyOf(r))
<1> USE DEF IInv
<1>1. PricedDays(frames[r]) # {}
  BY DEF Valued
<1> DEFINE last == BarDate(frames[r])
           report == ReportOf(frames[r])
<1>2. /\ last \in Day /\ AsOf(frames[r]) = last
      /\ report \in Report /\ report.of = last
      /\ \A s \in Held : report.row[s] = frames[r][s][last] /\ report.row[s] > 0
  BY <1>1, ReportIsOfBarDate
<1> HIDE DEF last, report
<1>3. CopyOf(r) = [by |-> r, no |-> faults', day |-> last, report |-> report,
                   stale |-> raced[r] \/ got[r] = {}]
  BY <1>2 DEF CopyOf, report
<1>4. (raced[r] \/ got[r] = {}) \in BOOLEAN
  OBVIOUS
<1>5. CopyOf(r) \in Copy
  BY <1>2, <1>3, <1>4 DEF Copy
<1>6. \A s \in Held : report.row[s] <= bars[s][last]
  BY <1>2 DEF Served
<1>7. ASSUME ~raced[r], got[r] # {}, NEW s \in Held
      PROVE  gateway[last].row[s] <= report.row[s]
  <2>1. frames[r][s][last] > 0
    BY <1>2
  <2>2. gateway[last].row[s] <= frames[r][s][last]
    BY <1>2, <1>7, <2>1 DEF NoOlder
  <2>3. report.row[s] = frames[r][s][last]
    BY <1>2
  <2> HIDE DEF IInv
  <2> QED BY <2>2, <2>3
<1> DEFINE copy == CopyOf(r)
<1>8. copy.day = last /\ copy.report = report /\ copy.stale = (raced[r] \/ got[r] = {})
  BY <1>3
<1> HIDE DEF copy, IInv
<1>9. ASSUME ~copy.stale PROVE ~raced[r] /\ got[r] # {}
  BY <1>8, <1>9
<1>10. Kept(copy)
  BY <1>2, <1>6, <1>7, <1>8, <1>9 DEF Kept
<1> QED BY <1>5, <1>10 DEF copy

LEMMA AbandonedAreKept ==
    ASSUME IInv, NEW R \in SUBSET Runner, Abandoned(R), faults' \in 1 .. MaxFaults
    PROVE  \A c \in wire' : c \in Copy /\ Kept(c)
<1>1. PICK sent \in SUBSET {r \in R : pc[r] = "gateway"} :
        wire' = wire \cup {CopyOf(r) : r \in sent}
  BY DEF Abandoned
<1>2. \A r \in sent : CopyOf(r) \in Copy /\ Kept(CopyOf(r))
  BY CopyIsKept
<1>3. \A c \in wire : c \in Copy /\ Kept(c)
  BY DEF IInv, TypeOK, LateCopies
<1> QED BY <1>1, <1>2, <1>3

LEMMA EndsPreserves ==
    ASSUME IInv, NEW r \in Runner, pc[r] # "idle", Ends(r),
           busy \in {Nobody, r}, busy' = Nobody,
           UNCHANGED <<today, published, banked, polled, slots, bars, prices, equity, gateway,
                       backtest, runs>>,
           \A c \in wire' : c \in Copy /\ Kept(c),
           faults' \in 0 .. MaxFaults,
           marker' = marker \/ WriteMarker("refresh"),
           \/ /\ features' = features
              /\ unbuilt' = IF busy = Nobody THEN unbuilt ELSE unbuilt \cup {prices.version}
           \/ /\ pc[r] = "storing" /\ unbuilt' = unbuilt
              /\ features' \in [is : {"whole", "empty", "torn"}, version : Nat]
              /\ features'.version = features.version
    PROVE  IInv'
<1> USE DEF IInv
<1>1. \A q \in Runner : q # r => /\ pc'[q] = pc[q] /\ tries'[q] = tries[q]
                                 /\ got'[q] = got[q] /\ frames'[q] = frames[q]
                                 /\ failed'[q] = failed[q] /\ raced'[q] = raced[q]
  BY DEF Ends, TypeOK
<1>2. /\ pc'[r] = "idle" /\ tries'[r] = 0 /\ got'[r] = {} /\ frames'[r] = NoBars
      /\ failed'[r] = FALSE /\ raced'[r] = FALSE
  BY DEF Ends, TypeOK
<1>3. \A q \in Runner : q # r => pc[q] \notin Working
  BY DailyRefreshAssumption DEF OneWorks, DailyRefreshAssumption
<1>4. TypeOK'
  <2>1. tries' \in [Runner -> Nat] /\ AttemptsLeft'
    <3>1. tries' \in [Runner -> Nat]
      BY DEF TypeOK, Ends
    <3>2. AttemptsLeft'
      BY <1>1, <1>2 DEF AttemptsLeft, Attempts, TypeOK
    <3> QED BY <3>1, <3>2
  <2>2. /\ pc' \in [Runner -> {"idle"} \cup Awaiting \cup Working]
        /\ got' \in [Runner -> SUBSET Symbol]
    BY DEF TypeOK, Ends
  <2>3. /\ frames' \in [Runner -> Bars]
        /\ failed' \in [Runner -> BOOLEAN] /\ raced' \in [Runner -> BOOLEAN]
    BY EmptyPanel DEF TypeOK, Ends
  <2>4. marker' \in [kind : {"none", "holiday", "refresh"}, day : 0 .. LastDay]
    BY DEF TypeOK, WriteMarker, Day
  <2>5. unbuilt' \subseteq Nat /\ features' \in [is : {"whole", "empty", "torn"}, version : Nat]
    BY DEF TypeOK
  <2>6. wire' \subseteq Copy
    OBVIOUS
  <2> QED BY <2>1, <2>2, <2>3, <2>4, <2>5, <2>6 DEF TypeOK, AttemptsLeft
<1>5. OneWorks'
  BY <1>1, <1>2, <1>3, DailyRefreshAssumption DEF OneWorks, Working, DailyRefreshAssumption
<1>6. FetchedOnly'
  BY <1>1, <1>2, EmptyPanel DEF FetchedOnly
<1>7. Served'
  <2>1. \A q \in Runner, s \in Held, d \in Day : frames'[q][s][d] <= bars[s][d]
    <3> SUFFICES ASSUME NEW q \in Runner, NEW s \in Held, NEW d \in Day
                 PROVE  frames'[q][s][d] <= bars[s][d]
      OBVIOUS
    <3>1. bars[s][d] \in Nat /\ frames[q][s][d] <= bars[s][d]
      BY PricesAreNumbers DEF Served
    <3> QED BY <1>1, <1>2, <3>1, EmptyPanel
  <2> QED BY <2>1 DEF Served
<1>8. RowsAreReal' /\ PolledIsBanked'
  BY DEF RowsAreReal, PolledIsBanked
<1>9. LateCopies'
  BY DEF LateCopies, Kept
<1>10. Valued'
  BY <1>1, <1>2 DEF Valued, PricedDays, DailyBars
<1>11. NeverAhead'
  BY DEF NeverAhead
<1>12. PanelFollows'
  BY <1>1, <1>2 DEF PanelFollows
<1>13. OwnPrices'
  BY <1>1, <1>2 DEF OwnPrices
<1>14. NoOlder'
  BY <1>1, <1>2 DEF NoOlder
<1>15. Reported'
  BY <1>1, <1>2 DEF Reported, PricedDays, DailyBars, BarDate
<1> QED BY <1>4, <1>5, <1>6, <1>7, <1>8, <1>9, <1>10, <1>11, <1>12, <1>13, <1>14, <1>15

\* build() or a save raises.
LEMMA RaisesPreserves ==
    ASSUME IInv, NEW r \in Runner, BuildRaises(r) \/ SaveRaises(r)
    PROVE  IInv'
<1>1. /\ pc[r] \in Working /\ Fault /\ busy' = Nobody /\ Ends(r)
      /\ unbuilt' = unbuilt \cup {prices.version}
  BY DEF BuildRaises, SaveRaises, Working
<1>2. /\ UNCHANGED <<today, published, banked, polled, slots, bars, prices, equity, gateway,
                     backtest, runs>>
      /\ features' = features /\ marker' = marker /\ wire' = wire
  BY DEF BuildRaises, SaveRaises, market, links, store, rows
<1>3. busy = r /\ busy # Nobody /\ pc[r] # "idle"
  BY <1>1, DailyRefreshAssumption DEF IInv, OneWorks, Working, DailyRefreshAssumption
<1>4. faults' \in 0 .. MaxFaults
  BY <1>1, DailyRefreshAssumption DEF Fault, IInv, TypeOK, DailyRefreshAssumption
<1>5. \A c \in wire' : c \in Copy /\ Kept(c)
  BY <1>2 DEF IInv, TypeOK, LateCopies
<1> QED BY <1>1, <1>2, <1>3, <1>4, <1>5, EndsPreserves

LEMMA CutOffPreserves ==
    ASSUME IInv, NEW r \in Runner, CutOff(r)
    PROVE  IInv'
<1>1. /\ busy = Nobody /\ busy' = busy /\ pc[r] \in Awaiting /\ Fault /\ Ends(r)
      /\ Abandoned({r})
  BY DEF CutOff
<1>2. /\ UNCHANGED <<today, published, banked, polled, slots, bars, prices, equity, gateway,
                     backtest, runs>>
      /\ features' = features /\ marker' = marker /\ unbuilt' = unbuilt
  BY DEF CutOff, market, store, rows
<1>3. faults' \in 1 .. MaxFaults
  BY <1>1, DailyRefreshAssumption DEF Fault, IInv, TypeOK, DailyRefreshAssumption
<1>4. \A c \in wire' : c \in Copy /\ Kept(c)
  BY <1>1, <1>3, AbandonedAreKept
<1>5. faults' \in 0 .. MaxFaults /\ pc[r] # "idle"
  BY <1>1, <1>3 DEF Awaiting
<1> QED BY <1>1, <1>2, <1>4, <1>5, EndsPreserves

\* The return of a run that had been waiting, with or without a fault.
LEMMA CompletePreserves ==
    ASSUME IInv, NEW r \in Runner, busy = Nobody, pc[r] # "idle", Complete(r),
           UNCHANGED <<market, slots, busy, store, equity, gateway, backtest, runs, unbuilt>>,
           faults' \in 0 .. MaxFaults,
           \A c \in wire' : c \in Copy /\ Kept(c)
    PROVE  IInv'
<1>1. /\ UNCHANGED <<today, published, banked, polled, slots, bars, prices, equity, gateway,
                     backtest, runs>>
      /\ features' = features /\ unbuilt' = unbuilt /\ busy' = Nobody
  BY DEF market, store
<1> QED BY <1>1, EndsPreserves DEF Complete

-----------------------------------------------------------------------------
(* The hook *)

LEMMA StoreFeaturesPreserves ==
    ASSUME IInv, NEW r \in Runner, StoreFeatures(r)
    PROVE  IInv'
<1> USE DEF IInv
<1>1. UNCHANGED <<today, published, banked, polled, slots, wire, bars>>
  BY DEF StoreFeatures, market, links
<1>2. pc[r] = "storing" /\ busy' = Nobody
      /\ UNCHANGED <<prices, equity, gateway, backtest, runs, unbuilt>>
  BY DEF StoreFeatures
<1>3. PICK is \in {"whole", "empty"} :
        /\ faults' = faults \/ Fault
        /\ features' = [features EXCEPT !.is = is]
        /\ IF AwaitsSnapshot(is)
           THEN /\ frames' = [frames EXCEPT ![r] = Loaded]
                /\ pc' = [pc EXCEPT ![r] = "snapshot"]
                /\ UNCHANGED <<tries, got, failed, raced, marker>>
           ELSE Complete(r)
  BY DEF StoreFeatures
<1>4. faults' \in 0 .. MaxFaults
  BY <1>3, DailyRefreshAssumption DEF Fault, TypeOK, DailyRefreshAssumption
<1>5. busy = r /\ \A q \in Runner : q # r => pc[q] \notin Working
  BY <1>2 DEF OneWorks, Working
<1>6. /\ features' \in [is : {"whole", "empty", "torn"}, version : Nat]
      /\ features'.version = features.version
  BY <1>3 DEF TypeOK
<1>7. CASE ~AwaitsSnapshot(is)
  <2>1. Complete(r)
    BY <1>3, <1>7
  <2>2. Ends(r) /\ WriteMarker("refresh") /\ pc[r] # "idle"
    BY <1>2, <2>1 DEF Complete
  <2>3. \A c \in wire' : c \in Copy /\ Kept(c)
    BY <1>1 DEF TypeOK, LateCopies
  <2> QED BY <1>1, <1>2, <1>4, <1>5, <1>6, <2>2, <2>3, EndsPreserves
<1>8. CASE AwaitsSnapshot(is)
  <2>1. /\ frames' = [frames EXCEPT ![r] = Loaded]
        /\ pc' = [pc EXCEPT ![r] = "snapshot"]
        /\ UNCHANGED <<tries, got, failed, raced, marker>>
    BY <1>3, <1>8
  <2>2. /\ pc' \in [Runner -> {"idle"} \cup Awaiting \cup Working]
        /\ pc'[r] = "snapshot" /\ \A q \in Runner : q # r => pc'[q] = pc[q]
    BY <2>1 DEF TypeOK, Awaiting
  <2>3. /\ Loaded \in Bars
        /\ \A s \in Held, d \in Day : Loaded[s][d] <= bars[s][d]
        /\ Loaded = NoBars \/ (got[r] # {} => Loaded = frames[r])
    <3>1. CASE Loaded = prices.bars /\ prices.whole
      BY <1>2, <3>1 DEF TypeOK, Served, OwnPrices
    <3>2. CASE Loaded = NoBars
      <4>1. \A s \in Held, d \in Day : bars[s][d] \in Nat
        BY PricesAreNumbers
      <4> QED BY <3>2, <4>1, EmptyPanel
    <3> QED BY <3>1, <3>2 DEF Loaded
  <2>4. \A q \in Runner : frames'[q] = IF q = r THEN Loaded ELSE frames[q]
    BY <2>1 DEF TypeOK
  <2>5. TypeOK'
    <3>1. frames' \in [Runner -> Bars]
      BY <2>1, <2>3 DEF TypeOK
    <3>2. AttemptsLeft'
      BY <1>2, <2>1, <2>2 DEF AttemptsLeft, Attempts, TypeOK
    <3> QED BY <1>1, <1>2, <1>4, <1>6, <2>1, <2>2, <3>1, <3>2 DEF TypeOK, AttemptsLeft
  <2>6. OneWorks'
    BY <1>2, <1>5, <2>2, DailyRefreshAssumption DEF OneWorks, Working, DailyRefreshAssumption
  <2>7. FetchedOnly'
    BY <2>1, <2>2, <2>4 DEF FetchedOnly
  <2>8. Served'
    BY <1>1, <1>2, <2>3, <2>4 DEF Served
  <2>9. RowsAreReal' /\ PolledIsBanked' /\ LateCopies'
    BY <1>1, <1>2 DEF RowsAreReal, PolledIsBanked, LateCopies, Kept
  <2>10. Valued'
    BY <2>2, <2>4 DEF Valued, PricedDays, DailyBars
  <2>11. NeverAhead'
    BY <1>2, <1>6 DEF NeverAhead
  <2>12. PanelFollows'
    BY <1>2, <2>2, <1>6 DEF PanelFollows
  <2>13. OwnPrices'
    BY <1>2, <2>1, <2>2, <2>4 DEF OwnPrices
  <2>14. NoOlder'
    BY <1>2, <2>1, <2>3, <2>4, EmptyPanel DEF NoOlder
  <2>15. Reported'
    <3>1. ASSUME NEW q \in Runner, q # r
          PROVE  /\ failed'[q] = failed[q] /\ pc'[q] = pc[q] /\ slots' = slots
                 /\ PricedDays(frames[q])' = PricedDays(frames[q])
                 /\ BarDate(frames[q])' = BarDate(frames[q])
      BY <1>1, <2>1, <2>2, <2>4, <3>1 DEF PricedDays, DailyBars, BarDate
    <3>2. equity' = equity /\ gateway' = gateway
      BY <1>2
    <3> QED BY <2>2, <3>1, <3>2 DEF Reported
  <2> QED BY <2>5, <2>6, <2>7, <2>8, <2>9, <2>10, <2>11, <2>12, <2>13, <2>14, <2>15
<1> QED BY <1>7, <1>8

\* The hook goes on to one of its two writes, or sends the report again.
LEMMA AdvancePreserves ==
    ASSUME IInv, NEW r \in Runner, NEW next \in {"equity", "gateway"},
           busy = Nobody, pc[r] \in Awaiting, PricedDays(frames[r]) # {},
           \/ next = "equity"
           \/ "postgres" \notin slots
           \/ pc[r] \in {"checking", "gateway", "answer"},
           pc' = [pc EXCEPT ![r] = next],
           tries' \in [Runner -> Nat], AttemptsLeft',
           UNCHANGED <<market, slots, got, frames, failed, raced, marker, busy, store, equity,
                       gateway, backtest, runs, unbuilt>>,
           faults' \in 0 .. MaxFaults,
           \A c \in wire' : c \in Copy /\ Kept(c)
    PROVE  IInv'
<1> USE DEF IInv
<1>1. UNCHANGED <<today, published, banked, polled, bars, prices, features>>
  BY DEF market, store
<1>2. \A q \in Runner : pc'[q] = IF q = r THEN next ELSE pc[q]
  BY DEF TypeOK
<1>3. TypeOK'
  <2>1. pc' \in [Runner -> {"idle"} \cup Awaiting \cup Working]
    BY DEF TypeOK, Awaiting
  <2>2. wire' \subseteq Copy
    OBVIOUS
  <2> QED BY <1>1, <2>1, <2>2 DEF TypeOK, AttemptsLeft
<1>4. OneWorks' /\ FetchedOnly'
  BY <1>2 DEF OneWorks, FetchedOnly, Working, Awaiting
<1>5. Served'
  BY <1>1 DEF Served
<1>6. RowsAreReal' /\ PolledIsBanked' /\ NeverAhead'
  BY <1>1 DEF RowsAreReal, PolledIsBanked, NeverAhead
<1>7. LateCopies'
  BY <1>1 DEF LateCopies, Kept
<1>8. Valued'
  <2>1. \A q \in Runner : pc'[q] \in {"equity", "checking", "gateway", "answer"}
                            => PricedDays(frames[q]) # {}
    BY <1>2 DEF Valued
  <2> QED BY <2>1 DEF Valued, PricedDays, DailyBars
<1>9. PanelFollows' /\ OwnPrices' /\ NoOlder'
  BY <1>1, <1>2 DEF PanelFollows, OwnPrices, NoOlder
<1>10. Reported'
  <2>1. ASSUME NEW q \in Runner
        PROVE  /\ ~failed[q] /\ "postgres" \in slots =>
                   (pc'[q] \in {"checking", "gateway", "answer"} =>
                      \A d \in PricedDays(frames[q]) : equity[d] # NoRow)
               /\ pc'[q] = "answer" => gateway[BarDate(frames[q])] # NoReport
    BY <1>2 DEF Reported
  <2> QED BY <2>1 DEF Reported, PricedDays, DailyBars, BarDate
<1> QED BY <1>3, <1>4, <1>5, <1>6, <1>7, <1>8, <1>9, <1>10

\* The hook reports, or returns without a report.
LEMMA ReportOrEndPreserves ==
    ASSUME IInv, NEW r \in Runner, ReportOrEnd(r), busy = Nobody,
           PricedDays(frames[r]) # {},
           pc[r] = "checking" \/ (pc[r] = "snapshot" /\ "postgres" \notin slots),
           UNCHANGED <<market, links, busy, store, equity, gateway, backtest, runs, faults, unbuilt>>
    PROVE  IInv'
<1>1. \A c \in wire' : c \in Copy /\ Kept(c)
  BY DEF links, IInv, TypeOK, LateCopies
<1>2. slots' = slots /\ faults' \in 0 .. MaxFaults
  BY DEF links, IInv, TypeOK
<1>3. CASE Complete(r)
  BY <1>1, <1>2, <1>3, CompletePreserves
<1>4. CASE ~Complete(r)
  <2>1. /\ pc' = [pc EXCEPT ![r] = "gateway"]
        /\ UNCHANGED <<tries, got, frames, failed, raced, marker>>
    BY <1>4 DEF ReportOrEnd
  <2>2. tries' \in [Runner -> Nat] /\ AttemptsLeft'
    BY <2>1, DailyRefreshAssumption DEF AttemptsLeft, Attempts, IInv, TypeOK, DailyRefreshAssumption
  <2>3. pc[r] \in Awaiting
    BY DEF Awaiting
  <2> QED BY <1>1, <1>2, <2>1, <2>2, <2>3, AdvancePreserves
<1> QED BY <1>3, <1>4

LEMMA SnapshotAnsweredPreserves ==
    ASSUME IInv, NEW r \in Runner, SnapshotAnswered(r)
    PROVE  IInv'
<1>1. /\ busy = Nobody /\ pc[r] = "snapshot"
      /\ UNCHANGED <<market, links, busy, store, equity, gateway, backtest, runs, faults, unbuilt>>
  BY DEF SnapshotAnswered
<1>2. \A c \in wire' : c \in Copy /\ Kept(c)
  BY <1>1 DEF links, IInv, TypeOK, LateCopies
<1>3. slots' = slots /\ faults' \in 0 .. MaxFaults
  BY <1>1 DEF links, IInv, TypeOK
<1>4. CASE PricedDays(frames[r]) = {}
  <2>1. Complete(r)
    BY <1>4 DEF SnapshotAnswered
  <2> QED BY <1>1, <1>2, <1>3, <2>1, CompletePreserves
<1>5. CASE PricedDays(frames[r]) # {} /\ "postgres" \in slots
  <2>1. /\ pc' = [pc EXCEPT ![r] = "equity"]
        /\ UNCHANGED <<tries, got, frames, failed, raced, marker>>
    BY <1>5 DEF SnapshotAnswered
  <2>2. tries' \in [Runner -> Nat] /\ AttemptsLeft'
    BY <1>1, <2>1 DEF AttemptsLeft, Attempts, IInv, TypeOK
  <2>3. pc[r] \in Awaiting
    BY <1>1 DEF Awaiting
  <2> QED BY <1>1, <1>2, <1>3, <1>5, <2>1, <2>2, <2>3, AdvancePreserves
<1>6. CASE PricedDays(frames[r]) # {} /\ "postgres" \notin slots
  <2>1. ReportOrEnd(r)
    BY <1>6 DEF SnapshotAnswered
  <2> QED BY <1>1, <1>6, <2>1, ReportOrEndPreserves
<1> QED BY <1>4, <1>5, <1>6

LEMMA CheckBarDatePreserves ==
    ASSUME IInv, NEW r \in Runner, CheckBarDate(r)
    PROVE  IInv'
<1>1. /\ busy = Nobody /\ pc[r] = "checking" /\ ReportOrEnd(r)
      /\ UNCHANGED <<market, links, busy, store, equity, gateway, backtest, runs, faults, unbuilt>>
  BY DEF CheckBarDate
<1>2. PricedDays(frames[r]) # {}
  BY <1>1 DEF IInv, Valued
<1> QED BY <1>1, <1>2, ReportOrEndPreserves

LEMMA PostAnsweredPreserves ==
    ASSUME IInv, NEW r \in Runner, PostAnswered(r)
    PROVE  IInv'
<1>1. \A c \in wire' : c \in Copy /\ Kept(c)
  BY DEF PostAnswered, links, IInv, TypeOK, LateCopies
<1>2. slots' = slots /\ faults' \in 0 .. MaxFaults
  BY DEF PostAnswered, links, IInv, TypeOK
<1> QED BY <1>1, <1>2, CompletePreserves DEF PostAnswered

\* An attempt without a usable answer: the next one, or the hook returns.
LEMMA RetryPreserves ==
    ASSUME IInv, NEW r \in Runner, Retry(r), Fault, busy = Nobody,
           pc[r] \in {"gateway", "answer"},
           UNCHANGED <<market, slots, busy, store, equity, gateway, backtest, runs, unbuilt>>,
           \A c \in wire' : c \in Copy /\ Kept(c)
    PROVE  IInv'
<1>1. faults' \in 0 .. MaxFaults /\ pc[r] # "idle" /\ pc[r] \in Awaiting
  BY DailyRefreshAssumption DEF Fault, Awaiting, IInv, TypeOK, DailyRefreshAssumption
<1>2. CASE Complete(r)
  BY <1>1, <1>2, CompletePreserves
<1>3. CASE ~Complete(r)
  <2>1. /\ tries[r] + 1 < PostAttempts
        /\ pc' = [pc EXCEPT ![r] = "gateway"]
        /\ tries' = [tries EXCEPT ![r] = @ + 1]
        /\ UNCHANGED <<got, frames, failed, raced, marker>>
    BY <1>3 DEF Retry
  <2>2. tries' \in [Runner -> Nat] /\ AttemptsLeft'
    <3>1. tries' \in [Runner -> Nat]
      BY <2>1 DEF IInv, TypeOK
    <3>2. tries'[r] < Attempts(pc'[r])
      BY <2>1 DEF Attempts, IInv, TypeOK
    <3>3. \A q \in Runner : q # r => tries'[q] < Attempts(pc'[q])
      BY <2>1 DEF IInv, TypeOK
    <3> QED BY <3>1, <3>2, <3>3 DEF AttemptsLeft
  <2>3. PricedDays(frames[r]) # {}
    BY DEF IInv, Valued
  <2> QED BY <1>1, <2>1, <2>2, <2>3, AdvancePreserves
<1> QED BY <1>2, <1>3

LEMMA PostFailsPreserves ==
    ASSUME IInv, NEW r \in Runner, PostFails(r)
    PROVE  IInv'
<1>1. /\ busy = Nobody /\ pc[r] = "gateway" /\ Fault /\ Retry(r)
      /\ wire' \in {wire, wire \cup {CopyOf(r)}}
      /\ UNCHANGED <<market, slots, busy, store, equity, gateway, backtest, runs, unbuilt>>
  BY DEF PostFails
<1>2. faults' \in 1 .. MaxFaults
  BY <1>1, DailyRefreshAssumption DEF Fault, IInv, TypeOK, DailyRefreshAssumption
<1>3. \A c \in wire : c \in Copy /\ Kept(c)
  BY DEF IInv, TypeOK, LateCopies
<1>4. CopyOf(r) \in Copy /\ Kept(CopyOf(r))
  BY <1>1, <1>2, CopyIsKept
<1>5. \A c \in wire' : c \in Copy /\ Kept(c)
  BY <1>1, <1>3, <1>4
<1> QED BY <1>1, <1>5, RetryPreserves

LEMMA AnswerLostPreserves ==
    ASSUME IInv, NEW r \in Runner, AnswerLost(r)
    PROVE  IInv'
<1>1. \A c \in wire' : c \in Copy /\ Kept(c)
  BY DEF AnswerLost, links, IInv, TypeOK, LateCopies
<1>2. slots' = slots
  BY DEF AnswerLost, links
<1> QED BY <1>1, <1>2, RetryPreserves DEF AnswerLost

LEMMA PostRefusedPreserves ==
    ASSUME IInv, NEW r \in Runner, PostRefused(r)
    PROVE  IInv'
<1>1. \A c \in wire' : c \in Copy /\ Kept(c)
  BY DEF PostRefused, links, IInv, TypeOK, LateCopies
<1>2. slots' = slots /\ faults' \in 0 .. MaxFaults
  BY DailyRefreshAssumption DEF PostRefused, Fault, links, IInv, TypeOK, DailyRefreshAssumption
<1> QED BY <1>1, <1>2, CompletePreserves DEF PostRefused

\* The upsert writes the days the run has priced and no others; a failed one none.
LEMMA WriteEquityPreserves ==
    ASSUME IInv, NEW r \in Runner, WriteEquity(r)
    PROVE  IInv'
<1> USE DEF IInv
<1> DEFINE panel == frames[r]
<1>1. /\ busy = Nobody /\ pc[r] = "equity" /\ pc' = [pc EXCEPT ![r] = "checking"]
      /\ UNCHANGED <<tries, got, frames, busy, gateway, marker, backtest, runs, unbuilt>>
  BY DEF WriteEquity
<1>2. UNCHANGED <<today, published, banked, polled, slots, wire, bars, prices, features>>
  BY DEF WriteEquity, market, links, store
<1>3. \/ /\ equity' = [d \in Day |-> IF d \in PricedDays(panel)
                                     THEN DailyBars(panel, d) ELSE equity[d]]
         /\ raced' = RacedBy(r)
         /\ failed' = failed /\ faults' = faults
      \/ /\ Fault
         /\ failed' = [failed EXCEPT ![r] = TRUE]
         /\ equity' = equity /\ raced' = raced
  BY DEF WriteEquity
<1>4. \A q \in Runner : pc'[q] = IF q = r THEN "checking" ELSE pc[q]
  BY <1>1 DEF TypeOK
<1>5. panel \in Bars /\ PricedDays(panel) # {}
  BY <1>1 DEF TypeOK, Valued
<1> HIDE DEF panel
<1>6. \/ /\ \A d \in Day : equity'[d] = IF d \in PricedDays(panel)
                                        THEN DailyBars(panel, d) ELSE equity[d]
         /\ \A q \in Runner : raced'[q] = (raced[q] \/ (q # r /\ pc[q] # "idle"))
         /\ failed' = failed
      \/ /\ equity' = equity /\ raced' = raced
         /\ failed'[r] = TRUE /\ \A q \in Runner : q # r => failed'[q] = failed[q]
  BY <1>3 DEF TypeOK, RacedBy
<1>7. TypeOK'
  <2>1. pc' \in [Runner -> {"idle"} \cup Awaiting \cup Working]
    BY <1>1 DEF TypeOK, Awaiting
  <2>2. equity' \in [Day -> Row]
    <3>1. \A d \in PricedDays(panel) : DailyBars(panel, d) \in Row
      BY <1>5, PricedRow
    <3>2. equity \in [Day -> Row]
      BY DEF TypeOK
    <3> QED BY <1>3, <3>1, <3>2
  <2>3. faults' \in 0 .. MaxFaults
    BY <1>3, DailyRefreshAssumption DEF Fault, TypeOK, DailyRefreshAssumption
  <2>4. failed' \in [Runner -> BOOLEAN] /\ raced' \in [Runner -> BOOLEAN]
    BY <1>3 DEF TypeOK, RacedBy
  <2>5. AttemptsLeft'
    BY <1>1, <1>4 DEF AttemptsLeft, Attempts, TypeOK
  <2> QED BY <1>1, <1>2, <2>1, <2>2, <2>3, <2>4, <2>5 DEF TypeOK, AttemptsLeft
<1>9. OneWorks' /\ FetchedOnly'
  BY <1>1, <1>4 DEF OneWorks, FetchedOnly, Working
<1>10. \A d \in Day : \/ equity'[d] = equity[d]
                      \/ /\ d \in PricedDays(panel) /\ equity'[d] = DailyBars(panel, d)
                         /\ equity'[d] # NoRow
                         /\ \A s \in Held : equity'[d][s] = panel[s][d] /\ panel[s][d] > 0
  <2> SUFFICES ASSUME NEW d \in Day, equity'[d] # equity[d]
               PROVE  /\ d \in PricedDays(panel) /\ equity'[d] = DailyBars(panel, d)
                      /\ equity'[d] # NoRow
                      /\ \A s \in Held : equity'[d][s] = panel[s][d] /\ panel[s][d] > 0
    OBVIOUS
  <2>1. d \in PricedDays(panel) /\ equity'[d] = DailyBars(panel, d)
    BY <1>6
  <2> QED BY <1>5, <2>1, PricedRow
<1>11. Served'
  <2>1. \A s \in Held, d \in Day : equity'[d][s] <= bars[s][d]
    <3> SUFFICES ASSUME NEW s \in Held, NEW d \in Day PROVE equity'[d][s] <= bars[s][d]
      OBVIOUS
    <3>1. panel[s][d] <= bars[s][d] /\ equity[d][s] <= bars[s][d]
      BY DEF Served, panel
    <3> QED BY <1>10, <3>1
  <2> QED BY <1>1, <1>2, <2>1 DEF Served
<1>12. RowsAreReal'
  <2> SUFFICES ASSUME NEW d \in Day, equity'[d] # NoRow
               PROVE  d \in Open /\ \A s \in Held : equity'[d][s] > 0
    BY <1>1 DEF RowsAreReal
  <2>1. CASE equity'[d] = equity[d]
    BY <2>1 DEF RowsAreReal
  <2>2. CASE equity'[d] # equity[d]
    <3>1. \A s \in Held : equity'[d][s] = panel[s][d] /\ panel[s][d] > 0
      BY <1>10, <2>2
    <3>2. PICK s \in Held : TRUE
      BY DailyRefreshAssumption DEF DailyRefreshAssumption
    <3>3. panel[s][d] > 0 /\ panel[s][d] <= bars[s][d] /\ panel[s][d] \in Nat /\ bars[s][d] \in Nat
      BY <3>1, <3>2, PricesAreNumbers DEF Served, panel
    <3>4. d \in Open
      BY <3>3 DEF Served
    <3> QED BY <3>1, <3>4
  <2> QED BY <2>1, <2>2
<1>13. Valued'
  <2>1. \A q \in Runner : pc'[q] \in {"equity", "checking", "gateway", "answer"}
                            => PricedDays(frames[q]) # {}
    BY <1>4, <1>5 DEF Valued, panel
  <2> QED BY <1>1, <2>1 DEF Valued, PricedDays, DailyBars
<1>14. PolledIsBanked' /\ LateCopies' /\ NeverAhead'
  BY <1>1, <1>2 DEF PolledIsBanked, LateCopies, Kept, NeverAhead
<1>15. PanelFollows' /\ OwnPrices'
  BY <1>1, <1>2, <1>4 DEF PanelFollows, OwnPrices
<1>16. NoOlder'
  <2> SUFFICES ASSUME NEW q \in Runner, ~raced'[q], got[q] # {}, NEW s \in Held, NEW d \in Day,
                      frames[q][s][d] > 0
               PROVE  /\ equity'[d][s] <= frames[q][s][d]
                      /\ gateway[d].row[s] <= frames[q][s][d]
    BY <1>1 DEF NoOlder
  <2>1. ~raced[q]
    BY <1>6
  <2>2. equity[d][s] <= frames[q][s][d] /\ gateway[d].row[s] <= frames[q][s][d]
    BY <2>1 DEF NoOlder
  <2>3. CASE equity'[d] = equity[d]
    BY <2>2, <2>3
  <2>4. CASE equity'[d] # equity[d]
    <3>1. pc[q] # "idle"
      BY DEF FetchedOnly
    <3>2. q = r
      BY <1>6, <2>4, <3>1
    <3>3. equity'[d][s] = frames[q][s][d] /\ frames[q][s][d] \in Nat
      BY <1>10, <2>4, <3>2, PricesAreNumbers DEF panel
    <3> QED BY <2>2, <3>3
  <2> QED BY <2>3, <2>4
<1>17. Reported'
  <2>1. \A d \in Day : equity[d] # NoRow => equity'[d] # NoRow
    BY <1>10
  <2>2. ASSUME NEW q \in Runner, ~failed'[q], "postgres" \in slots,
               pc'[q] \in {"checking", "gateway", "answer"}, NEW d \in PricedDays(frames[q])
        PROVE  equity'[d] # NoRow
    <3>1. d \in Day
      BY DEF PricedDays
    <3>2. CASE q = r
      <4>1. d \in PricedDays(panel) /\ equity'[d] = DailyBars(panel, d)
        BY <1>6, <2>2, <3>1, <3>2 DEF panel
      <4> QED BY <1>5, <4>1, PricedRow
    <3>3. CASE q # r
      BY <1>4, <1>6, <2>1, <2>2, <3>1, <3>3 DEF Reported
    <3> QED BY <3>2, <3>3
  <2>3. ASSUME NEW q \in Runner, pc'[q] = "answer"
        PROVE  gateway[BarDate(frames[q])] # NoReport
    BY <1>4, <2>3 DEF Reported
  <2> QED BY <1>1, <1>2, <2>2, <2>3 DEF Reported, PricedDays, DailyBars, BarDate
<1> QED BY <1>7, <1>9, <1>11, <1>12, <1>13, <1>14, <1>15, <1>16, <1>17

\* The gateway takes a report, of a request or of a copy that comes late: everyone in
\* flight is raced, but the one that sent it, and every copy is overtaken.
LEMMA UpsertPreserves ==
    ASSUME IInv, NEW day \in Day, NEW report \in Report, NEW sender \in SUBSET Runner,
           busy = Nobody, report.of = day,
           \A s \in Held : /\ report.row[s] > 0 /\ report.row[s] \in Nat
                           /\ report.row[s] <= bars[s][day],
           \A r \in sender : \A s \in Held :
               /\ report.row[s] = frames[r][s][day] /\ PricedDays(frames[r]) # {}
               /\ pc[r] = "gateway" /\ day = BarDate(frames[r]),
           gateway' = [gateway EXCEPT ![day] = report],
           raced' \in [Runner -> BOOLEAN],
           \A q \in Runner \ sender : raced'[q] = (raced[q] \/ pc[q] # "idle"),
           \A r \in sender : raced'[r] = raced[r],
           pc' \in [Runner -> {"idle"} \cup Awaiting \cup Working],
           \A q \in Runner : pc'[q] = IF q \in sender THEN "answer" ELSE pc[q],
           wire' \subseteq Copy,
           \A c \in wire' : c.stale /\ \E k \in wire : c.day = k.day /\ c.report = k.report,
           UNCHANGED <<today, bars, published, banked, polled, slots, tries, got, frames, failed,
                       busy, prices, features, equity, marker, backtest, runs, faults, unbuilt>>
    PROVE  IInv'
<1> USE DEF IInv
<1>1. \A d \in Day : gateway'[d] = IF d = day THEN report ELSE gateway[d]
  BY DEF TypeOK
<1>2. PICK t \in Held : TRUE
  BY DailyRefreshAssumption DEF DailyRefreshAssumption
<1>3. report # NoReport
  BY <1>2 DEF NoReport, NoRow
<1>4. \A r \in sender : pc[r] = "gateway" /\ day = BarDate(frames[r]) /\ PricedDays(frames[r]) # {}
  BY <1>2
<1>5. TypeOK'
  <2>1. gateway' \in [Day -> Report]
    BY DEF TypeOK
  <2>2. AttemptsLeft'
    <3>1. \A q \in Runner : Attempts(pc'[q]) = Attempts(pc[q])
      BY <1>4 DEF Attempts
    <3> QED BY <3>1 DEF AttemptsLeft, TypeOK
  <2> QED BY <2>1, <2>2 DEF TypeOK, AttemptsLeft
<1>6. OneWorks' /\ FetchedOnly'
  BY <1>4 DEF OneWorks, FetchedOnly, Working
<1>7. Served'
  BY <1>1 DEF Served
<1>8. RowsAreReal'
  <2>1. day \in Open
    <3>1. bars[t][day] > 0
      BY <1>2, PricesAreNumbers
    <3> QED BY <1>2, <3>1 DEF Served
  <2> SUFFICES ASSUME NEW d \in Day, gateway'[d] # NoReport
               PROVE  /\ d \in Open /\ gateway'[d].of = d
                      /\ \A s \in Held : gateway'[d].row[s] > 0
    BY DEF RowsAreReal
  <2>2. CASE d = day
    BY <1>1, <2>1, <2>2
  <2>3. CASE d # day
    BY <1>1, <2>3 DEF RowsAreReal
  <2> QED BY <2>2, <2>3
<1>9. Valued'
  <2>1. \A q \in Runner : pc'[q] \in {"equity", "checking", "gateway", "answer"}
                            => PricedDays(frames[q]) # {}
    BY <1>4 DEF Valued
  <2> QED BY <2>1 DEF Valued, PricedDays, DailyBars
<1>10. PolledIsBanked' /\ NeverAhead'
  BY DEF PolledIsBanked, NeverAhead
<1>11. PanelFollows' /\ OwnPrices'
  BY <1>4 DEF PanelFollows, OwnPrices
<1>12. LateCopies'
  <2> SUFFICES ASSUME NEW c \in wire' PROVE Kept(c)'
    BY DEF LateCopies
  <2>1. PICK k \in wire : c.day = k.day /\ c.report = k.report
    OBVIOUS
  <2> QED BY <2>1 DEF LateCopies, Kept
<1>13. NoOlder'
  <2> SUFFICES ASSUME NEW q \in Runner, ~raced'[q], got[q] # {}, NEW s \in Held, NEW d \in Day,
                      frames[q][s][d] > 0
               PROVE  /\ equity[d][s] <= frames[q][s][d]
                      /\ gateway'[d].row[s] <= frames[q][s][d]
    BY DEF NoOlder
  <2>1. ~raced[q]
    OBVIOUS
  <2>2. equity[d][s] <= frames[q][s][d] /\ gateway[d].row[s] <= frames[q][s][d]
    BY <2>1 DEF NoOlder
  <2>3. CASE d # day
    BY <1>1, <2>2, <2>3
  <2>4. CASE d = day
    <3>1. pc[q] # "idle"
      BY DEF FetchedOnly
    <3>2. q \in sender
      BY <3>1
    <3>3. gateway'[d].row[s] = frames[q][s][d] /\ frames[q][s][d] \in Nat
      BY <1>1, <2>4, <3>2
    <3> QED BY <2>2, <3>3
  <2> QED BY <2>3, <2>4
<1>14. Reported'
  <2>1. ASSUME NEW q \in Runner, ~failed[q], "postgres" \in slots,
               pc'[q] \in {"checking", "gateway", "answer"}, NEW d \in PricedDays(frames[q])
        PROVE  equity[d] # NoRow
    BY <1>4, <2>1 DEF Reported
  <2>2. ASSUME NEW q \in Runner, pc'[q] = "answer"
        PROVE  gateway'[BarDate(frames[q])] # NoReport
    <3>1. CASE q \in sender
      BY <1>1, <1>3, <1>4, <3>1
    <3>2. CASE q \notin sender
      <4>1. BarDate(frames[q]) \in Day
        BY <2>2, <3>2, BarDateIsLast DEF Valued
      <4>2. gateway[BarDate(frames[q])] # NoReport
        BY <2>2, <3>2 DEF Reported
      <4> QED BY <1>1, <1>3, <4>1, <4>2
    <3> QED BY <3>1, <3>2
  <2>3. \A q \in Runner : /\ PricedDays(frames[q])' = PricedDays(frames[q])
                          /\ BarDate(frames[q])' = BarDate(frames[q])
    BY DEF PricedDays, DailyBars, BarDate
  <2>4. failed' = failed /\ slots' = slots /\ equity' = equity
    OBVIOUS
  <2> HIDE DEF IInv
  <2> QED BY <2>1, <2>2, <2>3, <2>4 DEF Reported
<1> QED BY <1>5, <1>6, <1>7, <1>8, <1>9, <1>10, <1>11, <1>12, <1>13, <1>14

LEMMA OvertakenCopies ==
    ASSUME NEW copies \in SUBSET Copy
    PROVE  /\ Overtaken(copies) \subseteq Copy
           /\ \A c \in Overtaken(copies) :
                c.stale /\ \E k \in copies : c.day = k.day /\ c.report = k.report
BY DEF Overtaken, Copy

\* The report is keyed by the last priced day, and is of that day.
LEMMA PostReportPreserves ==
    ASSUME IInv, NEW r \in Runner, PostReport(r)
    PROVE  IInv'
<1> USE DEF IInv
<1> DEFINE last == BarDate(frames[r])
           report == ReportOf(frames[r])
<1>1. /\ busy = Nobody /\ pc[r] = "gateway" /\ pc' = [pc EXCEPT ![r] = "answer"]
      /\ raced' = RacedBy(r) /\ wire' = Overtaken(wire)
      /\ UNCHANGED <<slots, tries, got, frames, failed, busy, equity, marker, backtest, runs,
                     faults, unbuilt>>
  BY DEF PostReport
<1>2. UNCHANGED <<today, bars, published, banked, polled, prices, features>>
  BY DEF PostReport, market, store
<1>3. PricedDays(frames[r]) # {}
  BY <1>1 DEF Valued
<1>4. /\ last \in Day /\ AsOf(frames[r]) = last
      /\ report \in Report /\ report.of = last
      /\ \A s \in Held : /\ report.row[s] = frames[r][s][last]
                         /\ report.row[s] \in Nat /\ report.row[s] > 0
  BY <1>3, ReportIsOfBarDate
<1> HIDE DEF report
<1>5. gateway' = [gateway EXCEPT ![last] = report]
  BY <1>4 DEF PostReport, report
<1>6. \A s \in Held : report.row[s] <= bars[s][last]
  BY <1>4 DEF Served
<1>7. /\ wire' \subseteq Copy
      /\ \A c \in wire' : c.stale /\ \E k \in wire : c.day = k.day /\ c.report = k.report
  BY <1>1, OvertakenCopies DEF TypeOK
<1>8. /\ raced' \in [Runner -> BOOLEAN]
      /\ raced'[r] = raced[r]
      /\ \A q \in Runner \ {r} : raced'[q] = (raced[q] \/ pc[q] # "idle")
  BY <1>1 DEF RacedBy, TypeOK
<1>9. /\ pc' \in [Runner -> {"idle"} \cup Awaiting \cup Working]
      /\ \A q \in Runner : pc'[q] = IF q \in {r} THEN "answer" ELSE pc[q]
  BY <1>1 DEF TypeOK, Awaiting
<1>10. {r} \in SUBSET Runner /\ \A q \in {r} : raced'[q] = raced[q]
  BY <1>8
<1>11. \A q \in {r} : \A s \in Held :
          /\ report.row[s] = frames[q][s][last] /\ PricedDays(frames[q]) # {}
          /\ pc[q] = "gateway" /\ last = BarDate(frames[q])
  BY <1>1, <1>3, <1>4
<1> HIDE DEF last, IInv
<1> QED BY <1>1, <1>2, <1>4, <1>5, <1>6, <1>7, <1>8, <1>9, <1>10, <1>11, UpsertPreserves

LEMMA DeliverLatePreserves ==
    ASSUME IInv, NEW c \in wire, DeliverLate(c)
    PROVE  IInv'
<1> USE DEF IInv
<1>1. /\ busy = Nobody /\ gateway' = [gateway EXCEPT ![c.day] = c.report]
      /\ wire' = Overtaken(wire \ {c})
      /\ raced' = [q \in Runner |-> raced[q] \/ pc[q] # "idle"]
      /\ UNCHANGED <<slots, pc, tries, got, frames, failed, busy, equity, marker, backtest, runs,
                     faults, unbuilt>>
  BY DEF DeliverLate
<1>2. UNCHANGED <<today, bars, published, banked, polled, prices, features>>
  BY DEF DeliverLate, market, store
<1>3. c \in Copy /\ Kept(c)
  BY DEF TypeOK, LateCopies
<1>4. c.day \in Day /\ c.report \in Report /\ c.report.of = c.day
  BY <1>3 DEF Copy, Kept
<1>5. \A s \in Held : /\ c.report.row[s] > 0 /\ c.report.row[s] \in Nat
                      /\ c.report.row[s] <= bars[s][c.day]
  BY <1>3, <1>4 DEF Kept, Report, Row
<1>6. wire \ {c} \in SUBSET Copy
  BY DEF TypeOK
<1>7. /\ wire' \subseteq Copy
      /\ \A k \in wire' : k.stale /\ \E l \in wire : k.day = l.day /\ k.report = l.report
  BY <1>1, <1>6, OvertakenCopies
<1>8. /\ raced' \in [Runner -> BOOLEAN]
      /\ \A q \in Runner \ {} : raced'[q] = (raced[q] \/ pc[q] # "idle")
  BY <1>1 DEF TypeOK
<1>9. /\ pc' \in [Runner -> {"idle"} \cup Awaiting \cup Working]
      /\ \A q \in Runner : pc'[q] = IF q \in {} THEN "answer" ELSE pc[q]
  BY <1>1 DEF TypeOK
<1>10. {} \in SUBSET Runner
  OBVIOUS
<1> HIDE DEF IInv
<1> QED BY <1>1, <1>2, <1>4, <1>5, <1>7, <1>8, <1>9, <1>10, UpsertPreserves

-----------------------------------------------------------------------------
(* The backtest and the process *)

LEMMA BacktestLoadPreserves ==
    ASSUME IInv, NEW key \in {"features", "prices"}, BacktestLoad(key)
    PROVE  IInv'
<1> USE DEF IInv
<1>1. UNCHANGED <<today, published, banked, polled, slots, wire, bars, pc, tries, got,
                  frames, failed, raced, busy>>
  BY DEF BacktestLoad, market, links, local
<1>2. UNCHANGED <<prices, features, equity, gateway, marker, runs, faults, unbuilt>>
  BY DEF BacktestLoad, store, rows
<1>3. /\ prices.version \in Nat /\ features.version \in Nat
      /\ backtest \in [features : Nat \cup {None}, prices : Nat \cup {None}]
  BY DEF TypeOK
<1>4. \/ backtest' = NotLoaded
      \/ /\ backtest = NotLoaded
         /\ \E v \in {0, features.version} : backtest' = [backtest EXCEPT !.features = v]
  BY DEF BacktestLoad, LoadOrder
<1>5. /\ backtest' \in [features : Nat \cup {None}, prices : Nat \cup {None}]
      /\ backtest'.prices = None
      /\ backtest'.features # None => backtest'.features <= prices.version
  <2>1. CASE backtest' = NotLoaded
    BY <2>1 DEF NotLoaded
  <2>2. CASE \E v \in {0, features.version} :
               backtest = NotLoaded /\ backtest' = [backtest EXCEPT !.features = v]
    BY <1>3, <2>2 DEF NotLoaded, NeverAhead
  <2> QED BY <1>4, <2>1, <2>2
<1>6. TypeOK'
  BY <1>1, <1>2, <1>5 DEF TypeOK
<1>7. NeverAhead'
  BY <1>2, <1>5 DEF NeverAhead
<1>8. Served'
  BY <1>1, <1>2 DEF Served
<1>9. OneWorks' /\ FetchedOnly'
  BY <1>1 DEF OneWorks, FetchedOnly
<1>10. RowsAreReal' /\ PolledIsBanked' /\ LateCopies' /\ PanelFollows'
  BY <1>1, <1>2 DEF RowsAreReal, PolledIsBanked, LateCopies, Kept, PanelFollows
<1>11. Valued' /\ OwnPrices' /\ NoOlder'
  BY <1>1, <1>2 DEF Valued, OwnPrices, NoOlder, PricedDays, DailyBars
<1>12. Reported'
  BY <1>1, <1>2 DEF Reported, PricedDays, DailyBars, BarDate
<1> QED BY <1>6, <1>7, <1>8, <1>9, <1>10, <1>11, <1>12

LEMMA RestartPreserves == IInv /\ Restart => IInv'
<1> SUFFICES ASSUME IInv, Restart PROVE IInv'
  OBVIOUS
<1> USE DEF IInv
<1>1. UNCHANGED <<today, published, banked, polled, bars, prices, features, equity, gateway,
                  marker, runs>>
  BY DEF Restart, market, store, rows
<1>2. /\ \A r \in Runner : /\ pc'[r] = "idle" /\ tries'[r] = 0 /\ got'[r] = {}
                           /\ frames'[r] = NoBars /\ failed'[r] = FALSE /\ raced'[r] = FALSE
      /\ busy' = Nobody /\ backtest' = NotLoaded
      /\ unbuilt' = IF busy = Nobody THEN unbuilt ELSE unbuilt \cup {prices.version}
  BY DEF Restart
<1>3. faults' \in 1 .. MaxFaults
  <2>1. faults' \in {faults + 1, faults + 2} /\ faults' <= MaxFaults
    BY DEF Restart, StartFaults, TypeOK
  <2> QED BY <2>1, DailyRefreshAssumption DEF TypeOK, DailyRefreshAssumption
<1>4. \A c \in wire' : c \in Copy /\ Kept(c)
  BY <1>3, AbandonedAreKept DEF Restart
<1>5. TypeOK'
  <2>1. tries' \in [Runner -> Nat] /\ AttemptsLeft'
    BY <1>2 DEF Restart, AttemptsLeft, Attempts
  <2>2. /\ pc' \in [Runner -> {"idle"} \cup Awaiting \cup Working]
        /\ got' \in [Runner -> SUBSET Symbol]
        /\ failed' \in [Runner -> BOOLEAN] /\ raced' \in [Runner -> BOOLEAN]
    BY DEF Restart
  <2>3. frames' \in [Runner -> Bars]
    BY EmptyPanel DEF Restart
  <2>4. backtest' \in [features : Nat \cup {None}, prices : Nat \cup {None}]
    BY <1>2 DEF NotLoaded
  <2>5. unbuilt' \subseteq Nat
    BY <1>2 DEF TypeOK
  <2>6. slots' \subseteq Slot
    BY DailyRefreshAssumption DEF Restart, DailyRefreshAssumption
  <2>7. wire' \subseteq Copy
    BY <1>4
  <2> QED BY <1>1, <1>2, <1>3, <2>1, <2>2, <2>3, <2>4, <2>5, <2>6, <2>7 DEF TypeOK, AttemptsLeft
<1>6. OneWorks' /\ FetchedOnly'
  BY <1>2, EmptyPanel, DailyRefreshAssumption
     DEF OneWorks, FetchedOnly, Working, DailyRefreshAssumption
<1>7. Served'
  <2>1. \A r \in Runner, s \in Held, d \in Day : frames'[r][s][d] <= bars[s][d]
    BY <1>2, EmptyPanel, PricesAreNumbers
  <2> QED BY <1>1, <2>1 DEF Served
<1>8. RowsAreReal' /\ PolledIsBanked'
  BY <1>1 DEF RowsAreReal, PolledIsBanked
<1>9. LateCopies'
  BY <1>1, <1>4 DEF LateCopies, Kept
<1>10. Valued' /\ OwnPrices' /\ NoOlder' /\ Reported'
  BY <1>2 DEF Valued, OwnPrices, NoOlder, Reported
<1>11. NeverAhead'
  BY <1>1, <1>2 DEF NeverAhead, NotLoaded
<1>12. PanelFollows'
  BY <1>1, <1>2 DEF PanelFollows
<1> QED BY <1>5, <1>6, <1>7, <1>8, <1>9, <1>10, <1>11, <1>12

-----------------------------------------------------------------------------
(* The theorems *)

LEMMA StepPreserves == IInv /\ [Next]_vars => IInv'
<1> SUFFICES ASSUME IInv, [Next]_vars PROVE IInv'
  OBVIOUS
<1>1. CASE UNCHANGED vars
  BY <1>1, StutterPreserves
<1>2. CASE \E s \in Held, d \in Day : Publish(s, d)
  BY <1>2, PublishPreserves
<1>3. CASE Midnight \/ HolidayPoll \/ (\E d \in Day : Revise(d)) \/ Restart
  BY <1>3, MidnightPreserves, CalendarPreserves, RestartPreserves
<1>4. CASE \/ \E key \in {"features", "prices"} : BacktestLoad(key)
           \/ \E c \in wire : DeliverLate(c)
  BY <1>4, BacktestLoadPreserves, DeliverLatePreserves
<1>5. ASSUME NEW r \in Runner,
             \/ SkipHoliday(r) \/ Start(r) \/ FetchHeld(r) \/ FetchUniverse(r)
             \/ BeginPrices(r) \/ EndPrices(r) \/ BuildFeatures(r) \/ BuildRaises(r)
             \/ SaveRaises(r) \/ StoreFeatures(r)
      PROVE  IInv'
  BY <1>5, SkipHolidayPreserves, StartPreserves, FetchHeldPreserves, FetchUniversePreserves,
     BeginPricesPreserves, EndPricesPreserves, BuildFeaturesPreserves, RaisesPreserves,
     StoreFeaturesPreserves
<1>6. ASSUME NEW r \in Runner,
             \/ SnapshotAnswered(r) \/ WriteEquity(r) \/ CheckBarDate(r)
             \/ PostReport(r) \/ PostFails(r) \/ AnswerLost(r) \/ PostRefused(r)
             \/ PostAnswered(r) \/ CutOff(r)
      PROVE  IInv'
  BY <1>6, SnapshotAnsweredPreserves, WriteEquityPreserves, CheckBarDatePreserves,
     PostReportPreserves, PostFailsPreserves, AnswerLostPreserves, PostRefusedPreserves,
     PostAnsweredPreserves, CutOffPreserves
<1> QED BY <1>1, <1>2, <1>3, <1>4, <1>5, <1>6 DEF Next

\* The invariant holds throughout.
THEOREM Inductive == Spec => []IInv
BY InitEstablishes, StepPreserves, PTL DEF Spec

\* Every state is one the types describe: no phase counts more attempts than its limit,
\* and the gateway is keyed by days of the calendar only.
THEOREM TypeCorrect == Spec => []TypeOK
<1>1. IInv => TypeOK
  BY DEF IInv
<1> QED BY <1>1, Inductive, PTL

\* write_equity_curve and post_daily_report (hooks.py): no phantom and no partial row.
THEOREM RowsAreRealHolds == Spec => []RowsAreReal
<1>1. IInv => RowsAreReal
  BY DEF IInv
<1> QED BY <1>1, Inductive, PTL

\* A refresh is counted when it starts or is skipped, and begins when it starts.
LEMMA RunsAreCountedAtTheStart ==
    ASSUME [Next]_vars, runs' # runs
    PROVE  \E r \in Runner : SkipHoliday(r) \/ Start(r)
<1>1. ~(UNCHANGED vars \/ Midnight \/ HolidayPoll \/ Restart)
  BY DEF vars, Midnight, HolidayPoll, Restart
<1>2. /\ ~\E s \in Held, d \in Day : Publish(s, d)
      /\ ~\E d \in Day : Revise(d)
      /\ ~\E c \in wire : DeliverLate(c)
      /\ ~\E key \in {"features", "prices"} : BacktestLoad(key)
  BY DEF Publish, Revise, DeliverLate, BacktestLoad
<1>3. \A r \in Runner :
        /\ ~FetchHeld(r) /\ ~FetchUniverse(r) /\ ~BeginPrices(r) /\ ~EndPrices(r)
        /\ ~BuildFeatures(r) /\ ~BuildRaises(r) /\ ~SaveRaises(r) /\ ~StoreFeatures(r)
  BY DEF FetchHeld, FetchUniverse, BeginPrices, EndPrices, BuildFeatures, BuildRaises,
     SaveRaises, StoreFeatures
<1>4. \A r \in Runner :
        /\ ~SnapshotAnswered(r) /\ ~WriteEquity(r) /\ ~CheckBarDate(r) /\ ~PostReport(r)
        /\ ~PostFails(r) /\ ~AnswerLost(r) /\ ~PostRefused(r) /\ ~PostAnswered(r) /\ ~CutOff(r)
  BY DEF SnapshotAnswered, WriteEquity, CheckBarDate, PostReport, PostFails, AnswerLost,
     PostRefused, PostAnswered, CutOff
<1> QED BY <1>1, <1>2, <1>3, <1>4 DEF Next

LEMMA RunsBeginAtTheStart ==
    ASSUME IInv, [Next]_vars, NEW r \in Runner, pc[r] = "idle", pc'[r] = "held"
    PROVE  \E q \in Runner : Start(q)
<1> USE DEF IInv
<1>1. ~(UNCHANGED vars \/ Midnight \/ HolidayPoll \/ Restart)
  BY DEF vars, Midnight, HolidayPoll, Restart, local
<1>2. /\ ~\E s \in Held, d \in Day : Publish(s, d)
      /\ ~\E d \in Day : Revise(d)
      /\ ~\E c \in wire : DeliverLate(c)
      /\ ~\E key \in {"features", "prices"} : BacktestLoad(key)
  BY DEF Publish, Revise, DeliverLate, BacktestLoad, local
<1>3. ASSUME NEW q \in Runner
      PROVE  /\ ~SkipHoliday(q) /\ ~BeginPrices(q) /\ ~EndPrices(q) /\ ~BuildFeatures(q)
             /\ ~BuildRaises(q) /\ ~SaveRaises(q) /\ ~CutOff(q)
  BY DEF SkipHoliday, BeginPrices, EndPrices, BuildFeatures, BuildRaises, SaveRaises, CutOff,
     Ends, TypeOK, local
<1>4. ASSUME NEW q \in Runner PROVE ~FetchHeld(q) /\ ~FetchUniverse(q)
  BY DEF FetchHeld, FetchUniverse, Fetch, TypeOK
<1>5. ASSUME NEW q \in Runner
      PROVE  ~StoreFeatures(q) /\ ~SnapshotAnswered(q) /\ ~CheckBarDate(q)
  BY DEF StoreFeatures, SnapshotAnswered, CheckBarDate, ReportOrEnd, Complete, Ends, TypeOK
<1>6. ASSUME NEW q \in Runner
      PROVE  /\ ~WriteEquity(q) /\ ~PostReport(q) /\ ~PostFails(q) /\ ~AnswerLost(q)
             /\ ~PostRefused(q) /\ ~PostAnswered(q)
  BY DEF WriteEquity, PostReport, PostFails, AnswerLost, PostRefused, PostAnswered, Retry,
     Complete, Ends, TypeOK
<1> QED BY <1>1, <1>2, <1>3, <1>4, <1>5, <1>6 DEF Next

\* capture_set_holidays and is_set_holiday (data/calendar.py): once a capture has been
\* banked, a refresh is skipped exactly on the closures the endpoint lists, whatever the
\* committed table and the earlier captures say.
THEOREM FreshCaptureDecidesHolds == Spec => FreshCaptureDecides
<1> DEFINE Decides == SamePath /\ polled /\ runs' # runs => (today \in published <=> pc' = pc)
<1>1. ASSUME IInv, [Next]_vars, SamePath, polled, runs' # runs
      PROVE  today \in published <=> pc' = pc
  <2>1. IsSetHoliday(today) <=> today \in published
    BY <1>1 DEF IInv, PolledIsBanked, IsSetHoliday
  <2>2. ASSUME NEW r \in Runner, SkipHoliday(r) PROVE today \in published /\ pc' = pc
    BY <2>1, <2>2 DEF SkipHoliday, local
  <2>3. ASSUME NEW r \in Runner, Start(r) PROVE today \notin published /\ pc' # pc
    BY <1>1, <2>1, <2>3 DEF Start, IInv, TypeOK
  <2>4. \E r \in Runner : SkipHoliday(r) \/ Start(r)
    BY <1>1, RunsAreCountedAtTheStart
  <2> QED BY <2>2, <2>3, <2>4
<1>2. IInv /\ [Next]_vars => [Decides]_vars
  BY <1>1
<1> QED BY <1>2, Inductive, PTL DEF Spec, FreshCaptureDecides

\* daily_refresh (jobs.py): whoever else runs, is cut off or dies, the panel on disk is
\* that of the prices on disk, or the build of those prices did not finish.
THEOREM FeaturesFollowPricesHolds == Spec => []FeaturesFollowPrices
<1>1. IInv => FeaturesFollowPrices
  BY DEF IInv, PanelFollows, FeaturesFollowPrices
<1> QED BY <1>1, Inductive, PTL

\* holiday_poll (jobs.py): with the cache where the poll banks it, no refresh of a
\* closure goes out once the year is banked.
THEOREM BankedClosureIsSkippedHolds ==
    ASSUME SamePath
    PROVE  Spec => BankedClosureIsSkipped
<1> DEFINE Skipped(r) == pc[r] = "idle" /\ pc'[r] = "held" /\ polled => today \notin published
<1>1. ASSUME IInv, [Next]_vars, NEW r \in Runner, pc[r] = "idle", pc'[r] = "held", polled
      PROVE  today \notin published
  <2>1. PICK q \in Runner : Start(q)
    BY <1>1, RunsBeginAtTheStart
  <2> QED BY <1>1, <2>1 DEF Start, IsSetHoliday, IInv, PolledIsBanked
<1>2. IInv /\ [Next]_vars => [\A r \in Runner : Skipped(r)]_vars
  BY <1>1
<1> QED BY <1>2, Inductive, PTL DEF Spec, BankedClosureIsSkipped

\* _backtest_runner loads the panel first (jobs.py): whenever its thread is run between
\* the steps of the refreshes, what it ranks on is no newer than what it trades at.
THEOREM BacktestNeverLooksAheadHolds == Spec => BacktestNeverLooksAhead
<1>1. ASSUME IInv
      PROVE  (IF backtest.features = None THEN features.version ELSE backtest.features)
               <= (IF backtest.prices = None THEN prices.version ELSE backtest.prices)
  BY <1>1 DEF IInv, NeverAhead
<1> QED BY <1>1, Inductive, PTL DEF BacktestNeverLooksAhead, Spec

\* A run that was waiting goes idle without a fault when its report is answered, or when
\* there is nothing to report.
NothingToReport(r) ==
    \/ PricedDays(frames[r]) = {}
    \/ /\ pc[r] = "checking" \/ (pc[r] = "snapshot" /\ "postgres" \notin slots)
       /\ ~("gateway" \in slots /\ BarDate(frames[r]) = today)

LEMMA ReturnsInTwoWays ==
    ASSUME IInv, [Next]_vars, NEW r \in Runner, Returns(r)
    PROVE  pc[r] = "answer" \/ NothingToReport(r)
<1> USE DEF IInv
<1>1. pc[r] \in Awaiting /\ pc'[r] = "idle" /\ faults' = faults /\ pc'[r] # pc[r]
  BY DEF Returns, Awaiting
<1>2. ~Fault
  BY <1>1 DEF Fault, TypeOK
<1>3. ~(UNCHANGED vars \/ Midnight \/ HolidayPoll \/ Restart)
  BY <1>1 DEF vars, local, Midnight, HolidayPoll, Restart, StartFaults, TypeOK
<1>4. /\ ~\E s \in Held, d \in Day : Publish(s, d)
      /\ ~\E d \in Day : Revise(d)
      /\ ~\E c \in wire : DeliverLate(c)
      /\ ~\E key \in {"features", "prices"} : BacktestLoad(key)
  BY <1>1 DEF Publish, Revise, DeliverLate, BacktestLoad, local
<1>5. ASSUME NEW q \in Runner PROVE ~SkipHoliday(q) /\ ~Start(q)
  BY <1>1 DEF SkipHoliday, Start, local, TypeOK
<1>6. ASSUME NEW q \in Runner PROVE ~FetchHeld(q) /\ ~FetchUniverse(q)
  BY <1>1 DEF FetchHeld, FetchUniverse, Fetch, TypeOK
<1>7. ASSUME NEW q \in Runner
      PROVE  ~BeginPrices(q) /\ ~EndPrices(q) /\ ~BuildFeatures(q) /\ ~StoreFeatures(q)
  <2>1. ~BeginPrices(q) /\ ~EndPrices(q) /\ ~BuildFeatures(q)
    BY <1>1 DEF BeginPrices, EndPrices, BuildFeatures, TypeOK
  <2>2. ASSUME StoreFeatures(q) PROVE FALSE
    <3>1. pc[q] = "storing" /\ pc'[r] # pc[r]
      BY <1>1, <2>2 DEF StoreFeatures
    <3>2. q = r
      BY <1>1, <2>2 DEF StoreFeatures, Complete, Ends, TypeOK
    <3> QED BY <1>1, <3>1, <3>2 DEF Awaiting
  <2> QED BY <2>1, <2>2
<1>8. ASSUME NEW q \in Runner PROVE ~WriteEquity(q) /\ ~PostReport(q)
  BY <1>1 DEF WriteEquity, PostReport, TypeOK
<1>9. ASSUME NEW q \in Runner
      PROVE  /\ ~BuildRaises(q) /\ ~SaveRaises(q) /\ ~CutOff(q)
             /\ ~PostFails(q) /\ ~AnswerLost(q) /\ ~PostRefused(q)
  BY <1>2 DEF BuildRaises, SaveRaises, CutOff, PostFails, AnswerLost, PostRefused
<1>10. PICK q \in Runner : SnapshotAnswered(q) \/ CheckBarDate(q) \/ PostAnswered(q)
  BY <1>3, <1>4, <1>5, <1>6, <1>7, <1>8, <1>9 DEF Next
<1>11. q = r
  BY <1>1, <1>10 DEF SnapshotAnswered, CheckBarDate, PostAnswered, ReportOrEnd, Complete, Ends, TypeOK
<1>12. ASSUME ReportOrEnd(r) PROVE ~("gateway" \in slots /\ BarDate(frames[r]) = today)
  BY <1>1, <1>12 DEF ReportOrEnd, TypeOK
<1>13. CASE SnapshotAnswered(r)
  <2>1. pc[r] = "snapshot"
    BY <1>13 DEF SnapshotAnswered
  <2>2. CASE PricedDays(frames[r]) # {} /\ "postgres" \in slots
    BY <1>1, <1>13, <2>2 DEF SnapshotAnswered, TypeOK
  <2>3. CASE PricedDays(frames[r]) # {} /\ "postgres" \notin slots
    BY <1>12, <1>13, <2>1, <2>3 DEF SnapshotAnswered, NothingToReport
  <2> QED BY <2>2, <2>3 DEF NothingToReport
<1>14. CASE CheckBarDate(r)
  BY <1>12, <1>14 DEF CheckBarDate, NothingToReport
<1>15. CASE PostAnswered(r)
  BY <1>15 DEF PostAnswered
<1> QED BY <1>10, <1>11, <1>13, <1>14, <1>15

\* on_refresh_complete (hooks.py): a run that returns without a failed write has left, in
\* each database it is connected to, a row for every day it could value the book on, and
\* a report for today if it is one.
THEOREM CompletedRunReportedHolds == Spec => CompletedRunReported
<1> DEFINE Done(r) == Returns(r) /\ ~failed[r] =>
                        \A d \in Day :
                            (\A s \in Held : frames[r][s][d] > 0) =>
                                /\ "postgres" \in slots => equity[d] # NoRow
                                /\ "gateway" \in slots /\ d = today => gateway[d] # NoReport
<1>1. ASSUME IInv, [Next]_vars, NEW r \in Runner, Returns(r), ~failed[r], NEW d \in Day,
             \A s \in Held : frames[r][s][d] > 0
      PROVE  /\ "postgres" \in slots => equity[d] # NoRow
             /\ "gateway" \in slots /\ d = today => gateway[d] # NoReport
  <2> USE DEF IInv
  <2> DEFINE panel == frames[r]
             last == BarDate(panel)
  <2>1. d \in PricedDays(panel)
    BY <1>1 DEF PricedDays, DailyBars
  <2>2. \/ /\ pc[r] = "checking" \/ (pc[r] = "snapshot" /\ "postgres" \notin slots)
           /\ ~("gateway" \in slots /\ last = today)
        \/ pc[r] = "answer"
    BY <1>1, <2>1, ReturnsInTwoWays DEF NothingToReport
  <2>3. last \in Day /\ last \in PricedDays(panel) /\ d <= last
    BY <2>1, BarDateIsLast
  <2>4. panel \in Bars
    BY <1>1 DEF TypeOK
  <2>5. last <= today
    <3> HIDE DEF panel, last
    <3>1. PICK s \in Held : TRUE
      BY DailyRefreshAssumption DEF DailyRefreshAssumption
    <3>2. panel[s][last] > 0
      BY <2>3, <2>4, PricedRow
    <3>3. panel[s][last] <= bars[s][last] /\ panel[s][last] \in Nat /\ bars[s][last] \in Nat
      BY <1>1, <2>3, PricesAreNumbers DEF Served, panel
    <3> QED BY <1>1, <2>3, <3>2, <3>3 DEF Served
  <2>6. ASSUME "postgres" \in slots PROVE equity[d] # NoRow
    BY <1>1, <2>1, <2>2, <2>6 DEF Reported
  <2>7. ASSUME "gateway" \in slots, d = today PROVE gateway[d] # NoReport
    <3>1. d = last
      <4> HIDE DEF last
      <4>1. last \in Int /\ d \in Int
        BY <2>3 DEF Day
      <4> QED BY <2>3, <2>5, <2>7, <4>1
    <3>2. pc[r] = "answer"
      BY <2>2, <2>7, <3>1
    <3> QED BY <1>1, <3>1, <3>2 DEF Reported
  <2> QED BY <2>6, <2>7
<1>2. IInv /\ [Next]_vars => [\A r \in Runner : Done(r)]_vars
  <2> SUFFICES ASSUME IInv, [Next]_vars, NEW r \in Runner PROVE Done(r)
    OBVIOUS
  <2> QED BY <1>1
<1> QED BY <1>2, Inductive, PTL DEF Spec, CompletedRunReported

\* Rows are written by the two writes of the hook, by copies of the second that come late,
\* and by nothing else.
LEMMA RowsAreWrittenByTheHook ==
    ASSUME [Next]_vars
    PROVE  /\ equity' = equity \/ \E r \in Runner : WriteEquity(r)
           /\ \/ gateway' = gateway
              \/ \E r \in Runner : PostReport(r)
              \/ \E c \in wire : DeliverLate(c)
<1>1. CASE UNCHANGED vars \/ Midnight \/ HolidayPoll \/ Restart
           \/ (\E s \in Held, d \in Day : Publish(s, d))
           \/ (\E d \in Day : Revise(d))
           \/ (\E key \in {"features", "prices"} : BacktestLoad(key))
  BY <1>1 DEF vars, rows, Midnight, HolidayPoll, Restart, Publish, Revise, BacktestLoad
<1>2. ASSUME NEW r \in Runner,
             \/ SkipHoliday(r) \/ Start(r) \/ FetchHeld(r) \/ FetchUniverse(r)
             \/ BeginPrices(r) \/ EndPrices(r) \/ BuildFeatures(r) \/ BuildRaises(r)
             \/ SaveRaises(r) \/ StoreFeatures(r)
      PROVE  equity' = equity /\ gateway' = gateway
  BY <1>2 DEF rows, SkipHoliday, Start, FetchHeld, FetchUniverse, BeginPrices, EndPrices,
     BuildFeatures, BuildRaises, SaveRaises, StoreFeatures
<1>3. ASSUME NEW r \in Runner,
             \/ SnapshotAnswered(r) \/ CheckBarDate(r) \/ PostFails(r) \/ AnswerLost(r)
             \/ PostRefused(r) \/ PostAnswered(r) \/ CutOff(r)
      PROVE  equity' = equity /\ gateway' = gateway
  BY <1>3 DEF rows, SnapshotAnswered, CheckBarDate, PostFails, AnswerLost, PostRefused,
     PostAnswered, CutOff
<1>4. ASSUME NEW r \in Runner, WriteEquity(r) PROVE gateway' = gateway
  BY <1>4 DEF WriteEquity
<1>5. ASSUME NEW r \in Runner, PostReport(r) PROVE equity' = equity
  BY <1>5 DEF PostReport
<1>6. ASSUME NEW c \in wire, DeliverLate(c) PROVE equity' = equity
  BY <1>6 DEF DeliverLate
<1> QED BY <1>1, <1>2, <1>3, <1>4, <1>5, <1>6 DEF Next

\* A row that goes back is written by a run that another write raced, by one that fetched
\* nothing, or by a POST given up that arrives behind another report: runs one after the
\* other, retries included, move the rows forward only.
THEOREM OnlyOverlapRegressesHolds == Spec => OnlyOverlapRegresses
<1> DEFINE Excused(d) ==
        /\ Regresses(equity[d], equity'[d]) =>
            \E r \in Runner : pc[r] = "equity" /\ (raced[r] \/ got[r] = {})
        /\ Regresses(gateway[d].row, gateway'[d].row) =>
            \/ \E r \in Runner : pc[r] = "gateway" /\ (raced[r] \/ got[r] = {})
            \/ \E c \in wire : c.stale /\ DeliverLate(c)
<1>1. ASSUME IInv, [Next]_vars, NEW d \in Day, Regresses(equity[d], equity'[d])
      PROVE  \E r \in Runner : pc[r] = "equity" /\ (raced[r] \/ got[r] = {})
  <2> USE DEF IInv
  <2>1. PICK s \in Held : equity[d][s] > equity'[d][s]
    BY <1>1 DEF Regresses
  <2>2. equity[d][s] \in Nat
    BY <1>1, PricesAreNumbers
  <2>3. equity' # equity
    BY <2>1, <2>2
  <2>4. PICK r \in Runner : WriteEquity(r)
    BY <1>1, <2>3, RowsAreWrittenByTheHook
  <2>5. pc[r] = "equity" /\ frames[r] \in Bars
    BY <1>1, <2>4 DEF WriteEquity, TypeOK
  <2>6. equity'[d] = equity[d] \/ (d \in PricedDays(frames[r]) /\ equity'[d] = DailyBars(frames[r], d))
    BY <2>3, <2>4 DEF WriteEquity
  <2>7. d \in PricedDays(frames[r]) /\ equity'[d] = DailyBars(frames[r], d)
    BY <2>1, <2>2, <2>6
  <2>8. equity'[d][s] = frames[r][s][d] /\ frames[r][s][d] > 0
    BY <2>5, <2>7, PricedRow
  <2>9. frames[r][s][d] \in Nat
    BY <1>1, PricesAreNumbers
  <2>10. ~(equity[d][s] <= frames[r][s][d])
    BY <2>1, <2>2, <2>8, <2>9
  <2>11. raced[r] \/ got[r] = {}
    BY <1>1, <2>8, <2>10 DEF NoOlder
  <2> QED BY <2>5, <2>11
<1>2. ASSUME IInv, [Next]_vars, NEW d \in Day, Regresses(gateway[d].row, gateway'[d].row)
      PROVE  \/ \E r \in Runner : pc[r] = "gateway" /\ (raced[r] \/ got[r] = {})
             \/ \E c \in wire : c.stale /\ DeliverLate(c)
  <2> USE DEF IInv
  <2>1. PICK s \in Held : gateway[d].row[s] > gateway'[d].row[s]
    BY <1>2 DEF Regresses
  <2>2. gateway[d].row[s] \in Nat
    BY <1>2, PricesAreNumbers
  <2>3. gateway'[d] # gateway[d]
    BY <2>1, <2>2
  <2>4. (\E r \in Runner : PostReport(r)) \/ (\E c \in wire : DeliverLate(c))
    BY <1>2, <2>3, RowsAreWrittenByTheHook
  <2>5. ASSUME NEW r \in Runner, PostReport(r)
        PROVE  pc[r] = "gateway" /\ (raced[r] \/ got[r] = {})
    <3>1. pc[r] = "gateway" /\ PricedDays(frames[r]) # {}
      BY <1>2, <2>5 DEF PostReport, Valued
    <3> DEFINE last == BarDate(frames[r])
               report == ReportOf(frames[r])
    <3>2. /\ last \in Day /\ AsOf(frames[r]) = last
          /\ \A t \in Held : /\ report.row[t] = frames[r][t][last]
                             /\ report.row[t] \in Nat /\ report.row[t] > 0
      BY <1>2, <3>1, ReportIsOfBarDate
    <3> HIDE DEF report, last
    <3>3. gateway' = [gateway EXCEPT ![last] = report]
      BY <2>5, <3>2 DEF PostReport, report
    <3>4. d = last /\ gateway'[d] = report
      BY <1>2, <2>3, <3>2, <3>3 DEF TypeOK
    <3>5. ~(gateway[d].row[s] <= frames[r][s][d]) /\ frames[r][s][d] > 0
      BY <2>1, <2>2, <3>2, <3>4
    <3>6. raced[r] \/ got[r] = {}
      BY <1>2, <3>5 DEF NoOlder
    <3> QED BY <3>1, <3>6
  <2>6. ASSUME NEW c \in wire, DeliverLate(c)
        PROVE  c.stale
    <3>1. c.day \in Day /\ gateway' = [gateway EXCEPT ![c.day] = c.report]
      BY <1>2, <2>6 DEF DeliverLate, TypeOK, Copy
    <3>2. d = c.day /\ gateway'[d] = c.report
      BY <1>2, <2>3, <3>1 DEF TypeOK
    <3>3. c.report.row[s] \in Nat
      <4>1. c.report \in Report
        BY <1>2 DEF TypeOK, Copy
      <4>2. c.report.row \in Row
        BY <4>1 DEF Report
      <4> QED BY <4>2 DEF Row
    <3>4. Kept(c)
      BY <1>2 DEF LateCopies
    <3> QED BY <2>1, <2>2, <3>2, <3>3, <3>4 DEF Kept
  <2> QED BY <2>4, <2>5, <2>6
<1>3. IInv /\ [Next]_vars => [\A d \in Day : Excused(d)]_vars
  <2> SUFFICES ASSUME IInv, [Next]_vars, NEW d \in Day PROVE Excused(d)
    OBVIOUS
  <2> QED BY <1>1, <1>2
<1> QED BY <1>3, Inductive, PTL DEF Spec, OnlyOverlapRegresses

=============================================================================
