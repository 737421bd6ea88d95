-------------------------------- MODULE Scope --------------------------------
(***************************************************************************)
(* Whose money, and when: the selection in the bar at the top of every     *)
(* screen and the reads that honour it, over the rows of PeelDelete.       *)
(*                                                                         *)
(* A read is synchronous to the last row, so no transaction is open when   *)
(* it runs.  The selection is state of one tab that nothing but its own    *)
(* selects write and that no write waits for: the properties range over    *)
(* every selection instead of carrying one, and EveryClickLeavesAPeriod    *)
(* says that clicks lead to no other.  What the reports add up is Books';  *)
(* here a report is the payouts and legs that it adds up.                  *)
(***************************************************************************)
EXTENDS PeelDelete, FiniteSets, FiniteSetsExt

CONSTANTS
  Traders, Companies,
  Drafts,          \* what a payout may be recorded as: [trader, company, date]
  Years, Months,   \* the points of a period explored
  ThisYear,        \* the year the browser's clock says
  Todays,          \* the days on which the year report is opened
  Everybody        \* no trader, no company, no point: everything

VARIABLE about  \* payouts: id -> trader_id, company_id, payout_date

scopeVars == <<vars, about>>

-----------------------------------------------------------------------------
(* Days, months and years *)

(* ISO dates of four-digit years compare as text the way they follow.       *)
Day(year, month, day) == (year * 100 + month) * 100 + day
DayOf(date) == Day(date.year, date.month, date.day)

(* The Gregorian calendar, as Date keeps it. *)
DaysIn(year, month) ==
  CASE month = 2 -> IF year % 4 = 0 /\ (year % 100 # 0 \/ year % 400 = 0)
                    THEN 29 ELSE 28
    [] month \in {4, 6, 9, 11} -> 30
    [] OTHER -> 31

(* Faulty: February has a day less than it may have. *)
TabledLastDay(year, month) == IF month = 2 THEN 28 ELSE DaysIn(year, month)

(* Date.UTC(year, month, 0): day 0 of the month after it. *)
LastDay(year, month) == DaysIn(year, month)

(* isoDate refuses a day that is not in the calendar, and years before 100, *)
(* which Date.UTC takes for years of the last century.                      *)
Date == {d \in [year : Nat, month : 1..12, day : 1..31] :
           /\ 100 <= d.year /\ d.year <= 9999
           /\ d.day <= DaysIn(d.year, d.month)}

Point == [year : Years, month : Months]

(* The years around which anything is recorded or asked. *)
YearsInUse ==
  {ThisYear} \cup {draft.date.year : draft \in Drafts} \cup {today.year : today \in Todays}

ASSUME ScopeConstants ==
  /\ Drafts \subseteq [trader : Traders, company : Companies, date : Date]
  /\ Drafts # {}
  /\ Todays \subseteq Date
  /\ Months \subseteq 1..12 /\ {1, 3, 4, 12} \subseteq Months
  /\ Years \subseteq Nat \ {0}
  /\ \A y, z \in Years : y..z \subseteq Years
  /\ \A y \in YearsInUse : {y - 1, y} \subseteq Years

(* What is left out is no choice. *)
ASSUME EverybodyIsNoChoice ==
  Everybody \notin Traders \cup Companies \cup Point \cup Int \cup [from : Int, to : Int]

IsBefore(one, other) == one.year * 12 + one.month < other.year * 12 + other.month

-----------------------------------------------------------------------------
(* The selection *)

Everything == [trader |-> Everybody, from |-> Everybody, to |-> Everybody]

Selections ==
  {[trader |-> t, from |-> from, to |-> to] :
     t \in Traders \cup {Everybody}, from, to \in Point}

IsPeriod(s) ==
  \/ s.from = Everybody /\ s.to = Everybody
  \/ s.from \in Point /\ s.to \in Point /\ ~IsBefore(s.to, s.from)

Periods ==
  {s \in Selections : IsPeriod(s)}
    \cup {[Everything EXCEPT !.trader = t] : t \in Traders \cup {Everybody}}

SetTraderId(s, t) == [s EXCEPT !.trader = t]

SetFrom(s, point) ==
  [s EXCEPT !.from = point,
            !.to = IF point = Everybody THEN Everybody
                   ELSE IF @ = Everybody \/ IsBefore(@, point) THEN point ELSE @]

SetTo(s, point) ==
  [s EXCEPT !.to = point,
            !.from = IF point = Everybody THEN Everybody
                     ELSE IF @ = Everybody \/ IsBefore(point, @) THEN point ELSE @]

ShowEverything(s) == SetFrom(SetTraderId(s, Everybody), Everybody)

(* usePayoutYears reads the list unscoped. *)
PayoutYears == {about[p].date.year : p \in payouts}

(* Faulty: the years there are payouts in, and this one. *)
YearsWithPayouts == Min(PayoutYears \cup {ThisYear})..Max(PayoutYears \cup {ThisYear})

YearsToOffer ==
  LET known == IF PayoutYears = {} THEN {ThisYear} ELSE PayoutYears
  IN (Min(known) - 1)..Max(known \cup {ThisYear})

FallbackYear == Max(YearsToOffer)

(* Half a choice is completed from the end as it stands, or from a default. *)
Completed(point, half, month) ==
  [year |-> IF "year" \in DOMAIN half THEN half.year
            ELSE IF point = Everybody THEN FallbackYear ELSE point.year,
   month |-> IF "month" \in DOMAIN half THEN half.month
             ELSE IF point = Everybody THEN month ELSE point.month]

StartFrom(s, half) == SetFrom(s, Completed(s.from, half, 1))
EndAt(s, half) == SetTo(s, Completed(s.to, half, 12))

Halves == {[year |-> y] : y \in YearsToOffer} \cup {[month |-> m] : m \in Months}

(* What one click in the bar may turn a selection into. *)
Clicked(s) ==
  {SetTraderId(s, t) : t \in Traders \cup {Everybody}}
    \cup {StartFrom(s, half) : half \in Halves}
    \cup {EndAt(s, half) : half \in Halves}
    \cup {SetFrom(s, Everybody), SetTo(s, Everybody), ShowEverything(s)}

PeriodRange(from, to) ==
  IF from = Everybody \/ to = Everybody THEN [from |-> Everybody, to |-> Everybody]
  ELSE LET first == IF IsBefore(to, from) THEN to ELSE from
           last == IF IsBefore(to, from) THEN from ELSE to
       IN [from |-> Day(first.year, first.month, 1),
           to |-> Day(last.year, last.month, LastDay(last.year, last.month))]

(* What usePayouts, useAccountBalances and useDataQuality ask for; what     *)
(* means everything is left out.                                            *)
Filter(s) ==
  LET range == PeriodRange(s.from, s.to)
  IN [trader |-> s.trader, from |-> range.from, to |-> range.to]

(* Two halves of one field: the schema refuses one without the other.       *)
BothOrNeither(query) == query.from = Everybody <=> query.to = Everybody

ScopeOf(query) ==
  [trader |-> query.trader,
   range |-> IF query.from = Everybody \/ query.to = Everybody THEN Everybody
             ELSE [from |-> query.from, to |-> query.to]]

Asked(s) == ScopeOf(Filter(s))

-----------------------------------------------------------------------------
(* The reads *)

ListByTrader(t) == {p \in payouts : about[p].trader = t}
ListByCompany(c) == {p \in payouts : about[p].company = c}
ListByDateRange(range) ==
  {p \in payouts : range.from <= DayOf(about[p].date) /\ DayOf(about[p].date) <= range.to}

PayoutsInScope(scope) ==
  CASE scope.trader # Everybody /\ scope.range # Everybody ->
         {p \in ListByDateRange(scope.range) : about[p].trader = scope.trader}
    [] scope.trader # Everybody /\ scope.range = Everybody -> ListByTrader(scope.trader)
    [] scope.trader = Everybody /\ scope.range # Everybody -> ListByDateRange(scope.range)
    [] OTHER -> payouts

IsNarrowed(scope) == scope.trader # Everybody \/ scope.range # Everybody

ListPayouts(scope, company) ==
  IF company = Everybody THEN PayoutsInScope(scope)
  ELSE IF ~IsNarrowed(scope) THEN ListByCompany(company)
  ELSE {p \in PayoutsInScope(scope) : about[p].company = company}

(* The legs GetAccountBalances adds up: unnarrowed, all there are.          *)
BalancedLegs(scope) ==
  IF ~IsNarrowed(scope) THEN DOMAIN tree
  ELSE {l \in DOMAIN tree : tree[l].payout \in PayoutsInScope(scope)}

(* The payouts and legs RunDataQualityChecks looks at.                      *)
SweptPayouts(scope) == PayoutsInScope(scope)
SweptLegs(scope) ==
  IF IsNarrowed(scope) THEN {l \in DOMAIN tree : tree[l].payout \in SweptPayouts(scope)}
  ELSE DOMAIN tree

(* The payouts of every company's row in the financial-year report.         *)
ByCompany(range, t) ==
  LET inScope == PayoutsInScope([trader |-> t, range |-> range])
  IN [c \in {about[p].company : p \in inScope} |->
        {p \in inScope : about[p].company = c}]

(* The six years the report offers, newest first; the first one is chosen.  *)
FinancialYears(today) ==
  LET start == IF today.month >= 4 THEN today.year ELSE today.year - 1
  IN [i \in 1..6 |-> [from |-> Day(start - i + 1, 4, 1), to |-> Day(start - i + 2, 3, 31)]]

(* A leg whose parent is not among the payout's legs is a root as well.     *)
Roots(p) ==
  LET own == LegsOfPayout(tree, p)
  IN {l \in own : tree[l].parent = NoLeg \/ tree[l].parent \notin own}

(* The nodes under one root: children are looked for among the payout's.    *)
Trail(p, root) == Subtree(Restrict(tree, LegsOfPayout(tree, p)), root)

-----------------------------------------------------------------------------
(* Trader, company and date are given when a payout is recorded and edited  *)
(* by nothing; they go with its row.                                        *)
Recorded(draft) ==
  about' = [p \in payouts' |-> IF p \in payouts THEN about[p] ELSE draft]

ScopeInit == Init /\ about = [p \in {} |-> p]
ScopeNext == Next /\ \E draft \in Drafts : Recorded(draft)

ScopeSpec == ScopeInit /\ [][ScopeNext]_scopeVars /\ Fairness
-----------------------------------------------------------------------------
(* Properties *)

(* ScopeProvider: half a range is not a period, nor is an end before its    *)
(* start.  Whatever is clicked in whatever order, the bar holds a period or *)
(* none, and never one that cannot be shown.                                *)
EveryClickLeavesAPeriod ==
  Quiet => \A s \in Periods : \A t \in Clicked(s) :
             IsPeriod(t) /\ t.trader \in Traders \cup {Everybody}

(* A payout of the month, of the trader. *)
IsChosen(s, p) ==
  /\ s.trader \in {Everybody, about[p].trader}
  /\ s.from = Everybody \/ ~(IsBefore(about[p].date, s.from) \/ IsBefore(s.to, about[p].date))

(* The list, the balances beside it and the sweep show the same payouts:    *)
(* those of the trader, from the first day of one month to the last of the  *)
(* other, leap years included.  payout-scope.ts: a balances screen that     *)
(* disagrees with the list beside it is the failure of the spreadsheet.     *)
WhatIsChosenIsShown ==
  Quiet => \A s \in Periods :
    LET chosen == {p \in payouts : IsChosen(s, p)}
        legs == {l \in DOMAIN tree : tree[l].payout \in chosen}
    IN /\ BothOrNeither(Filter(s))
       /\ ListPayouts(Asked(s), Everybody) = chosen
       /\ SweptPayouts(Asked(s)) = chosen
       /\ SweptLegs(Asked(s)) = legs
       /\ BalancedLegs(Asked(s)) = legs
       /\ \A c \in Companies :
            ListPayouts(Asked(s), c) = {p \in chosen : about[p].company = c}

(* No first of April lies between the two. *)
SameFinancialYear(one, other) ==
  \A y \in Years : DayOf(one) >= Day(y, 4, 1) <=> DayOf(other) >= Day(y, 4, 1)

(* ScopeBar: a ledger holding only March 2025 still has to be able to say   *)
(* "from April 2024".  The financial year of any payout, from its first of  *)
(* April, can be chosen from the years offered.                             *)
EveryFinancialYearCanBeChosen ==
  Quiet => \A p \in payouts :
    \E s \in Periods :
      /\ s.trader = Everybody /\ s.from # Everybody
      /\ s.from.year \in YearsToOffer /\ s.to.year \in YearsToOffer
      /\ s.from.month = 4
      /\ SameFinancialYear([year |-> s.from.year, month |-> 4, day |-> 1], about[p].date)
      /\ ListPayouts(Asked(s), Everybody)
           = {q \in payouts : SameFinancialYear(about[q].date, about[p].date)}

(* Of the years the report offers, exactly one reports a payout dated from  *)
(* the first day of them up to today, under its company and whether or not  *)
(* its trader is the one shown; and it is the year chosen on opening when   *)
(* today lies in it.                                                        *)
EveryPayoutIsReportedOnce ==
  Quiet => \A today \in Todays : \A p \in payouts :
    LET offered == FinancialYears(today)
        Reporting(t) ==
          {i \in DOMAIN offered :
             \E c \in DOMAIN ByCompany(offered[i], t) : p \in ByCompany(offered[i], t)[c]}
    IN offered[6].from <= DayOf(about[p].date) /\ DayOf(about[p].date) <= DayOf(today) =>
         /\ \A t \in {Everybody, about[p].trader} :
              \E i \in DOMAIN offered :
                /\ Reporting(t) = {i}
                /\ i = 1 <=> SameFinancialYear(about[p].date, today)
                /\ p \in ByCompany(offered[i], t)[about[p].company]
         /\ \A t \in Traders \ {about[p].trader} : Reporting(t) = {}

(* get-payout-trail.ts: the trail of a payout shows every one of its legs,  *)
(* and each once, whatever was recorded and deleted before it is read.      *)
TrailShowsEveryLeg ==
  Quiet => \A p \in payouts : \A l \in LegsOfPayout(tree, p) :
    Cardinality({r \in Roots(p) : l \in Trail(p, r)}) = 1

(* Whatever is clicked, a selection is one that can be asked about, every   *)
(* screen answers it with the same payouts and legs, and the trail of each  *)
(* of them leaves no leg out.                                               *)
ReadsAgree == EveryClickLeavesAPeriod /\ WhatIsChosenIsShown /\ TrailShowsEveryLeg

(* No payout falls between two financial years: each is in the report of    *)
(* one, and the scope bar can show that year.                               *)
YearsAreCovered == EveryFinancialYearCanBeChosen /\ EveryPayoutIsReportedOnce
=============================================================================
