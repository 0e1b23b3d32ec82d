-------------------------- MODULE LogisticsReports --------------------------
(***************************************************************************)
(* The fixed reports the assistant can ask for (local-ai/tools/period.     *)
(* util.ts, local-ai/tools/logistics-tools.service.ts): which tools it is  *)
(* given, which days a period stands for, which rows a report selects, and *)
(* how the debts of clients are put together from two queries.             *)
(*                                                                         *)
(* A date is <<year, month, day>>; a row of a table has a date and says    *)
(* whether it has a time of day as well.  Names, sums and texts are left   *)
(* out, and so are the other columns of the reports.                       *)
(***************************************************************************)
EXTENDS Integers, Sequences, FiniteSets, FiniteSetsExt

CONSTANTS
  Years,     \* bound: the years the calendar knows, with the one before any question
  Todays,    \* the dates a question is asked at
  Asked,     \* the arguments of a report: a keyword, dates, or both
  Firms,     \* clients whose names match a question
  MaxDocs,   \* bound: acts and payments of a firm
  MaxRows,   \* rows a query returns at most
  Latest,    \* rows of a report about the last trips (FETCH FIRST)
  None       \* no date, no answer

Keywords == {"today", "yesterday", "last_7_days", "last_30_days", "this_month", "last_month",
             "this_year"}
ByPeriod == {"getOrders", "tenders_by_department", "carrier_activity", "getTripsReport", "profit"}
InOracle == {"getTripsReport", "profit", "getTruckLocation", "getDriverStatus", "getClientDebt"}
Tools    == ByPeriod \cup InOracle

Months == 1..12
Leap(y) == y % 4 = 0 /\ (y % 100 # 0 \/ y % 400 = 0)
Length(y, m) == CASE m = 2 -> IF Leap(y) THEN 29 ELSE 28
                  [] m \in {4, 6, 9, 11} -> 30
                  [] OTHER -> 31
Dates == {d \in Years \X Months \X (1..31) : d[3] <= Length(d[1], d[2])}

LogisticsReportsAssumption ==
  /\ Years \subseteq Nat \ {0} /\ Todays \subseteq Dates /\ IsFiniteSet(Firms)
  /\ \A t \in Todays : t[1] - 1 \in Years
  /\ None \notin Dates
  /\ Asked \subseteq [period : Keywords \cup {"unknown"}, from : Dates \cup {None},
                     to : Dates \cup {None}]
  /\ MaxDocs \in Nat /\ MaxRows \in Nat \ {0}
  /\ Latest \in [{"getTruckLocation", "getDriverStatus"} -> Nat]

VARIABLES
  oracle,    \* LOCAL_AI_ORACLE_ENABLED
  today,     \* the date of the server
  call,      \* the tool, its arguments, the step, and the period it stands for
  acts,      \* acts made out to a firm, and
  payments,  \* payments it made, in Oracle
  read,      \* what the two queries of a debt have read, None before they end
  answer     \* the rows of the answer about debts, or the number of trips told

vars == <<oracle, today, call, acts, payments, read, answer>>

NoCall == [tool |-> "none", args |-> None, step |-> "idle", from |-> None, to |-> None]

Init ==
  /\ oracle \in BOOLEAN /\ today \in Todays
  /\ call = NoCall
  /\ acts = [f \in Firms |-> 0] /\ payments = [f \in Firms |-> 0]
  /\ read = [billed |-> None, paid |-> None] /\ answer = None

-----------------------------------------------------------------------------
(* The dates of JavaScript: months are counted from the year's first, days *)
(* from the month's first, and both may lie outside.                       *)

\* Days before the first of a month.
MonthDays(y, m) == MapThenSumSet(LAMBDA k : Length(y, k), 1..(m - 1))

\* The number of the day of new Date(y, m - 1, d).
DayNumber(y, m, d) ==
  LET year == y + ((m - 1) \div 12) IN
  365 * year + ((year - 1) \div 4) - ((year - 1) \div 100) + ((year - 1) \div 400)
    + MonthDays(year, ((m - 1) % 12) + 1) + d

\* toIso: the date a day falls on.
ToIso(n) ==
  LET y == CHOOSE year \in Years : DayNumber(year, 1, 1) <= n /\ n < DayNumber(year + 1, 1, 1)
      m == CHOOSE month \in Months : DayNumber(y, month, 1) <= n /\ n < DayNumber(y, month + 1, 1)
  IN <<y, m, n - DayNumber(y, m, 1) + 1>>

\* resolvePeriod: explicit dates before the keyword, one of them stands for both, and
\* no keyword or an unknown one means today.
ResolvePeriod(args) ==
  LET now      == DayNumber(today[1], today[2], today[3])
      To(n, k) == [from |-> ToIso(n), to |-> ToIso(k)]
  IN IF args.from # None \/ args.to # None
     THEN [from |-> IF args.from # None THEN args.from ELSE args.to,
           to   |-> IF args.to # None THEN args.to ELSE args.from]
     ELSE CASE args.period = "yesterday"    -> To(now - 1, now - 1)
            [] args.period = "last_7_days"  -> To(now - 6, now)
            [] args.period = "last_30_days" -> To(now - 29, now)
            [] args.period = "this_month"   -> To(DayNumber(today[1], today[2], 1), now)
            [] args.period = "last_month"   -> To(DayNumber(today[1], today[2] - 1, 1),
                                                  DayNumber(today[1], today[2], 0))
            [] args.period = "this_year"    -> To(DayNumber(today[1], 1, 1), now)
            [] OTHER                        -> To(now, now)

-----------------------------------------------------------------------------
\* The tools the assistant is given: those on Oracle only when it is enabled.
\* `profit` is a kind of generateReport, which is always there.
GetTools == IF oracle THEN Tools ELSE Tools \ (InOracle \ {"profit"})

\* The model names a tool and its arguments; one that is not registered is refused.
Call(tool) ==
  /\ call.step = "idle"
  /\ \E args \in IF tool \in ByPeriod THEN Asked ELSE {None} :
       call' = [call EXCEPT !.tool = tool, !.args = args,
                            !.step = IF tool \in GetTools THEN "called" ELSE "refused"]
  /\ UNCHANGED <<oracle, today, acts, payments, read, answer>>

\* The period is resolved and the query runs; profits are refused without Oracle.
Select ==
  /\ call.step = "called" /\ call.tool \in ByPeriod
  /\ LET p == ResolvePeriod(call.args)
     IN call' = IF call.tool = "profit" /\ ~oracle
                THEN [call EXCEPT !.step = "refused"]
                ELSE [call EXCEPT !.step = "answered", !.from = p.from, !.to = p.to]
  /\ UNCHANGED <<oracle, today, acts, payments, read, answer>>

\* getTruckLocation, getDriverStatus: of the trips of a truck or a driver the newest.
TellLatest ==
  /\ call.step = "called" /\ call.tool \in DOMAIN Latest
  /\ \E trips \in 0..(Latest[call.tool] + 1) :
       answer' = [trips |-> IF trips > Latest[call.tool] THEN Latest[call.tool] ELSE trips]
  /\ call' = [call EXCEPT !.step = "answered"]
  /\ UNCHANGED <<oracle, today, acts, payments, read>>

EarlierOrSame(p, q) ==
  \/ p[1] < q[1]
  \/ p[1] = q[1] /\ p[2] < q[2]
  \/ p[1] = q[1] /\ p[2] = q[2] /\ p[3] <= q[3]

\* The WHERE of the reports: getOrders compares with the last date itself, the others
\* with the day after it.
Where(row) ==
  /\ EarlierOrSame(call.from, row.date)
  /\ EarlierOrSame(row.date, call.to)
  /\ call.tool = "getOrders" /\ row.time => row.date # call.to

-----------------------------------------------------------------------------
\* A list of sums by firm as a query returns it: the largest first, cut at MaxRows.
Lists(sum) ==
  LET firms == {f \in Firms : sum[f] > 0}
  IN {[f \in s |-> sum[f]] : s \in {s \in SUBSET firms :
        /\ \/ s = firms /\ Cardinality(s) <= MaxRows
           \/ Cardinality(s) = MaxRows
        /\ \A f \in s, g \in firms \ s : sum[f] >= sum[g]}}

Debts == call.step = "called" /\ call.tool = "getClientDebt"

\* getClientDebt: the sums of the acts and of the payments are queried side by side.
ReadBilled ==
  /\ Debts /\ read.billed = None
  /\ \E list \in Lists(acts) : read' = [read EXCEPT !.billed = list]
  /\ UNCHANGED <<oracle, today, call, acts, payments, answer>>

ReadPaid ==
  /\ Debts /\ read.paid = None
  /\ \E list \in Lists(payments) : read' = [read EXCEPT !.paid = list]
  /\ UNCHANGED <<oracle, today, call, acts, payments, answer>>

Of(list, f) == IF f \in DOMAIN list THEN list[f] ELSE 0

\* Both lists have come: every firm of either, with what it was billed less what it paid.
Merge ==
  /\ Debts /\ read.billed # None /\ read.paid # None
  /\ answer' = [f \in DOMAIN read.billed \cup DOMAIN read.paid |->
                  Of(read.billed, f) - Of(read.paid, f)]
  /\ call' = [call EXCEPT !.step = "answered"]
  /\ UNCHANGED <<oracle, today, acts, payments, read>>

\* The bookkeepers enter an act or a payment meanwhile.
Enter ==
  /\ Debts
  /\ \E f \in Firms :
       \/ acts[f] < MaxDocs /\ acts' = [acts EXCEPT ![f] = @ + 1] /\ UNCHANGED payments
       \/ payments[f] < MaxDocs /\ payments' = [payments EXCEPT ![f] = @ + 1] /\ UNCHANGED acts
  /\ UNCHANGED <<oracle, today, call, read, answer>>

\* Oracle or Postgres fails or the time runs out: the tool throws.
Fails ==
  /\ call.step = "called"
  /\ call' = [call EXCEPT !.step = "failed"]
  /\ UNCHANGED <<oracle, today, acts, payments, read, answer>>

Next ==
  \/ \E tool \in Tools : Call(tool)
  \/ Select \/ TellLatest \/ ReadBilled \/ ReadPaid \/ Merge \/ Enter \/ Fails

Spec == Init /\ [][Next]_vars

TypeOK ==
  /\ oracle \in BOOLEAN /\ today \in Todays
  /\ call.tool \in Tools \cup {"none"} /\ call.args \in Asked \cup {None}
  /\ call.step \in {"idle", "called", "answered", "refused", "failed"}
  /\ {call.from, call.to} \subseteq Dates \cup {None}
  /\ acts \in [Firms -> 0..MaxDocs] /\ payments \in [Firms -> 0..MaxDocs]
  /\ DOMAIN read = {"billed", "paid"}

-----------------------------------------------------------------------------
(* The days a period means, by the calendar and not by counting.           *)

DayBefore(day) ==
  LET y == day[1]  m == day[2]  d == day[3] IN
  CASE d > 1 -> <<y, m, d - 1>>
    [] d = 1 /\ m > 1 -> <<y, m - 1, Length(y, m - 1)>>
    [] OTHER -> <<y - 1, 12, 31>>

LastDays(k) ==
  LET back[i \in 0..k] == IF i = 0 THEN today ELSE DayBefore(back[i - 1])
  IN {back[i] : i \in 0..(k - 1)}

Meant(args) ==
  LET y == today[1]  m == today[2]
      UpTo(s) == {day \in s : EarlierOrSame(day, today)}
  IN CASE args.from # None /\ args.to # None ->
            {day \in Dates : EarlierOrSame(args.from, day) /\ EarlierOrSame(day, args.to)}
       [] args.from # None /\ args.to = None -> {args.from}
       [] args.from = None /\ args.to # None -> {args.to}
       [] OTHER ->
            CASE args.period = "yesterday"    -> {DayBefore(today)}
              [] args.period = "last_7_days"  -> LastDays(7)
              [] args.period = "last_30_days" -> LastDays(30)
              [] args.period = "this_month"   -> UpTo({<<y, m, d>> : d \in 1..Length(y, m)})
              [] args.period = "last_month"   ->
                   LET last == DayBefore(<<y, m, 1>>)
                   IN {<<last[1], last[2], d>> : d \in 1..last[3]}
              [] args.period = "this_year"    -> UpTo({day \in Dates : day[1] = y})
              [] OTHER -> {today}

Selected(time) == {day \in Dates : Where([date |-> day, time |-> time])}

\* A report selects the rows of exactly the days its period means, both ends included
\* (period.util.ts, ResolvedPeriod), across the ends of months, leap years and years,
\* whatever time of day the rows have; getOrders, which compares with the last date
\* itself, needs a column of dates for that.
PeriodsTrue ==
  call.step = "answered" /\ call.tool \in ByPeriod =>
    /\ Selected(FALSE) = Meant(call.args)
    /\ call.tool # "getOrders" => Selected(TRUE) = Meant(call.args)

\* The debts told are those of every firm with an act or a payment, each what the books
\* said when they were read, unless a list was cut: then a firm of the answer may be
\* missing from the other list and look as if it had paid nothing (getClientDebt).
DebtsTrue ==
  call.step = "answered" /\ call.tool = "getClientDebt" =>
    LET whole(list) == Cardinality(DOMAIN list) < MaxRows IN
    whole(read.billed) /\ whole(read.paid) =>
      \A f \in Firms :
        /\ Of(answer, f) <= acts[f] /\ -Of(answer, f) <= payments[f]
        /\ f \notin DOMAIN answer => ~\E list \in {read.billed, read.paid} : f \in DOMAIN list
        /\ Of(read.billed, f) = acts[f] /\ Of(read.paid, f) = payments[f] =>
             Of(answer, f) = acts[f] - payments[f]
=============================================================================
