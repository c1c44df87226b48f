----------------------------- MODULE Recurring -----------------------------
(***************************************************************************)
(* Fixed expenses: a template with a recurrence rule from which the daily  *)
(* job, its run at start-up and the "generate now" button create expenses  *)
(* (recurringExpensesService, recurringExpensesJob, scheduler).            *)
(*                                                                         *)
(* A run reads the template once, books one expense per due date, each in  *)
(* a transaction of its own, and at its end writes the last run and the    *)
(* next due date as absolute values computed from what it read.  Nothing   *)
(* keeps two runs, or a run and an edit, apart.                            *)
(*                                                                         *)
(* Days are numbered from 0.  The calendar is a parameter, so that short   *)
(* months, a leap year and a short week fit a small instance.  What an     *)
(* expense does to treasury and ledger is in Books.                        *)
(***************************************************************************)
EXTENDS Integers, Sequences

CONSTANTS
    Runs,           \* runs of the job that can overlap
    MonthLengths,   \* days of each month from day 0 on, as a sequence
    YearLength,     \* months in a year
    WeekLength,     \* days in a week
    Rules,          \* recurrence rules the users choose from
    Starts,         \* start dates they choose from
    Horizon,        \* bound: the last day
    MaxCatchup,     \* dates one run books at most (1000 in the code)
    MaxChanges,     \* bound: edits, pauses, deletions and period changes
    MaxMishaps      \* bound: failed statements and restarts

ASSUME RecurringAssumption ==
    /\ MonthLengths \in Seq(Nat \ {0})
    /\ YearLength \in Nat \ {0}
    /\ WeekLength \in Nat \ {0}
    /\ Rules \subseteq [frequency : {"daily", "weekly", "monthly", "yearly"},
                       on : Nat, month : Nat]
    /\ \A rule \in Rules :    \* #normalizeRule
          /\ rule.frequency = "weekly" => rule.on < WeekLength
          /\ rule.frequency \in {"monthly", "yearly"} => rule.on >= 1
          /\ rule.frequency = "yearly" => rule.month \in 1..YearLength
    /\ Starts \subseteq Nat
    /\ Horizon \in Nat
    /\ MaxCatchup \in Nat \ {0}
    /\ MaxChanges \in Nat
    /\ MaxMishaps \in Nat

VARIABLES
    template,       \* the recurring_expenses row
    live,           \* dates of its expenses rows (unique with the template)
    made,           \* how often an expense was created for a date
    today,
    accepting,      \* an expense can be booked (an open period, a cashbox)
    run,            \* what each run has read and reached
    edit,           \* what an edit in flight has read
    changes, mishaps,   \* capped by MaxChanges and MaxMishaps
    calm,           \* no run overlapped another run or an edit
    kept,           \* no run has lost its progress
    edited          \* the rule or the start was changed

tables == <<template, live, made>>
ghosts == <<calm, kept, edited>>
recurringVars == <<tables, today, accepting, run, edit, changes, mishaps, ghosts>>

Never == -1
Lesser(a, b) == IF a <= b THEN a ELSE b

-----------------------------------------------------------------------------
(* The calendar and the rule *)

Months == 1..Len(MonthLengths)

\* The days of the calendar up to the end of a month.
Until[m \in 0..Len(MonthLengths)] ==
    IF m = 0 THEN 0 ELSE Until[m - 1] + MonthLengths[m]

Days == 0..(Until[Len(MonthLengths)] - 1)
MonthOf(d) == CHOOSE m \in Months : Until[m - 1] <= d /\ d < Until[m]
YearOf(d) == (MonthOf(d) - 1) \div YearLength

\* The calendar has no last day; this one has the days that a run or an edit
\* up to the horizon can ask for.
ASSUME CalendarAssumption ==
    \A d \in Starts \union (0..(Horizon + 1)) :
        /\ d + WeekLength \in Days
        /\ (YearOf(d) + 2) * YearLength <= Len(MonthLengths)

\* monthlyOccurrence: the day of the month, or the month's last day.
MonthlyOccurrence(m, dom) == Until[m - 1] + Lesser(dom, MonthLengths[m]) - 1
YearlyOccurrence(y, rule) ==
    MonthlyOccurrence(y * YearLength + rule.month, rule.on)

\* firstDueOnOrAfter
FirstDue(base, rule) ==
    CASE rule.frequency = "daily" -> base
      [] rule.frequency = "weekly" -> base + ((rule.on - base) % WeekLength)
      [] rule.frequency = "monthly" ->
            LET m == MonthOf(base)
                candidate == MonthlyOccurrence(m, rule.on)
            IN  IF candidate < base THEN MonthlyOccurrence(m + 1, rule.on)
                ELSE candidate
      [] rule.frequency = "yearly" ->
            LET candidate == YearlyOccurrence(YearOf(base), rule)
            IN  IF candidate < base THEN YearlyOccurrence(YearOf(base) + 1, rule)
                ELSE candidate

NextAfterSameDay(due, rule) ==  \* mutant: the month's clamped day is kept
    CASE rule.frequency = "daily" -> due + 1
      [] rule.frequency = "weekly" -> due + WeekLength
      [] rule.frequency = "monthly" ->
            MonthlyOccurrence(MonthOf(due) + 1, due - Until[MonthOf(due) - 1] + 1)
      [] rule.frequency = "yearly" -> YearlyOccurrence(YearOf(due) + 1, rule)

\* nextOccurrenceAfter
NextAfter(due, rule) ==
    CASE rule.frequency = "daily" -> due + 1
      [] rule.frequency = "weekly" -> due + WeekLength
      [] rule.frequency = "monthly" -> MonthlyOccurrence(MonthOf(due) + 1, rule.on)
      [] rule.frequency = "yearly" -> YearlyOccurrence(YearOf(due) + 1, rule)

ComputeFromLast(rule, start, lastRun) ==  \* mutant: the last date is due again
    FirstDue(IF lastRun = Never THEN start ELSE lastRun, rule)

\* #computeNextDue: from the day after the last run, or from the start.
ComputeNextDue(rule, start, lastRun) ==
    FirstDue(IF lastRun = Never THEN start ELSE lastRun + 1, rule)

-----------------------------------------------------------------------------
(* The users *)

NoRule == [frequency |-> "none", on |-> 0, month |-> 0]
NoTemplate == [exists |-> FALSE, active |-> FALSE, rule |-> NoRule, start |-> 0,
               lastRun |-> Never, nextDue |-> 0]
NoRun == [step |-> "idle", rule |-> NoRule, asOf |-> 0, cursor |-> 0,
          lastRun |-> Never, count |-> 0]
NoEdit == [step |-> "idle", rule |-> NoRule, start |-> 0, lastRun |-> Never]

Running(j) == run[j].step # "idle"

\* One of the bounded changes.
Change == changes < MaxChanges /\ changes' = changes + 1

Create ==
    \E rule \in Rules, start \in Starts :
        /\ template = NoTemplate
        /\ changes = 0
        /\ Change
        /\ template' = [exists |-> TRUE, active |-> TRUE, rule |-> rule,
                        start |-> start, lastRun |-> Never,
                        nextDue |-> ComputeNextDue(rule, start, Never)]
        /\ UNCHANGED <<live, made, today, accepting, run, edit, mishaps, ghosts>>

\* update reads the template, for a new rule or a new start ...
BeginEdit ==
    \E rule \in Rules, start \in Starts :
        /\ template.exists
        /\ edit = NoEdit
        /\ (rule = template.rule) # (start = template.start)
        /\ Change
        /\ edit' = [step |-> "read", rule |-> rule, start |-> start,
                    lastRun |-> template.lastRun]
        /\ calm' = (calm /\ \A j \in Runs : ~Running(j))
        /\ UNCHANGED <<tables, today, accepting, run, mishaps, kept, edited>>

\* ... and the next due date follows from the last run that was read.  On
\* a deleted template nothing is updated, which fails later on.
CommitEdit ==
    /\ edit.step = "read"
    /\ template' =
          IF ~template.exists THEN template
          ELSE [template EXCEPT
                  !.rule = edit.rule, !.start = edit.start,
                  !.nextDue = ComputeNextDue(edit.rule, edit.start, edit.lastRun)]
    /\ edit' = NoEdit
    /\ edited' = TRUE
    /\ UNCHANGED <<live, made, today, accepting, run, changes, mishaps, calm, kept>>

SetActive ==
    /\ template.exists
    /\ Change
    /\ template' = [template EXCEPT !.active = ~template.active]
    /\ UNCHANGED <<live, made, today, accepting, run, edit, mishaps, ghosts>>

\* The expenses stay, but their reference is set to null: none is the
\* template's any more.
DeleteTemplate ==
    /\ template.exists
    /\ Change
    /\ template' = NoTemplate
    /\ live' = {}
    /\ made' = [d \in Days |-> 0]
    /\ UNCHANGED <<today, accepting, run, edit, mishaps, ghosts>>

DeleteExpense ==
    \E d \in live :
        /\ template.exists
        /\ Change
        /\ live' = live \ {d}
        /\ UNCHANGED <<template, made, today, accepting, run, edit, mishaps, ghosts>>

\* The accounting period closes, or a new one opens.
SwitchPeriod ==
    /\ Change
    /\ accepting' = ~accepting
    /\ UNCHANGED <<tables, today, run, edit, mishaps, ghosts>>

NextDay ==
    /\ today < Horizon
    /\ today' = today + 1
    /\ UNCHANGED <<tables, accepting, run, edit, changes, mishaps, ghosts>>

-----------------------------------------------------------------------------
(* generateDue *)

BeginOnTheDay(j) ==  \* mutant: missed days are not caught up
    /\ run[j] = NoRun
    /\ template.exists
    /\ template.active
    /\ template.nextDue = today
    /\ run' = [run EXCEPT ![j] =
                [step |-> "booking", rule |-> template.rule, asOf |-> today,
                 cursor |-> template.nextDue, lastRun |-> template.lastRun,
                 count |-> 0]]
    /\ calm' = (calm /\ edit = NoEdit /\ \A i \in Runs \ {j} : ~Running(i))
    /\ UNCHANGED <<tables, today, accepting, edit, changes, mishaps, kept, edited>>

BeginRun(j) ==
    /\ run[j] = NoRun
    /\ template.exists
    /\ template.active
    /\ template.nextDue <= today
    /\ run' = [run EXCEPT ![j] =
                [step |-> "booking", rule |-> template.rule, asOf |-> today,
                 cursor |-> template.nextDue, lastRun |-> template.lastRun,
                 count |-> 0]]
    /\ calm' = (calm /\ edit = NoEdit /\ \A i \in Runs \ {j} : ~Running(i))
    /\ UNCHANGED <<tables, today, accepting, edit, changes, mishaps, kept, edited>>

Onward(t) == [t EXCEPT !.lastRun = t.cursor, !.cursor = NextAfter(t.cursor, t.rule),
                       !.count = @ + 1]

\* #generateOne: an expense that is there, by the query or by the unique
\* index, is taken for done.
Book(j) ==
    LET t == run[j]
    IN  /\ t.step = "booking"
        /\ t.cursor <= t.asOf
        /\ t.count < MaxCatchup
        /\ t.cursor \notin live => accepting /\ template.exists
        /\ live' = live \union {t.cursor}
        /\ made' = [made EXCEPT ![t.cursor] = IF t.cursor \in live THEN @ ELSE @ + 1]
        /\ run' = [run EXCEPT ![j] = Onward(t)]
        /\ UNCHANGED <<template, today, accepting, edit, changes, mishaps, ghosts>>

\* Booking is refused (no open period, no template) or fails.
BookingRefused(t) ==
    /\ t.step = "booking"
    /\ t.cursor <= t.asOf
    /\ t.count < MaxCatchup
    /\ \/ t.cursor \notin live /\ ~(accepting /\ template.exists) /\ UNCHANGED mishaps
       \/ mishaps < MaxMishaps /\ mishaps' = mishaps + 1

StopSkipping(j) ==  \* mutant: the date that failed is passed over
    /\ BookingRefused(run[j])
    /\ run' = [run EXCEPT ![j] = [Onward(@) EXCEPT !.step = "stopped"]]
    /\ UNCHANGED <<tables, today, accepting, edit, changes, ghosts>>

\* The template stops at the date that failed.
Stop(j) ==
    /\ BookingRefused(run[j])
    /\ run' = [run EXCEPT ![j].step = "stopped"]
    /\ UNCHANGED <<tables, today, accepting, edit, changes, ghosts>>

Done(t) ==
    \/ t.step = "stopped"
    \/ t.step = "booking" /\ (t.cursor > t.asOf \/ t.count = MaxCatchup)

\* The progress is written, whatever the template says by now.
Persist(j) ==
    /\ Done(run[j])
    /\ template' = IF ~template.exists THEN template
                   ELSE [template EXCEPT !.lastRun = run[j].lastRun,
                                         !.nextDue = run[j].cursor]
    /\ run' = [run EXCEPT ![j] = NoRun]
    /\ UNCHANGED <<live, made, today, accepting, edit, changes, mishaps, ghosts>>

\* The write fails, which is only logged.
PersistFails(j) ==
    /\ Done(run[j])
    /\ mishaps < MaxMishaps
    /\ mishaps' = mishaps + 1
    /\ run' = [run EXCEPT ![j] = NoRun]
    /\ kept' = FALSE
    /\ UNCHANGED <<tables, today, accepting, edit, changes, calm, edited>>

\* The server process ends and starts again.
Restart ==
    /\ \E j \in Runs : Running(j)
    /\ mishaps < MaxMishaps
    /\ mishaps' = mishaps + 1
    /\ run' = [j \in Runs |-> NoRun]
    /\ edit' = NoEdit
    /\ kept' = FALSE
    /\ UNCHANGED <<tables, today, accepting, changes, calm, edited>>

-----------------------------------------------------------------------------

RecurringInit ==
    /\ template = NoTemplate
    /\ live = {}
    /\ made = [d \in Days |-> 0]
    /\ today = 0
    /\ accepting = TRUE
    /\ run = [j \in Runs |-> NoRun]
    /\ edit = NoEdit
    /\ changes = 0
    /\ mishaps = 0
    /\ calm = TRUE
    /\ kept = TRUE
    /\ edited = FALSE

RunStep(j) == Book(j) \/ Stop(j) \/ Persist(j)

RecurringNext ==
    \/ Create \/ BeginEdit \/ CommitEdit \/ SetActive
    \/ DeleteTemplate \/ DeleteExpense \/ SwitchPeriod \/ NextDay \/ Restart
    \/ \E j \in Runs : BeginRun(j) \/ RunStep(j) \/ PersistFails(j)

\* The timer fires every day and at every start, and a run goes on to its
\* end; nobody has to change anything, and the days need not pass.
RecurringFairness ==
    /\ WF_recurringVars(\E j \in Runs : BeginRun(j))
    /\ \A j \in Runs : WF_recurringVars(RunStep(j))

RecurringSpec == RecurringInit /\ [][RecurringNext]_recurringVars /\ RecurringFairness

-----------------------------------------------------------------------------

RunState ==
    [step : {"idle", "booking", "stopped"}, rule : Rules \union {NoRule}, asOf : Days,
     cursor : Days, lastRun : Days \union {Never}, count : 0..MaxCatchup]

RecurringTypeOK ==
    /\ template \in [exists : BOOLEAN, active : BOOLEAN, rule : Rules \union {NoRule},
                     start : Days, lastRun : Days \union {Never}, nextDue : Days]
    /\ live \subseteq Days
    /\ made \in [Days -> Nat]
    /\ today \in 0..Horizon
    /\ accepting \in BOOLEAN
    /\ run \in [Runs -> RunState]
    /\ edit \in [step : {"idle", "read"}, rule : Rules \union {NoRule},
                 start : Days, lastRun : Days \union {Never}]
    /\ changes \in 0..MaxChanges
    /\ mishaps \in 0..MaxMishaps
    /\ <<calm, kept, edited>> \in BOOLEAN \X BOOLEAN \X BOOLEAN

\* The dates of a rule, without a walk from one to the next.
Occurs(d, rule) ==
    LET m == MonthOf(d)
        dom == d - Until[m - 1] + 1
        onTheDay == dom = Lesser(rule.on, MonthLengths[m])
    IN  CASE rule.frequency = "daily" -> TRUE
          [] rule.frequency = "weekly" -> d % WeekLength = rule.on
          [] rule.frequency = "monthly" -> onTheDay
          [] rule.frequency = "yearly" ->
                onTheDay /\ ((m - 1) % YearLength) + 1 = rule.month

\* "A program that was closed across several due dates fills them all":
\* every date of a rule that nobody edited, up to the next due one, had its
\* expense, whatever overlaps, fails, is paused or restarts in between.
NothingSkipped ==
    template.exists /\ ~edited =>
        \A d \in template.start..(template.nextDue - 1) :
            Occurs(d, template.rule) => made[d] > 0

\* Between the last run and the next due date lies no date of the rule, and
\* the next due date is one of them: through edits of rule and start, short
\* months and stops half-way, as long as runs and edits do not overlap.
StaysOnSchedule ==
    calm /\ template.exists =>
        /\ Occurs(template.nextDue, template.rule)
        /\ \A d \in Days :
              /\ d < template.nextDue
              /\ d > IF template.lastRun = Never THEN template.start - 1
                     ELSE template.lastRun
              => ~Occurs(d, template.rule)

\* The template's dates are dates it can have, and the ones it should have.
DatesInOrder == RecurringTypeOK /\ StaysOnSchedule

\* "Running it often, or twice in a row, never double-charges": an expense
\* the user deleted is not charged again, unless runs or edits overlapped
\* or a run's progress was lost.
DeletedStaysDeleted == calm /\ kept => \A d \in Days : made[d] <= 1

\* Once expenses can be booked for good and the template stays active, the
\* job catches up with the calendar, however far behind it was.
CatchesUp ==
    <>[](accepting /\ template.active) => <>[](template.nextDue > today)
=============================================================================
