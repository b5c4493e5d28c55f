----------------------------- MODULE SeriesForm -----------------------------
(***************************************************************************)
(* The form that creates a series (series/create/page.tsx): four steps with  *)
(* their validation, the brief that is extracted from notes while the form   *)
(* is filled in, the preview of the send dates, and the submission, which    *)
(* creates the series and then attaches its sources one by one.             *)
(*                                                                         *)
(* Days are numbers; day d is weekday d % 7, 0 being Sunday.                *)
(***************************************************************************)
EXTENDS Integers, FiniteSetsExt, Sequences

CONSTANTS
  StartDays,    \* start dates that are picked
  Toggles,      \* weekdays that are switched on and off
  Cadences,     \* cadences that are picked
  MaxSources,   \* bound: sources of a series
  MaxFaults,    \* bound: requests that fail
  MaxMade       \* bound: series

NoDate == -1
Horizon == 90   \* bound: days a preview scans

ASSUME SeriesFormAssumption ==
  /\ StartDays \subseteq Nat /\ Toggles \subseteq 0..6
  /\ Cadences \subseteq {"daily", "weekly", "biweekly", "monthly"}
  /\ {MaxSources, MaxFaults, MaxMade} \subseteq Nat

VARIABLES
  where,      \* the page that is open
  form,       \* the fields and the step of the form
  brief,      \* an extraction is under way
  submission, \* handleSubmit
  made,       \* series the server has created
  attached,   \* sources the server has for the last of them
  faults,
  overtaken   \* history: an extraction has answered after the first step

formVars == <<where, form, brief, submission, made, attached, faults, overtaken>>

Blank == [step |-> 1, topic |-> FALSE, cadence |-> "weekly",
          days |-> {1, 3, 5}, start |-> NoDate, time |-> TRUE, sources |-> 0]
NoSubmission == [stage |-> "none", todo |-> 0, ok |-> FALSE]

FormTypeOK ==
  /\ where \in {"form", "page", "away"}
  /\ form \in [step : 1..4, topic : BOOLEAN,     \* topic and goal are long enough
               cadence : {"daily", "weekly", "biweekly", "monthly"},
               days : SUBSET (0..6), start : StartDays \union {NoDate},
               time : BOOLEAN, sources : 0..MaxSources]
  /\ submission \in [stage : {"none", "create", "created", "attach"},
                     todo : 0..MaxSources, ok : BOOLEAN]
  /\ made \in 0..MaxMade /\ attached \in 0..MaxSources
  /\ {brief, overtaken} \subseteq BOOLEAN /\ faults \in 0..MaxFaults

-----------------------------------------------------------------------------
(* The preview of the send dates, and the dates the worker gives the issues. *)

Weekday(d) == d % 7
Month(d) == d \div 30

(* Four times the emails of a week. *)
EmailsPerWeek(f) ==
  CASE f.cadence = "daily" -> 28
    [] f.cadence = "weekly" -> 4 * (IF f.days = {} THEN 1 ELSE Cardinality(f.days))
    [] f.cadence = "biweekly" -> 2
    [] f.cadence = "monthly" -> 1
Weeks == {1, 4, 12, 24}
EstimateIssueCount(f, weeks) ==
  LET rounded == (weeks * EmailsPerWeek(f) + 2) \div 4 IN IF rounded = 0 THEN 1 ELSE rounded

(* Mutant: every other week is taken for every week. *)
TooSoonWeekly(f, last, d) ==
  \/ f.cadence = "biweekly" /\ d - last < 6
  \/ f.cadence = "monthly" /\ Month(d) = Month(last)

TooSoon(f, last, d) ==
  \/ f.cadence = "biweekly" /\ d - last < 13
  \/ f.cadence = "monthly" /\ Month(d) = Month(last)

(* The days of the cadence from the start on, the first count of them that   *)
(* are not too soon after the one before.                                   *)
PreviewSendDates(f, count) ==
  LET wanted == {d \in f.start..(f.start + Horizon) :
                   f.cadence = "daily" \/ Weekday(d) \in f.days}
      Date[i \in 1..count] ==
        IF i = 1 THEN Min(wanted)
        ELSE LET last == Date[i - 1]
             IN Min({d \in wanted : d > last /\ ~TooSoon(f, last, d)})
  IN IF f.start = NoDate \/ wanted = {} THEN <<>> ELSE Date

(* "Next sends" shows six of them at most. *)
ShownDates(f, weeks) ==
  LET count == EstimateIssueCount(f, weeks)
  IN PreviewSendDates(f, IF count < 6 THEN count ELSE 6)

(* issue_send_times, when the plan is made: the weekdays are not asked for,  *)
(* and a first send that is not to come any more is moved by one day, with   *)
(* all that follow.  now is the last day whose send time is past.  A change  *)
(* of the clocks is left out.                                               *)
CadenceStep(cadence) ==
  CASE cadence = "monthly" -> 30 [] cadence = "biweekly" -> 14
    [] cadence = "weekly" -> 7 [] OTHER -> 1
FirstSend(f, now) == IF f.start <= now THEN f.start + 1 ELSE f.start
IssueSendTimes(f, count, now) ==
  [i \in 1..count |-> FirstSend(f, now) + CadenceStep(f.cadence) * (i - 1)]

-----------------------------------------------------------------------------
(* The steps. *)

ValidStep(f, step) ==
  CASE step = 1 -> f.topic
    [] step = 3 -> f.start # NoDate /\ f.time /\ (f.cadence = "daily" \/ f.days # {})
    [] OTHER -> TRUE

(* Bound: nothing is typed while the form is submitted; what is sent was    *)
(* read at the click.                                                       *)
Submitting == submission.stage # "none"
Filling == where = "form" /\ ~Submitting /\ form' # form
KeepsRest == UNCHANGED <<where, brief, submission, made, attached, faults, overtaken>>

(* Typing, picking and switching, each in the step that shows the field.    *)
UpdateField(f) == form' = f /\ Filling /\ KeepsRest

BasicsStep ==
  /\ form.step = 1
  /\ \E ok \in BOOLEAN : UpdateField([form EXCEPT !.topic = ok])

ScheduleStep ==
  /\ form.step = 3
  /\ \/ \E c \in Cadences : UpdateField([form EXCEPT !.cadence = c])
     \/ \E d \in StartDays \union {NoDate} : UpdateField([form EXCEPT !.start = d])
     \/ \E ok \in BOOLEAN : UpdateField([form EXCEPT !.time = ok])

ToggleDay(d) ==
  /\ form.step = 3 /\ form.cadence # "daily"
  /\ UpdateField([form EXCEPT !.days = IF d \in @ THEN @ \ {d} ELSE @ \union {d}])

AddSource ==
  /\ form.step = 2 /\ form.sources < MaxSources
  /\ UpdateField([form EXCEPT !.sources = @ + 1])
RemoveSource ==
  /\ form.step = 2 /\ form.sources > 0
  /\ UpdateField([form EXCEPT !.sources = @ - 1])

(* Mutant: only the step that is left is validated. *)
GoToStepOver(step) ==
  /\ step < form.step \/ ValidStep(form, form.step)
  /\ form' = [form EXCEPT !.step = step]
  /\ Filling /\ KeepsRest

(* Going back is free; going forward validates every step on the way.       *)
GoToStep(step) ==
  /\ step < form.step \/ \A i \in form.step..(step - 1) : ValidStep(form, i)
  /\ form' = [form EXCEPT !.step = step]
  /\ Filling /\ KeepsRest

(* The brief's answer goes over the fields as they are then, those it is    *)
(* empty for excepted.                                                      *)
ExtractBrief ==
  /\ where = "form" /\ form.step = 1 /\ ~brief
  /\ brief' = TRUE
  /\ UNCHANGED <<where, form, submission, made, attached, faults, overtaken>>

BriefAnswers ==
  /\ brief /\ brief' = FALSE
  /\ \/ /\ where = "form"
        /\ \E c \in Cadences \union {form.cadence} :
             \E ok \in BOOLEAN :
               form' = [form EXCEPT !.topic = ok, !.cadence = c]
     \/ UNCHANGED form
  /\ overtaken' = (overtaken \/ form.step # 1)
  /\ UNCHANGED <<where, submission, made, attached, faults>>

-----------------------------------------------------------------------------
(* The submission. *)

Submit ==
  /\ where = "form" /\ form.step = 4 /\ ~Submitting /\ ValidStep(form, 4)
  /\ made < MaxMade
  /\ submission' = [stage |-> "create", todo |-> form.sources, ok |-> FALSE]
  /\ UNCHANGED <<where, form, brief, made, attached, faults, overtaken>>

(* The server creates the series before it answers. *)
CreateSeries ==
  /\ submission.stage = "create"
  /\ made' = made + 1 /\ attached' = 0
  /\ submission' = [submission EXCEPT !.stage = "created", !.ok = TRUE]
  /\ UNCHANGED <<where, form, brief, faults, overtaken>>

Created ==
  /\ submission.stage = "created"
  /\ submission' = IF submission.ok THEN [submission EXCEPT !.stage = "attach"]
                   ELSE NoSubmission
  /\ UNCHANGED <<where, form, brief, made, attached, faults, overtaken>>

(* A source that fails does not stop the others. *)
AttachSource ==
  /\ submission.stage = "attach" /\ submission.todo > 0
  /\ \/ attached' = attached + 1 /\ UNCHANGED faults
     \/ faults < MaxFaults /\ faults' = faults + 1 /\ UNCHANGED attached
  /\ submission' = [submission EXCEPT !.todo = @ - 1]
  /\ UNCHANGED <<where, form, brief, made, overtaken>>

(* The page of the new series opens, and what was told of its sources goes. *)
OpenSeries ==
  /\ submission.stage = "attach" /\ submission.todo = 0
  /\ where' = "page" /\ form' = Blank /\ brief' = FALSE
  /\ submission' = NoSubmission /\ overtaken' = FALSE
  /\ UNCHANGED <<made, attached, faults>>

(* Creating fails, before or after the server did it. *)
CreateFails ==
  /\ faults < MaxFaults /\ faults' = faults + 1
  /\ submission.stage = "create" \/ (submission.stage = "created" /\ submission.ok)
  /\ submission' = [submission EXCEPT !.stage = "created", !.ok = FALSE]
  /\ UNCHANGED <<where, form, brief, made, attached, overtaken>>

-----------------------------------------------------------------------------
(* Init takes the form from a start that is picked: it is tomorrow at first. *)
FormInit ==
  /\ where = "form" /\ brief = FALSE /\ submission = NoSubmission
  /\ \E d \in StartDays : form = [Blank EXCEPT !.start = d]
  /\ made = 0 /\ attached = 0 /\ faults = 0 /\ overtaken = FALSE

SubmissionGoesOn == CreateSeries \/ Created \/ AttachSource \/ OpenSeries

FormNext ==
  \/ BasicsStep \/ AddSource \/ RemoveSource \/ ScheduleStep \/ ExtractBrief \/ BriefAnswers
  \/ \E d \in Toggles : ToggleDay(d)
  \/ \E step \in 1..4 : GoToStep(step)
  \/ Submit \/ SubmissionGoesOn \/ CreateFails

-----------------------------------------------------------------------------
(* Properties. *)

(* handleSubmit looks at the last step only: whatever way leads to it, every *)
(* step of what is submitted is valid, unless a brief answered after the     *)
(* first step.                                                              *)
ValidWhenSubmitted ==
  [][(~Submitting /\ Submitting' /\ ~overtaken) => \A step \in 1..4 : ValidStep(form, step)]_formVars

(* "Next sends" are the dates that the issues get, where every day is one,   *)
(* or the only weekday is that of the start, and the start is to come when   *)
(* the plan is made; if it is not, which the form does not check, they come  *)
(* a day later, each of them.  Left out: several weekdays, the form's        *)
(* default, and months, which the schedule does not count in weekdays.      *)
PreviewIsSchedule ==
  (/\ where = "form" /\ form.step = 3 /\ form.start # NoDate
   /\ \/ form.cadence = "daily"
      \/ form.cadence \in {"weekly", "biweekly"} /\ form.days = {Weekday(form.start)})
  => \A weeks \in Weeks, now \in 0..(form.start + 1) :
       LET shown == ShownDates(form, weeks)
           late == IF now < form.start THEN 0 ELSE 1
       IN /\ shown # <<>>
          /\ IssueSendTimes(form, Len(shown), now) = [i \in DOMAIN shown |-> shown[i] + late]
=============================================================================
