---------------------------- MODULE SeriesProofs ----------------------------
(***************************************************************************)
(* ValidWhenSubmitted for every set of dates, weekdays and cadences, and     *)
(* every bound, whatever the page of the series does afterwards;            *)
(* PreviewIsSchedule for every start and weekday; and PageIsCurrent for      *)
(* every number of issues, sources, handlers and clicks.                    *)
(***************************************************************************)
EXTENDS SeriesPage, FiniteSetTheorems, SequenceTheorems, TLAPS

(* The form keeps its fields, and the steps before the one that is shown are *)
(* valid, since going on validates them and going back validates nothing;    *)
(* a brief that answers in the first step has none before it.               *)
FormFields == {"step", "topic", "cadence", "days", "start", "time", "sources"}
IsForm(f) == f = [field \in FormFields |-> f[field]] /\ f.step \in 1..4
ValidBefore(f) == \A s \in 1..4 : s < f.step => ValidStep(f, s)

StepsValid ==
  where = "form" => IsForm(form) /\ (~overtaken => ValidBefore(form))

-----------------------------------------------------------------------------
(* A field that a later step shows does not touch the steps before it.      *)
LEMMA LaterField ==
  ASSUME NEW f, IsForm(f), ValidBefore(f), NEW g, IsForm(g), g.step = f.step,
         f.step = 1 \/ (f.step \in {2, 3} /\ g.topic = f.topic)
  PROVE  ValidBefore(g)
BY DEF ValidBefore, ValidStep, IsForm

LEMMA FillingFits ==
  ASSUME StepsValid, where = "form",
         \/ BasicsStep \/ ScheduleStep \/ AddSource \/ RemoveSource
         \/ \E d \in Toggles : ToggleDay(d)
  PROVE  StepsValid'
<1>1. /\ IsForm(form') /\ form'.step = form.step
      /\ form.step = 1 \/ (form.step \in {2, 3} /\ form'.topic = form.topic)
      /\ UNCHANGED <<where, overtaken>>
  <2>1. form = [field \in FormFields |-> form[field]] /\ form.step \in 1..4
    BY DEF StepsValid, IsForm
  <2>2. CASE BasicsStep
    BY <2>1, <2>2 DEF BasicsStep, UpdateField, KeepsRest, IsForm, FormFields
  <2>3. CASE ScheduleStep
    BY <2>1, <2>3 DEF ScheduleStep, UpdateField, KeepsRest, IsForm, FormFields
  <2>4. CASE AddSource \/ RemoveSource
    BY <2>1, <2>4 DEF AddSource, RemoveSource, UpdateField, KeepsRest, IsForm, FormFields
  <2>5. ASSUME NEW d \in Toggles, ToggleDay(d) 
        PROVE  /\ IsForm(form') /\ form'.step = form.step
               /\ form.step = 3 /\ form'.topic = form.topic
               /\ UNCHANGED <<where, overtaken>>
    <3> DEFINE days == IF d \in form.days THEN form.days \ {d} ELSE form.days \union {d}
    <3>1. form' = [form EXCEPT !.days = days] /\ form.step = 3 /\ UNCHANGED <<where, overtaken>>
      BY <2>5 DEF ToggleDay, UpdateField, KeepsRest
    <3> HIDE DEF days
    <3> QED
      BY <2>1, <3>1 DEF IsForm, FormFields
  <2> QED
    BY <2>2, <2>3, <2>4, <2>5
<1> QED
  BY <1>1, LaterField DEF StepsValid

LEMMA GoToStepFits ==
  ASSUME StepsValid, where = "form", NEW step \in 1..4, GoToStep(step)
  PROVE  StepsValid'
<1>1. /\ form' = [form EXCEPT !.step = step] /\ UNCHANGED <<where, overtaken>>
      /\ step < form.step \/ \A i \in form.step..(step - 1) : ValidStep(form, i)
  BY DEF GoToStep, KeepsRest
<1>2. form = [field \in FormFields |-> form[field]] /\ form.step \in 1..4
  BY DEF StepsValid, IsForm
<1>3. /\ IsForm(form') /\ form'.step = step /\ form'.topic = form.topic /\ form'.start = form.start
      /\ form'.time = form.time /\ form'.cadence = form.cadence /\ form'.days = form.days
  BY <1>1, <1>2 DEF IsForm, FormFields
<1>4. \A s : ValidStep(form', s) <=> ValidStep(form, s)
  BY <1>3 DEF ValidStep
<1>5. ASSUME ~overtaken, NEW s \in 1..4, s < step PROVE ValidStep(form, s)
  <2>1. CASE s < form.step
    BY <1>5, <2>1 DEF StepsValid, ValidBefore
  <2>2. CASE ~(s < form.step)
    BY <1>1, <1>2, <1>5, <2>2
  <2> QED
    BY <2>1, <2>2
<1> QED
  BY <1>1, <1>3, <1>4, <1>5 DEF StepsValid, ValidBefore

LEMMA BriefFits == ASSUME StepsValid, where = "form", BriefAnswers PROVE StepsValid'
<1>1. form = [field \in FormFields |-> form[field]] /\ form.step \in 1..4
  BY DEF StepsValid, IsForm
<1>2. IsForm(form') /\ form'.step = form.step
  BY <1>1 DEF BriefAnswers, IsForm, FormFields
<1>3. (~overtaken' => form.step = 1) /\ UNCHANGED where
  BY Zenon DEF BriefAnswers
<1>4. ~overtaken' => ValidBefore(form')
  BY <1>2, <1>3 DEF ValidBefore
<1> QED
  BY <1>2, <1>4 DEF StepsValid

LEMMA StepsValidInit == Init => StepsValid
<1> SUFFICES ASSUME Init PROVE StepsValid
  OBVIOUS
<1>1. PICK d \in StartDays : form = [Blank EXCEPT !.start = d]
  BY DEF Init, FormInit
<1>2. Blank = [field \in FormFields |-> Blank[field]] /\ Blank.step = 1
  BY DEF Blank, FormFields
<1>3. IsForm(form) /\ form.step = 1
  BY <1>1, <1>2 DEF IsForm, FormFields
<1> QED
  BY <1>3 DEF StepsValid, ValidBefore

(* The page leaves the form alone, and does not go back to it. *)
LEMMA PageFits ==
  ASSUME [Next]_vars, ~FormStep
  PROVE  /\ UNCHANGED <<form, submission, overtaken>>
         /\ UNCHANGED where \/ where' = "away"
<1>1. CASE UNCHANGED vars
  BY <1>1 DEF vars, formVars
<1>2. CASE PlanEnds \/ Materialize \/ \E i \in Items : ItemEnds(i)
  BY <1>2 DEF PlanEnds, Materialize, ItemEnds, formVars
<1>3. ASSUME NEW r \in Requests, Effects(r) \/ \E h \in Buttons : Click(r, h)
      PROVE  UNCHANGED formVars
  BY <1>3, Zenon DEF Effects, OpenPage, PlanPoll, BusyPoll, Click, NotServer
<1>4. ASSUME NEW r \in Requests, Serve(r) PROVE UNCHANGED formVars
  BY <1>4, Zenon DEF Serve
<1>5. ASSUME NEW r \in Requests, RequestFails(r)
      PROVE  UNCHANGED <<form, submission, overtaken, where>>
  BY <1>5 DEF RequestFails
<1>6. ASSUME NEW r \in Requests, Answer(r)
      PROVE  /\ UNCHANGED <<form, submission, overtaken>>
             /\ UNCHANGED where \/ where' = "away"
  BY <1>6, Zenon DEF Answer
<1> QED
  BY <1>1, <1>2, <1>3, <1>4, <1>5, <1>6 DEF Next, formVars

LEMMA StepsValidStep == StepsValid /\ [Next]_vars => StepsValid'
<1> SUFFICES ASSUME StepsValid, [Next]_vars PROVE StepsValid'
  OBVIOUS
<1>1. CASE ~FormStep
  BY <1>1, PageFits DEF StepsValid
<1>2. CASE FormStep /\ where # "form"
  <2>1. where' # "form"
    BY <1>2 DEF FormStep, FormNext, BasicsStep, AddSource, RemoveSource, ScheduleStep, ToggleDay,
                GoToStep, UpdateField, Filling, ExtractBrief, BriefAnswers, Submit,
                SubmissionGoesOn, CreateSeries, Created, AttachSource, OpenSeries, CreateFails
  <2> QED
    BY <2>1 DEF StepsValid
<1>3. CASE FormStep /\ where = "form"
  <2>1. CASE ExtractBrief \/ Submit \/ CreateSeries \/ Created \/ AttachSource \/ CreateFails
    <3>1. UNCHANGED <<where, form, overtaken>>
      BY <2>1 DEF ExtractBrief, Submit, CreateSeries, Created, AttachSource, CreateFails
    <3> QED
      BY <3>1 DEF StepsValid
  <2>2. CASE OpenSeries
    BY <2>2 DEF OpenSeries, StepsValid
  <2>3. FormNext
    BY <1>3 DEF FormStep
  <2> QED
    BY <1>3, <2>1, <2>2, <2>3, FillingFits, GoToStepFits, BriefFits, Zenon
       DEF FormNext, SubmissionGoesOn
<1> QED
  BY <1>1, <1>2, <1>3

(* Only the button of a valid last step submits. *)
LEMMA SubmittedIsValid ==
  ASSUME StepsValid, [Next]_vars, ~Submitting, Submitting', ~overtaken
  PROVE  \A step \in 1..4 : ValidStep(form, step)
<1>1. FormNext
  BY PageFits DEF FormStep, Submitting
<1>2. Submit
  BY <1>1 DEF FormNext, BasicsStep, AddSource, RemoveSource, ScheduleStep, ToggleDay, GoToStep,
              UpdateField, KeepsRest, ExtractBrief, BriefAnswers, SubmissionGoesOn, CreateSeries,
              Created, AttachSource, OpenSeries, CreateFails, Submitting
<1>3. where = "form" /\ form.step = 4 /\ ValidStep(form, 4)
  BY <1>2 DEF Submit
<1> QED
  BY <1>3 DEF StepsValid, ValidBefore

(* Whatever way leads to the last step, what is submitted is valid in every *)
(* step, unless a brief answered after the first one.                       *)
THEOREM SubmissionsValid == Spec => ValidWhenSubmitted
<1>1. StepsValid /\ [Next]_vars =>
        [(~Submitting /\ Submitting' /\ ~overtaken) => \A step \in 1..4 : ValidStep(form, step)]_formVars
  BY SubmittedIsValid
<1> QED
  BY <1>1, StepsValidInit, StepsValidStep, PTL DEF Spec, ValidWhenSubmitted

-----------------------------------------------------------------------------
(* The dates of the schedule are those of the preview where the weekdays     *)
(* leave the start's own.                                                   *)
Matches(f) ==
  /\ f.start \in Nat
  /\ \/ f.cadence = "daily"
     \/ f.cadence \in {"weekly", "biweekly"} /\ f.days = {Weekday(f.start)}
Wanted(f) == {d \in f.start..(f.start + Horizon) : f.cadence = "daily" \/ Weekday(d) \in f.days}

(* Min of FiniteSetsExt, where there is a least number. *)
LEMMA MinIs ==
  ASSUME NEW S, S \subseteq Int, NEW m \in S, \A d \in S : m <= d
  PROVE  Min(S) = m
<1>1. \E x \in S : \A y \in S : x <= y
  OBVIOUS
<1>2. Min(S) \in S /\ Min(S) \in Int /\ (\A y \in S : Min(S) <= y)
  BY <1>1 DEF Min
<1>3. m \in Int /\ Min(S) <= m /\ m <= Min(S)
  BY <1>2
<1> HIDE DEF Min
<1> QED
  BY <1>2, <1>3

(* The first date is the start, and each is a step of the cadence after the  *)
(* one before.                                                              *)
LEMMA FirstDate ==
  ASSUME NEW f, Matches(f)
  PROVE  f.start \in Wanted(f) /\ Min(Wanted(f)) = f.start
<1>1. f.start \in Wanted(f)
  BY DEF Matches, Wanted, Horizon
<1> QED
  BY <1>1, MinIs DEF Wanted, Matches, Horizon

LEMMA NextDate ==
  ASSUME NEW f, Matches(f), NEW k \in 0..4
  PROVE  LET last == f.start + CadenceStep(f.cadence) * k
         IN Min({d \in Wanted(f) : d > last /\ ~TooSoon(f, last, d)})
              = f.start + CadenceStep(f.cadence) * (k + 1)
<1> DEFINE step == CadenceStep(f.cadence)
           last == f.start + step * k
           rest == {d \in Wanted(f) : d > last /\ ~TooSoon(f, last, d)}
<1>1. /\ step \in {1, 7, 14} /\ f.start \in Nat
      /\ (f.cadence = "daily" => step = 1) /\ (f.cadence = "weekly" => step = 7)
      /\ (f.cadence = "biweekly" => step = 14)
  BY DEF Matches, CadenceStep
<1>2. last \in Nat /\ last + step = f.start + step * (k + 1)
  BY <1>1
<1> HIDE DEF step
<1>3. last + step \in rest
  <2>1. last + step \in f.start..(f.start + Horizon) /\ last + step > last
    BY <1>1, <1>2 DEF Horizon
  <2>2. f.cadence # "daily" => Weekday(last + step) \in f.days
    <3>1. CASE step = 7
      BY <1>1, <3>1 DEF Weekday, Matches
    <3>2. CASE step = 14
      BY <1>1, <3>2 DEF Weekday, Matches
    <3> QED
      BY <1>1, <3>1, <3>2 DEF Matches
  <2>3. ~TooSoon(f, last, last + step)
    BY <1>1, <1>2 DEF TooSoon, Matches
  <2> QED
    BY <2>1, <2>2, <2>3 DEF Wanted
<1>4. ASSUME NEW d \in rest PROVE last + step <= d
  <2>1. d \in Nat /\ d > last
    BY <1>1 DEF Wanted, Horizon
  <2>2. CASE f.cadence = "daily"
    BY <1>1, <1>2, <2>1, <2>2
  <2>3. CASE f.cadence = "weekly"
    BY <1>1, <1>2, <2>1, <2>3 DEF Wanted, Weekday, Matches
  <2>4. CASE f.cadence = "biweekly"
    BY <1>1, <1>2, <2>1, <2>4 DEF Wanted, Weekday, Matches, TooSoon
  <2> QED
    BY <2>2, <2>3, <2>4 DEF Matches
<1>5. rest \subseteq Int
  BY <1>1 DEF Wanted, Horizon
<1>6. Min(rest) = last + step
  BY <1>3, <1>4, <1>5, MinIs
<1> QED
  BY <1>2, <1>6 DEF step

(* The dates of the cadence from the start on.                              *)
OnTime(f, count) == [i \in 1..count |-> f.start + CadenceStep(f.cadence) * (i - 1)]

(* The recursive function of the preview exists, since the schedule is one,  *)
(* and its dates follow one by one; there are six of them at most.          *)
LEMMA PreviewIs ==
  ASSUME NEW f, Matches(f), NEW count \in 1..6
  PROVE  PreviewSendDates(f, count) = OnTime(f, count)
<1> DEFINE Following(D) == [i \in 1..count |->
             IF i = 1 THEN Min(Wanted(f))
             ELSE LET last == D[i - 1]
                  IN Min({d \in Wanted(f) : d > last /\ ~TooSoon(f, last, d)})]
           Dates == CHOOSE D : D = Following(D)
           times == OnTime(f, count)
           step == CadenceStep(f.cadence)
<1>1. PreviewSendDates(f, count) = IF f.start = NoDate \/ Wanted(f) = {} THEN <<>> ELSE Dates
  BY Zenon DEF PreviewSendDates, Wanted
<1>2. f.start # NoDate /\ Wanted(f) # {}
  BY FirstDate DEF Matches, NoDate
<1>3. /\ times = [i \in 1..count |-> f.start + step * (i - 1)]
      /\ f.start \in Nat /\ step \in Nat /\ count \in Nat
  BY DEF OnTime, Matches, CadenceStep
<1>4. \A k \in 0..4 : LET last == f.start + step * k
                      IN Min({d \in Wanted(f) : d > last /\ ~TooSoon(f, last, d)}) = f.start + step * (k + 1)
  BY NextDate
<1>5. Min(Wanted(f)) = f.start
  BY FirstDate
<1> HIDE DEF times, step
<1>6. ASSUME NEW D, NEW i \in 1..count, i # 1, D[i - 1] = f.start + step * (i - 2)
      PROVE  Following(D)[i] = f.start + step * (i - 1)
  <2>1. i - 2 \in 0..4 /\ (i - 2) + 1 = i - 1
    BY <1>3, <1>6
  <2>2. LET last == D[i - 1]
        IN Min({d \in Wanted(f) : d > last /\ ~TooSoon(f, last, d)}) = f.start + step * ((i - 2) + 1)
    BY <1>4, <1>6, <2>1
  <2> QED
    BY <1>6, <2>1, <2>2
<1>7. ASSUME NEW D PROVE 1 \in 1..count => Following(D)[1] = f.start
  BY <1>5
<1>8. times = Following(times)
  <2>1. ASSUME NEW i \in 1..count PROVE times[i] = Following(times)[i]
    <3>1. CASE i = 1
      BY <1>3, <1>7, <3>1
    <3>2. CASE i # 1
      <4>1. times[i - 1] = f.start + step * (i - 2)
        BY <1>3, <3>2
      <4>2. Following(times)[i] = f.start + step * (i - 1)
        BY <1>6, <3>2, <4>1
      <4> QED
        BY <1>3, <4>2
    <3> QED
      BY <3>1, <3>2
  <2>2. Following(times) = [i \in 1..count |-> Following(times)[i]]
    OBVIOUS
  <2> HIDE DEF Following
  <2> QED
    BY <1>3, <2>1, <2>2
<1>9. Dates = Following(Dates)
  BY <1>8, Zenon
<1> HIDE DEF Dates
<1>10. Dates = [i \in 1..count |-> Dates[i]]
  BY <1>9
<1>11. /\ 1 \in 1..count => Dates[1] = f.start
       /\ \A i \in 2..count : Dates[i - 1] = f.start + step * (i - 2) => Dates[i] = f.start + step * (i - 1)
  <2>1. \A i \in 1..count : Dates[i] = Following(Dates)[i]
    BY <1>9
  <2>2. ASSUME NEW i \in 2..count, Dates[i - 1] = f.start + step * (i - 2)
        PROVE  Dates[i] = f.start + step * (i - 1)
    <3>1. i \in 1..count /\ i # 1
      BY <1>3, <2>2
    <3>2. Following(Dates)[i] = f.start + step * (i - 1)
      BY <1>6, <2>2, <3>1
    <3> QED
      BY <2>1, <3>1, <3>2
  <2>3. 1 \in 1..count => Dates[1] = f.start
    BY <1>7, <2>1
  <2> QED
    BY <2>2, <2>3
<1> HIDE DEF Following
<1>12. \A i \in 1..count : Dates[i] = f.start + step * (i - 1)
  <2>1. \A i \in 1..count : i = 1 => Dates[i] = f.start + step * (i - 1)
    BY <1>3, <1>11
  <2>2. \A i \in 1..count : i = 2 => Dates[i] = f.start + step * (i - 1)
    BY <1>3, <1>11, <2>1
  <2>3. \A i \in 1..count : i = 3 => Dates[i] = f.start + step * (i - 1)
    BY <1>3, <1>11, <2>2
  <2>4. \A i \in 1..count : i = 4 => Dates[i] = f.start + step * (i - 1)
    BY <1>3, <1>11, <2>3
  <2>5. \A i \in 1..count : i = 5 => Dates[i] = f.start + step * (i - 1)
    BY <1>3, <1>11, <2>4
  <2>6. \A i \in 1..count : i = 6 => Dates[i] = f.start + step * (i - 1)
    BY <1>3, <1>11, <2>5
  <2> QED
    BY <2>1, <2>2, <2>3, <2>4, <2>5, <2>6
<1>13. Dates = times
  BY <1>3, <1>10, <1>12
<1> QED
  BY <1>1, <1>2, <1>13 DEF times

LEMMA PreviewRight ==
  ASSUME NEW f, Matches(f), NEW weeks \in Weeks
  PROVE  /\ ShownDates(f, weeks) # <<>>
         /\ ShownDates(f, weeks) = OnTime(f, Len(ShownDates(f, weeks)))
         /\ Len(ShownDates(f, weeks)) \in Nat
<1> DEFINE all == EstimateIssueCount(f, weeks)
           count == IF all < 6 THEN all ELSE 6
<1>1. weeks \in {1, 4, 12, 24}
  BY DEF Weeks
<1>2. EmailsPerWeek(f) \in {28, 4, 2}
  <2>1. CASE f.cadence = "weekly"
    <3>1. f.days = {Weekday(f.start)} /\ Cardinality(f.days) = 1
      BY <2>1, FS_Singleton DEF Matches
    <3> QED
      BY <2>1, <3>1 DEF EmailsPerWeek
  <2>2. CASE f.cadence # "weekly"
    BY <2>2 DEF EmailsPerWeek, Matches
  <2> QED
    BY <2>1, <2>2
<1>3. all \in Nat \ {0}
  <2> DEFINE e == EmailsPerWeek(f)
             rounded == (weeks * e + 2) \div 4
  <2>1. e \in {28, 4, 2}
    BY <1>2
  <2> HIDE DEF e
  <2>2. rounded \in Nat
    BY <1>1, <2>1
  <2>3. all = IF rounded = 0 THEN 1 ELSE rounded
    BY DEF EstimateIssueCount, e
  <2> HIDE DEF rounded, all
  <2> QED
    BY <2>2, <2>3
<1>4. count \in 1..6
  BY <1>3
<1>5. ShownDates(f, weeks) = OnTime(f, count)
  BY <1>4, PreviewIs DEF ShownDates
<1> HIDE DEF count
<1>6. /\ OnTime(f, count) \in Seq(Nat) /\ Len(OnTime(f, count)) = count
  <2> DEFINE times == [i \in 1..count |-> f.start + CadenceStep(f.cadence) * (i - 1)]
  <2>1. CadenceStep(f.cadence) \in Nat /\ f.start \in Nat
    BY DEF Matches, CadenceStep
  <2>2. \A i \in 1..count : f.start + CadenceStep(f.cadence) * (i - 1) \in Nat
    BY <1>4, <2>1
  <2>3. times \in [1..count -> Nat] /\ count \in Nat
    BY <1>4, <2>2
  <2>4. times \in Seq(Nat)
    BY <2>3, SeqDef
  <2>5. Len(times) \in Nat /\ DOMAIN times = 1..Len(times) /\ DOMAIN times = 1..count
    BY <2>4, LenProperties
  <2>6. Len(times) = count
    BY <1>4, <2>5
  <2> QED
    BY <2>4, <2>6 DEF OnTime
<1>7. OnTime(f, count) # <<>>
  BY <1>4, <1>6
<1> QED
  BY <1>4, <1>5, <1>6, <1>7

(* The schedule is that of the cadence, or a day later.                     *)
LEMMA ScheduleIs ==
  ASSUME NEW f, Matches(f), NEW count \in Nat, NEW now \in Int, NEW late,
         late = (IF now < f.start THEN 0 ELSE 1)
  PROVE  IssueSendTimes(f, count, now) = [i \in DOMAIN OnTime(f, count) |-> OnTime(f, count)[i] + late]
<1> DEFINE step == CadenceStep(f.cadence)
<1>1. step \in Nat /\ f.start \in Nat
  BY DEF Matches, CadenceStep
<1>2. FirstSend(f, now) = f.start + late
  BY <1>1 DEF FirstSend
<1>3. DOMAIN OnTime(f, count) = 1..count
      /\ \A i \in 1..count : OnTime(f, count)[i] = f.start + step * (i - 1)
  BY DEF OnTime
<1>4. IssueSendTimes(f, count, now) = [i \in 1..count |-> (f.start + late) + step * (i - 1)]
  BY <1>2 DEF IssueSendTimes
<1> HIDE DEF step
<1>5. ASSUME NEW i \in 1..count
      PROVE  (f.start + late) + step * (i - 1) = OnTime(f, count)[i] + late
  <2>1. step * (i - 1) \in Int /\ late \in Nat
    BY <1>1
  <2> DEFINE gap == step * (i - 1)
  <2>2. gap \in Int /\ OnTime(f, count)[i] = f.start + gap
    BY <1>3, <2>1
  <2> HIDE DEF gap
  <2>3. (f.start + late) + gap = (f.start + gap) + late
    BY <1>1, <2>1, <2>2
  <2> QED
    BY <2>2, <2>3 DEF gap
<1> QED
  BY <1>3, <1>4, <1>5


(* The start is a date that was picked, or none. *)
StartTyped == where = "form" => form.start \in StartDays \union {NoDate}

LEMMA StartInit == Init => StartTyped
<1> SUFFICES ASSUME Init PROVE StartTyped
  OBVIOUS
<1>1. PICK d \in StartDays : form = [Blank EXCEPT !.start = d]
  BY DEF Init, FormInit
<1> QED
  BY <1>1 DEF StartTyped, Blank

LEMMA StartFits == ASSUME StepsValid, StartTyped, where = "form", FormNext PROVE StartTyped'
<1>1. form = [field \in FormFields |-> form[field]] /\ form.start \in StartDays \union {NoDate}
  BY DEF StepsValid, IsForm, StartTyped
<1>2. CASE BasicsStep \/ AddSource \/ RemoveSource
  BY <1>1, <1>2 DEF BasicsStep, AddSource, RemoveSource, UpdateField, FormFields, StartTyped
<1>3. CASE ScheduleStep
  BY <1>1, <1>3 DEF ScheduleStep, UpdateField, FormFields, StartTyped
<1>4. ASSUME NEW d \in Toggles, ToggleDay(d) PROVE StartTyped'
  <2> DEFINE days == IF d \in form.days THEN form.days \ {d} ELSE form.days \union {d}
  <2>1. form' = [form EXCEPT !.days = days]
    BY <1>4 DEF ToggleDay, UpdateField
  <2> HIDE DEF days
  <2> QED
    BY <1>1, <2>1 DEF FormFields, StartTyped
<1>5. CASE BriefAnswers \/ \E step \in 1..4 : GoToStep(step)
  BY <1>1, <1>5 DEF BriefAnswers, GoToStep, FormFields, StartTyped
<1>6. CASE OpenSeries
  BY <1>6 DEF OpenSeries, StartTyped
<1>7. CASE ExtractBrief \/ Submit \/ CreateFails \/ CreateSeries \/ Created \/ AttachSource
  <2>1. UNCHANGED form
    BY <1>7 DEF ExtractBrief, Submit, CreateFails, CreateSeries, Created, AttachSource
  <2> QED
    BY <1>1, <2>1 DEF StartTyped
<1> QED
  BY <1>2, <1>3, <1>4, <1>5, <1>6, <1>7 DEF FormNext, SubmissionGoesOn

LEMMA StartStep == StepsValid /\ StartTyped /\ [Next]_vars => StartTyped'
<1> SUFFICES ASSUME StepsValid, StartTyped, [Next]_vars PROVE StartTyped'
  OBVIOUS
<1>1. CASE FormStep
  <2>1. CASE where = "form"
    BY <1>1, <2>1, StartFits DEF FormStep
  <2>2. CASE where # "form"
    <3>1. where' # "form"
      BY <1>1, <2>2, Zenon DEF FormStep, FormNext, BasicsStep, AddSource, RemoveSource, ScheduleStep, ToggleDay,
        GoToStep, UpdateField, Filling, KeepsRest, ExtractBrief, BriefAnswers, Submit, SubmissionGoesOn,
        Created, CreateSeries, AttachSource, OpenSeries, CreateFails
    <3> QED
      BY <3>1 DEF StartTyped
  <2> QED
    BY <2>1, <2>2
<1>2. CASE ~FormStep
  <2>1. UNCHANGED form /\ (UNCHANGED where \/ where' = "away")
    BY <1>2, PageFits
  <2> QED
    BY <2>1 DEF StartTyped
<1> QED
  BY <1>1, <1>2

(* The preview agrees with the schedule for every start and every weekday:   *)
(* "Next sends" and issue_send_times count the same steps where the weekdays *)
(* leave the start's own, or every day is one, and differ by one day, all of *)
(* them, when the start is not to come any more as the plan is made.        *)
THEOREM PreviewAgrees == Spec => []PreviewIsSchedule
<1>1. Init => StepsValid /\ StartTyped
  BY StepsValidInit, StartInit
<1>2. StepsValid /\ StartTyped /\ [Next]_vars => (StepsValid /\ StartTyped)'
  BY StepsValidStep, StartStep
<1>3. StartTyped => PreviewIsSchedule
  <2> SUFFICES ASSUME StartTyped, where = "form", form.start # NoDate,
                      \/ form.cadence = "daily"
                      \/ form.cadence \in {"weekly", "biweekly"} /\ form.days = {Weekday(form.start)},
                      NEW weeks \in Weeks, NEW now \in 0..(form.start + 1)
               PROVE  LET shown == ShownDates(form, weeks)
                          late == IF now < form.start THEN 0 ELSE 1
                      IN /\ shown # <<>>
                         /\ IssueSendTimes(form, Len(shown), now) = [i \in DOMAIN shown |-> shown[i] + late]
    BY DEF PreviewIsSchedule
  <2>1. Matches(form)
    BY SeriesFormAssumption DEF StartTyped, Matches
  <2> DEFINE shown == ShownDates(form, weeks)
  <2>2. shown # <<>> /\ shown = OnTime(form, Len(shown)) /\ Len(shown) \in Nat
    BY <2>1, PreviewRight
  <2>3. now \in Int
    BY <2>1 DEF Matches
  <2> HIDE DEF shown
  <2>4. IssueSendTimes(form, Len(shown), now)
          = [i \in DOMAIN OnTime(form, Len(shown)) |->
               OnTime(form, Len(shown))[i] + (IF now < form.start THEN 0 ELSE 1)]
    BY <2>1, <2>2, <2>3, ScheduleIs
  <2> QED
    BY <2>2, <2>4 DEF shown
<1> QED
  BY <1>1, <1>2, <1>3, PTL DEF Spec

-----------------------------------------------------------------------------
(* What the page, the server and the handlers hold, and what a handler has   *)
(* left to ask: opening reads everything, and any call that changes rows is *)
(* followed by one that reads them.                                         *)
Reads == {"getIssues", "getSources", "getPlan"}
IssueOps == {"createIssue", "generate"}
SourceOps == {"addSource", "deleteSource"}
Changes == IssueOps \union SourceOps
Ops == Reads \union Changes \union
       {"generatePlan", "pause", "resume", "update", "context", "test", "deleteSeries"}
Calls == {c \in [op : Ops, id : Nat] : /\ c.op = "generate" => c.id \in IssueIds
                                       /\ c.op = "deleteSource" => c.id \in SourceIds}
ReadBack(op) == IF op \in IssueOps THEN "getIssues" ELSE "getSources"
ReadsBack(calls) ==
  /\ calls \in Seq(Calls) /\ calls # <<>>
  /\ \A k \in 1..Len(calls) :
       calls[k].op \in Changes => k < Len(calls) /\ calls[k + 1].op = ReadBack(calls[k].op)
Opening ==
  {<<Call("getSeries", 0), Call("getIssues", 0), Call("getSources", 0), Call("getPlan", 0)>>,
   <<Call("getIssues", 0), Call("getSources", 0), Call("getPlan", 0)>>,
   <<Call("getSources", 0), Call("getPlan", 0)>>, <<Call("getPlan", 0)>>}

Runs(q) == q.handler # "none"
First(q) == Head(q.calls).op
IsMap(f) == f = [i \in Items |-> f[i]]
RequestShaped(q) ==
  /\ q = [field \in {"handler", "calls", "stage", "ok", "got"} |-> q[field]]
  /\ IF Runs(q) THEN q.stage \in {"asked", "answered"} ELSE q.stage = "none"
  /\ q.handler = "open" => q.calls \in Opening
  /\ Runs(q) /\ q.handler # "open" => ReadsBack(q.calls)
  /\ IsMap(q.got.items) /\ q.got.modules \in Nat
Shaped ==
  /\ server = [field \in {"plan", "modules", "items", "paused", "deleted"} |-> server[field]]
  /\ page = [field \in {"view", "plan", "modules", "items", "paused", "retrying"} |-> page[field]]
  /\ IsMap(server.items) /\ server.modules \in 0..MaxIssues
  /\ IsMap(page.items) /\ page.modules \in Nat
  /\ req = [r \in Requests |-> req[r]]
  /\ \A r \in Requests : RequestShaped(req[r])
  /\ made \in Nat /\ attached \in Nat /\ faults \in Nat
  /\ work \in {"none", "plan", "materialize", "lost"}
  /\ work = "plan" => server.plan = "generating"
  /\ work = "materialize" => server.plan = "ready"

(* While the form is shown nothing runs for the page, which is not open yet. *)
NoIssues == \A i \in IssueIds : server.items[i] = "none"
Early ==
  /\ where = "form" => /\ page = Closed /\ \A r \in Requests : ~Runs(req[r])
                       /\ NoIssues /\ server.paused = FALSE /\ ~server.deleted
  /\ where # "form" => submission.stage = "none"
  /\ where = "page" => \A r \in Requests : req[r].handler \in AllButtons => page.view # "loading"

(* What missed records. *)
Alone ==
  ~missed => /\ \A r, s \in Requests : Runs(req[r]) /\ Runs(req[s]) => r = s
             /\ work \in {"plan", "materialize"} => NoIssues

(* A list is right when it is that of the server s, or when it keeps a poll  *)
(* going: it has a busy item, or there are no issues although the plan has   *)
(* modules.                                                                 *)
IssuesRight(s, items) ==
  \/ \E i \in IssueIds : items[i] = "busy"
  \/ (\A i \in IssueIds : items[i] = "none") /\ s.plan = "ready" /\ s.modules > 0
  \/ \A i \in IssueIds : items[i] = s.items[i]
SourcesRight(s, items) ==
  \/ \E i \in SourceIds : items[i] = "busy"
  \/ \A i \in SourceIds : items[i] = s.items[i]
PlanRight(s, p) == p.plan = "generating" \/ (p.plan = s.plan /\ p.modules = s.modules)

(* What is not right is due: a handler reads it, or has changed it and will. *)
Done(q) == q.stage = "answered" /\ q.ok
IssuesDue(q) ==
  Runs(q) /\ (First(q) = "getIssues" \/ (Done(q) /\ First(q) \in IssueOps))
SourcesDue(q) ==
  Runs(q) /\ \/ First(q) = "getSources"
             \/ Done(q) /\ First(q) \in SourceOps
             \/ q.handler = "open" /\ First(q) = "getIssues"
PlanDue(q) ==
  Runs(q) /\ \/ First(q) = "getPlan"
             \/ Done(q) /\ First(q) = "generatePlan"
             \/ q.handler = "open" /\ First(q) \in {"getIssues", "getSources"}
PausedDue(q) == Runs(q) /\ Done(q) /\ First(q) \in {"pause", "resume"}
AnswerRight(s, q) ==
  Runs(q) /\ q.stage = "answered" =>
    /\ ~q.ok => First(q) \in Changes
    /\ q.ok /\ First(q) = "getIssues" => IssuesRight(s, q.got.items)
    /\ q.ok /\ First(q) = "getSources" => SourcesRight(s, q.got.items)
    /\ q.ok /\ First(q) = "getPlan" => PlanRight(s, q.got)
    /\ q.ok /\ First(q) \in {"getSeries", "update"} => q.got.paused = s.paused
    /\ q.ok /\ First(q) \in {"pause", "resume"} => s.paused = (First(q) = "pause")
Ends(q) == Runs(q) /\ Done(q) /\ First(q) = "deleteSeries"
Now(s, p, rq) ==
  /\ s.deleted => \E r \in Requests : Ends(rq[r])
  /\ \A r \in Requests : AnswerRight(s, rq[r])
  /\ IssuesRight(s, p.items) \/ \E r \in Requests : IssuesDue(rq[r])
  /\ p.view = "loading" \/ SourcesRight(s, p.items) \/ \E r \in Requests : SourcesDue(rq[r])
  /\ p.view = "loading" \/ PlanRight(s, p) \/ \E r \in Requests : PlanDue(rq[r])
  /\ p.paused = s.paused \/ \E r \in Requests : PausedDue(rq[r])
Current == where = "page" /\ faults = 0 /\ ~missed => Now(server, page, req)

(* At rest nothing is due, and what kept a poll going would keep it going.  *)
LEMMA CurrentShown == Shaped /\ Alone /\ Current => PageIsCurrent
<1> SUFFICES ASSUME Shaped, Alone, Current, where = "page", page.view = "open", Active = {},
                    ~PlanPolls, ~BusyPolls, faults = 0, ~missed
             PROVE  /\ work \in {"none", "lost"} \/ page.modules = 0
                    /\ page.items = server.items
                    /\ page.plan = server.plan /\ page.paused = server.paused
  BY DEF PageIsCurrent
<1>1. \A r \in Requests : ~Runs(req[r])
  BY DEF Active, Runs
<1>2. /\ IssuesRight(server, page.items) /\ SourcesRight(server, page.items)
      /\ PlanRight(server, page) /\ page.paused = server.paused
  BY <1>1 DEF Current, Now, IssuesDue, SourcesDue, PlanDue, PausedDue
<1>3. page.plan = server.plan /\ page.modules = server.modules /\ page.plan # "generating"
  BY <1>2 DEF PlanRight, PlanPolls
<1>4. \A i \in IssueIds : page.items[i] # "busy"
  BY DEF BusyPolls, IssuesBusy, Shown
<1>5. \A i \in SourceIds : page.items[i] = server.items[i]
  BY <1>2 DEF SourcesRight, BusyPolls, SourcesBusy, Shown
<1>6. \A i \in IssueIds : page.items[i] = server.items[i]
  BY <1>2, <1>3, <1>4 DEF IssuesRight, PlanPolls, WaitingForIssues
<1>7. page.items = server.items
  BY <1>5, <1>6 DEF Shaped, IsMap, Items
<1>8. work \in {"none", "lost"} \/ page.modules = 0
  <2>1. CASE work = "plan"
    BY <1>3, <2>1 DEF Shaped
  <2>2. CASE work = "materialize"
    BY <1>3, <1>6, <2>2 DEF Shaped, Alone, NoIssues, PlanPolls, WaitingForIssues
  <2> QED
    BY <2>1, <2>2 DEF Shaped
<1> QED
  BY <1>2, <1>3, <1>7, <1>8

-----------------------------------------------------------------------------
(* The calls of the handlers. *)
LEMMA ItemsTyped ==
  /\ MaxIssues \in Nat /\ MaxSources \in Nat
  /\ \A i \in IssueIds : i \in Nat /\ i \in Items /\ i \notin SourceIds /\ 1 <= i /\ i <= MaxIssues
  /\ \A i \in SourceIds : i \in Nat /\ i \in Items /\ i \notin IssueIds
  /\ \A i \in Items : i \in IssueIds \/ i \in SourceIds
BY SeriesFormAssumption, SeriesPageAssumption DEF IssueIds, SourceIds, Items

LEMMA OneCall ==
  ASSUME NEW op \in Ops \ Changes
  PROVE  ReadsBack(<<Call(op, 0)>>)
<1>1. Call(op, 0) \in Calls
  BY DEF Call, Calls, Ops, Changes, IssueOps, SourceOps
<1>2. Call(op, 0).op = op
  BY DEF Call
<1> QED
  BY <1>1, <1>2 DEF ReadsBack

LEMMA TwoCalls ==
  ASSUME NEW c \in Calls, NEW op \in Reads, c.op \in Changes => op = ReadBack(c.op)
  PROVE  ReadsBack(<<c, Call(op, 0)>>)
<1>1. Call(op, 0) \in Calls /\ Call(op, 0).op = op /\ op \notin Changes
  BY DEF Call, Calls, Ops, Reads, Changes, IssueOps, SourceOps
<1> QED
  BY <1>1 DEF ReadsBack

LEMMA BusyCalls ==
  ASSUME NEW b \in BOOLEAN, NEW c \in BOOLEAN, b \/ c
  PROVE  ReadsBack((IF b THEN <<Call("getIssues", 0)>> ELSE <<>>)
                   \o (IF c THEN <<Call("getSources", 0)>> ELSE <<>>))
<1> DEFINE gi == Call("getIssues", 0)
           gs == Call("getSources", 0)
<1>1. gi \in Calls
  BY DEF Call, Calls, Ops, Reads
<1>2. <<gi>> \o <<gs>> = <<gi, gs>> /\ <<gi>> \o <<>> = <<gi>> /\ <<>> \o <<gs>> = <<gs>>
  <2> HIDE DEF gi, gs
  <2>1. <<gi>> \in Seq({gi, gs}) /\ <<gs>> \in Seq({gi, gs}) /\ <<gi, gs>> \in Seq({gi, gs})
    OBVIOUS
  <2>2. <<gi>> \o <<>> = <<gi>> /\ <<>> \o <<gs>> = <<gs>>
    BY <2>1, ConcatEmptySeq
  <2>3. /\ <<gi>> \o <<gs>> \in Seq({gi, gs}) /\ Len(<<gi>> \o <<gs>>) = 2
        /\ (<<gi>> \o <<gs>>)[1] = gi /\ (<<gi>> \o <<gs>>)[2] = gs
    BY <2>1, ConcatProperties
  <2> DEFINE both == <<gi>> \o <<gs>>
  <2>4. Len(<<gi, gs>>) = 2 /\ <<gi, gs>>[1] = gi /\ <<gi, gs>>[2] = gs
    OBVIOUS
  <2>5. both \in Seq({gi, gs}) /\ Len(both) = 2 /\ both[1] = gi /\ both[2] = gs
    BY <2>3
  <2> HIDE DEF both
  <2>6. \A i \in 1..Len(both) : both[i] = <<gi, gs>>[i]
    BY <2>4, <2>5
  <2>7. both = <<gi, gs>>
    BY <2>1, <2>4, <2>5, <2>6, SeqEqual
  <2> QED
    BY <2>2, <2>7 DEF both
<1>3. ReadsBack(<<gi, gs>>)
  BY <1>1, TwoCalls DEF Reads, Changes, IssueOps, SourceOps, Call
<1>4. ReadsBack(<<gi>>) /\ ReadsBack(<<gs>>)
  BY OneCall DEF Ops, Reads, Changes, IssueOps, SourceOps
<1> QED
  BY <1>2, <1>3, <1>4

LEMMA RetryCalls ==
  ASSUME NEW i \in IssueIds
  PROVE  ReadsBack(handleRetryIssue(i))
<1>1. Call("generate", i) \in Calls /\ Call("generate", i).op = "generate"
  BY ItemsTyped DEF Call, Calls, Ops, Changes, IssueOps
<1> QED
  BY <1>1, TwoCalls DEF handleRetryIssue, Reads, ReadBack, IssueOps

LEMMA RetryAllCalls ==
  ASSUME NEW calls \in handleRetryFailedIssues
  PROVE  ReadsBack(calls)
<1> DEFINE failed == Shown(IssueIds, "failed")
           n == Cardinality(failed)
<1>1. failed \subseteq IssueIds /\ n \in Nat
  <2>1. IsFiniteSet(IssueIds)
    BY ItemsTyped, FS_Interval DEF IssueIds
  <2> QED
    BY <2>1, FS_Subset, FS_CardinalityType DEF Shown
<1>2. PICK ids \in [1..n -> failed] :
        /\ ids # <<>>
        /\ calls = [k \in 1..2 * n |-> handleRetryIssue(ids[(k + 1) \div 2])[2 - (k % 2)]]
  BY DEF handleRetryFailedIssues
<1>3. n > 0
  BY <1>1, <1>2
<1> HIDE DEF failed, n
<1>4. ASSUME NEW k \in 1..2 * n
      PROVE  /\ calls[k] \in Calls
             /\ calls[k].op \in Changes => /\ k < 2 * n /\ k + 1 \in 1..2 * n
                                           /\ (k + 1) % 2 = 0 /\ calls[k].op = "generate"
             /\ k % 2 = 0 => calls[k].op = "getIssues"
  <2>1. /\ (k + 1) \div 2 \in 1..n /\ k % 2 \in {0, 1} /\ (k % 2 = 1 => k < 2 * n)
        /\ (k % 2 = 1 => (k + 1) % 2 = 0)
    BY <1>1, <1>3
  <2>2. PICK i \in IssueIds : ids[(k + 1) \div 2] = i
    BY <1>1, <1>2, <2>1
  <2>3. calls[k] = IF k % 2 = 1 THEN Call("generate", i) ELSE Call("getIssues", 0)
    BY <1>2, <2>1, <2>2 DEF handleRetryIssue
  <2>4. Call("generate", i) \in Calls /\ Call("getIssues", 0) \in Calls
    BY ItemsTyped DEF Call, Calls, Ops, Changes, IssueOps, Reads
  <2> QED
    BY <1>1, <2>1, <2>3, <2>4 DEF Call, Changes, IssueOps, SourceOps
<1>5. calls \in Seq(Calls) /\ Len(calls) = 2 * n /\ calls # <<>>
  <2>1. 2 * n \in Nat /\ 2 * n > 0 /\ DOMAIN calls = 1..2 * n
    BY <1>1, <1>2, <1>3
  <2>2. calls \in [1..2 * n -> Calls]
    BY <1>2, <1>4
  <2>3. calls \in Seq(Calls)
    BY <2>1, <2>2, SeqDef
  <2>4. Len(calls) \in Nat /\ DOMAIN calls = 1..Len(calls)
    BY <2>3, LenProperties
  <2>5. Len(calls) = 2 * n
    BY <2>1, <2>4
  <2> QED
    BY <2>1, <2>3, <2>5
<1> QED
  BY <1>4, <1>5 DEF ReadsBack, ReadBack, IssueOps

LEMMA CallsReadBack ==
  ASSUME Shaped, NEW h \in Buttons, NEW calls \in CallsOf(h)
  PROVE  ReadsBack(calls)
<1> USE DEF Ops, Reads, Changes, IssueOps, SourceOps
<1>1. CASE h \in {"generatePlan", "pause", "settings", "context", "test", "deleteSeries"}
  BY <1>1, OneCall DEF CallsOf, handleGeneratePlan, handlePauseResume, handleSaveSettings,
                       handleContextPreview, handleSendTest, confirmDeleteSeries
<1>2. CASE h = "createIssue"
  <2>1. Call("createIssue", 0) \in Calls /\ Call("createIssue", 0).op = "createIssue"
    BY DEF Call, Calls
  <2> QED
    BY <1>2, <2>1, TwoCalls DEF CallsOf, handleCreateIssue, ReadBack
<1>3. CASE h = "addSource"
  <2>1. Call("addSource", 0) \in Calls /\ Call("addSource", 0).op = "addSource"
    BY DEF Call, Calls
  <2> QED
    BY <1>3, <2>1, TwoCalls DEF CallsOf, handleAddSource, ReadBack
<1>4. CASE h = "deleteSource"
  <2>1. PICK i \in SourceIds : calls = <<Call("deleteSource", i), Call("getSources", 0)>>
    BY <1>4 DEF CallsOf, confirmDeleteSource, SourcesTab
  <2>2. Call("deleteSource", i) \in Calls /\ Call("deleteSource", i).op = "deleteSource"
    BY ItemsTyped DEF Call, Calls
  <2> QED
    BY <2>1, <2>2, TwoCalls DEF ReadBack
<1>5. CASE h = "retry"
  BY <1>5, RetryCalls DEF CallsOf, Shown
<1>6. CASE h = "retryAll"
  BY <1>6, RetryAllCalls DEF CallsOf
<1> QED
  BY <1>1, <1>2, <1>3, <1>4, <1>5, <1>6, SeriesPageAssumption DEF AllButtons

(* A handler starts to ask. *)
Begins(r, h, calls) ==
  /\ where = "page" /\ ~Runs(req[r]) /\ h # "none"
  /\ req' = [req EXCEPT ![r] = [Idle EXCEPT !.handler = h, !.calls = calls, !.stage = "asked"]]
  /\ UNCHANGED <<where, submission, made, attached, faults, server, work>>
  /\ page' = page \/ \E i : page' = [page EXCEPT !.retrying = i]
  /\ IF h = "open" THEN calls \in Opening ELSE ReadsBack(calls)
  /\ h \in AllButtons => page.view = "open"

LEMMA BeginsFits ==
  ASSUME Shaped, NEW r \in Requests, Effects(r) \/ \E h \in Buttons : Click(r, h)
  PROVE  \E h, calls : Begins(r, h, calls)
<1> USE DEF NotServer, formVars, Begin, Runs
<1>1. CASE OpenPage(r)
  <2> DEFINE calls == <<Call("getSeries", 0), Call("getIssues", 0), Call("getSources", 0), Call("getPlan", 0)>>
  <2>1. calls \in Opening
    BY DEF Opening
  <2>2. req[r].handler = "none"
    BY <1>1 DEF OpenPage, Active
  <2>3. Begins(r, "open", calls)
    BY <1>1, <2>1, <2>2 DEF OpenPage, Begins, AllButtons
  <2> QED
    BY <2>3
<1>2. CASE PlanPoll(r)
  <2> DEFINE calls == <<Call("getPlan", 0), Call("getIssues", 0)>>
  <2>1. ReadsBack(calls)
    <3>1. Call("getPlan", 0) \in Calls /\ Call("getPlan", 0).op \notin Changes
      BY DEF Call, Calls, Ops, Reads, Changes, IssueOps, SourceOps
    <3> QED
      BY <3>1, TwoCalls DEF Reads
  <2>2. Begins(r, "planPoll", calls)
    BY <1>2, <2>1 DEF PlanPoll, PlanPolls, Begins, AllButtons
  <2> QED
    BY <2>2
<1>3. CASE BusyPoll(r)
  <2> DEFINE calls == (IF IssuesBusy THEN <<Call("getIssues", 0)>> ELSE <<>>)
                      \o (IF SourcesBusy THEN <<Call("getSources", 0)>> ELSE <<>>)
  <2>1. ReadsBack(calls)
    <3>1. IssuesBusy \/ SourcesBusy
      BY <1>3 DEF BusyPoll, BusyPolls
    <3>2. IssuesBusy \in BOOLEAN /\ SourcesBusy \in BOOLEAN
      BY DEF IssuesBusy, SourcesBusy
    <3> QED
      BY <3>1, <3>2, BusyCalls
  <2>2. Begins(r, "busyPoll", calls)
    <3> HIDE DEF calls
    <3>1. Begin(r, "busyPoll", calls) /\ BusyPolls /\ req[r].handler = "none"
          /\ UNCHANGED <<page, owed, clicks>> /\ NotServer
      BY <1>3, Zenon DEF BusyPoll, calls
    <3> QED
      BY <2>1, <3>1 DEF BusyPolls, Begins, AllButtons
  <2> QED
    BY <2>2
<1>4. ASSUME NEW h \in Buttons, Click(r, h)
      PROVE  \E calls : Begins(r, h, calls)
  <2>1. PICK calls \in CallsOf(h) :
          /\ Begin(r, h, calls)
          /\ page' = IF h \in {"retry", "retryAll"} THEN [page EXCEPT !.retrying = Head(calls).id] ELSE page
    BY <1>4 DEF Click
  <2>2. ReadsBack(calls) /\ h \in AllButtons
    BY CallsReadBack, SeriesPageAssumption
  <2>3. page' = page \/ \E i : page' = [page EXCEPT !.retrying = i]
    BY <2>1
  <2>4. where = "page" /\ page.view = "open" /\ req[r].handler = "none" /\ NotServer
    BY <1>4 DEF Click
  <2>5. Begins(r, h, calls)
    BY <2>1, <2>2, <2>3, <2>4 DEF Begins, AllButtons
  <2> QED
    BY <2>5
<1> QED
  BY <1>1, <1>2, <1>3, <1>4 DEF Effects

-----------------------------------------------------------------------------
(* What is left of a handler's calls. *)
LEMMA TailReadsBack ==
  ASSUME NEW calls, ReadsBack(calls)
  PROVE  /\ Head(calls) \in Calls /\ Head(calls) = calls[1] /\ Tail(calls) \in Seq(Calls)
         /\ Tail(calls) # <<>> => ReadsBack(Tail(calls)) /\ Head(Tail(calls)) = calls[2]
         /\ Head(calls).op \in Changes =>
              Tail(calls) # <<>> /\ Head(Tail(calls)).op = ReadBack(Head(calls).op)
<1>1. calls \in Seq(Calls) /\ calls # <<>>
  BY DEF ReadsBack
<1>2. /\ Head(calls) \in Calls /\ Tail(calls) \in Seq(Calls) /\ Head(calls) = calls[1]
      /\ Len(Tail(calls)) = Len(calls) - 1 /\ Len(calls) \in Nat /\ Len(calls) >= 1
      /\ \A k \in 1..Len(Tail(calls)) : Tail(calls)[k] = calls[k + 1]
  BY <1>1, HeadTailProperties, LenProperties, EmptySeq
<1>3. Tail(calls) = <<>> <=> Len(calls) = 1
  BY <1>2, EmptySeq
<1>4. Tail(calls) # <<>> => Head(Tail(calls)) = calls[2] /\ Len(calls) >= 2
  BY <1>2, <1>3
<1>5. ASSUME NEW k \in 1..Len(Tail(calls)), Tail(calls)[k].op \in Changes
      PROVE  k < Len(Tail(calls)) /\ Tail(calls)[k + 1].op = ReadBack(Tail(calls)[k].op)
  <2>1. k + 1 \in 1..Len(calls) /\ Tail(calls)[k] = calls[k + 1]
    BY <1>2
  <2>2. k + 1 < Len(calls) /\ calls[k + 2].op = ReadBack(calls[k + 1].op)
    BY <1>5, <2>1 DEF ReadsBack
  <2>3. k + 1 \in 1..Len(Tail(calls))
    BY <1>2, <2>2
  <2>4. Tail(calls)[k + 1] = calls[k + 2]
    BY <1>2, <2>3
  <2> QED
    BY <1>2, <2>1, <2>2, <2>4
<1>6. Head(calls).op \in Changes => 1 < Len(calls) /\ calls[2].op = ReadBack(calls[1].op)
  BY <1>2 DEF ReadsBack
<1> QED
  BY <1>1, <1>2, <1>3, <1>4, <1>5, <1>6 DEF ReadsBack

LEMMA OpeningTail ==
  ASSUME NEW calls \in Opening
  PROVE  /\ Head(calls).op \in Reads \union {"getSeries"}
         /\ IF Head(calls).op = "getPlan" THEN Tail(calls) = <<>>
            ELSE Tail(calls) # <<>> /\ Tail(calls) \in Opening
         /\ Head(calls).op = "getSeries" => Head(Tail(calls)).op = "getIssues"
         /\ Head(calls).op = "getIssues" => Head(Tail(calls)).op = "getSources"
         /\ Head(calls).op = "getSources" => Head(Tail(calls)).op = "getPlan"
<1> DEFINE gr == Call("getSeries", 0)
           gi == Call("getIssues", 0)
           gs == Call("getSources", 0)
           gp == Call("getPlan", 0)
<1>1. gr.op = "getSeries" /\ gi.op = "getIssues" /\ gs.op = "getSources" /\ gp.op = "getPlan"
  BY DEF Call
<1>2. calls \in {<<gr, gi, gs, gp>>, <<gi, gs, gp>>, <<gs, gp>>, <<gp>>}
  BY DEF Opening
<1>3. {<<gi, gs, gp>>, <<gs, gp>>, <<gp>>} \subseteq Opening
  BY DEF Opening
<1> HIDE DEF gr, gi, gs, gp
<1>4. CASE calls = <<gr, gi, gs, gp>>
  <2>1. Head(calls) = gr /\ Tail(calls) = <<gi, gs, gp>>
    BY <1>4
  <2>2. <<gi, gs, gp>> # <<>> /\ Head(<<gi, gs, gp>>) = gi
    OBVIOUS
  <2>3. Tail(calls) # <<>> /\ Tail(calls) \in Opening /\ Head(Tail(calls)) = gi
    BY <1>3, <2>1, <2>2
  <2> QED
    BY <1>1, <2>1, <2>3 DEF Reads
<1>5. CASE calls = <<gi, gs, gp>>
  <2>1. Head(calls) = gi /\ Tail(calls) = <<gs, gp>>
    BY <1>5
  <2>2. <<gs, gp>> # <<>> /\ Head(<<gs, gp>>) = gs
    OBVIOUS
  <2>3. Tail(calls) # <<>> /\ Tail(calls) \in Opening /\ Head(Tail(calls)) = gs
    BY <1>3, <2>1, <2>2
  <2> QED
    BY <1>1, <2>1, <2>3 DEF Reads
<1>6. CASE calls = <<gs, gp>>
  <2>1. Head(calls) = gs /\ Tail(calls) = <<gp>>
    BY <1>6
  <2>2. <<gp>> # <<>> /\ Head(<<gp>>) = gp
    OBVIOUS
  <2>3. Tail(calls) # <<>> /\ Tail(calls) \in Opening /\ Head(Tail(calls)) = gp
    BY <1>3, <2>1, <2>2
  <2> QED
    BY <1>1, <2>1, <2>3 DEF Reads
<1>7. CASE calls = <<gp>>
  <2>1. Head(calls) = gp /\ Tail(calls) = <<>>
    BY <1>7
  <2> QED
    BY <1>1, <2>1 DEF Reads
<1> QED
  BY <1>2, <1>4, <1>5, <1>6, <1>7

LEMMA RequestFacts ==
  ASSUME NEW q, RequestShaped(q), Runs(q)
  PROVE  /\ First(q) \in Ops \union {"getSeries"}
         /\ q.handler = "open" <=> q.calls \in Opening /\ q.handler = "open"
         /\ First(q) = "getSeries" => q.handler = "open"
         /\ q.handler = "open" => First(q) \in Reads \union {"getSeries"}
         /\ First(q) \in Changes => /\ Tail(q.calls) # <<>>
                                    /\ Head(Tail(q.calls)).op = ReadBack(First(q))
         /\ First(q) = "generate" => Head(q.calls).id \in IssueIds
         /\ First(q) = "deleteSource" => Head(q.calls).id \in SourceIds
<1>1. CASE q.handler = "open"
  <2>1. First(q) \in Reads \union {"getSeries"} /\ q.calls \in Opening
    BY <1>1, OpeningTail DEF RequestShaped, First
  <2> QED
    BY <1>1, <2>1 DEF Ops, Reads, Changes, IssueOps, SourceOps
<1>2. CASE q.handler # "open"
  <2>1. ReadsBack(q.calls)
    BY <1>2 DEF RequestShaped
  <2>2. Head(q.calls) \in Calls
    BY <2>1, TailReadsBack
  <2>3. First(q) \in Ops /\ (First(q) = "generate" => Head(q.calls).id \in IssueIds)
        /\ (First(q) = "deleteSource" => Head(q.calls).id \in SourceIds)
    BY <2>2 DEF First, Calls
  <2>4. First(q) # "getSeries"
    BY <2>3 DEF Ops, Reads, Changes, IssueOps, SourceOps
  <2> QED
    BY <1>2, <2>1, <2>3, <2>4, TailReadsBack DEF First
<1> QED
  BY <1>1, <1>2

LEMMA RestFits ==
  ASSUME NEW q, RequestShaped(q), Runs(q), Rest(q) # <<>>
  PROVE  IF q.handler = "open" THEN Rest(q) \in Opening ELSE ReadsBack(Rest(q))
<1>1. CASE q.handler = "open"
  <2>1. Rest(q) = Tail(q.calls)
    BY <1>1 DEF Rest
  <2>2. q.calls \in Opening
    BY <1>1 DEF RequestShaped
  <2>3. Tail(q.calls) \in Opening
    BY <2>1, <2>2, OpeningTail
  <2> QED
    BY <1>1, <2>1, <2>3
<1>2. CASE q.handler # "open"
  <2>1. ReadsBack(q.calls)
    BY <1>2 DEF RequestShaped
  <2>2. CASE Rest(q) = Tail(q.calls)
    BY <1>2, <2>1, <2>2, TailReadsBack
  <2>3. CASE Rest(q) # Tail(q.calls)
    <3>1. Rest(q) = Tail(Tail(q.calls)) /\ Head(q.calls).op = "generate"
      BY <1>2, <2>3 DEF Rest
    <3>2. ReadsBack(Tail(q.calls))
      BY <2>1, <3>1, TailReadsBack DEF Changes, IssueOps
    <3> QED
      BY <1>2, <3>1, <3>2, TailReadsBack
  <2> QED
    BY <2>2, <2>3
<1> QED
  BY <1>1, <1>2

-----------------------------------------------------------------------------
(* The form's steps reach the server only while the form is shown. *)
LEMMA FormStepIs ==
  ASSUME Shaped, Early, FormStep
  PROVE  /\ UNCHANGED <<page, req>>
         /\ made' \in Nat /\ attached' \in Nat /\ faults' \in Nat /\ (faults' = 0 => faults = 0)
         /\ IF where = "form"
            THEN /\ where' \in {"form", "page"}
                 /\ where' = "page" => server' = server /\ submission'.stage = "none"
                 /\ \/ server' = server /\ work' = work
                    \/ server' = NoServer /\ work' = "plan"
                    \/ server' = [NoServer EXCEPT !.plan = "failed"] /\ work' = "none"
                    \/ /\ \E i \in Nat : i > MaxIssues /\ server' = [server EXCEPT !.items[i] = "busy"]
                       /\ work' = work
            ELSE UNCHANGED <<server, work, where>> /\ submission'.stage = "none"
<1>1. made \in Nat /\ attached \in Nat /\ faults \in Nat /\ MaxIssues \in Nat
  BY ItemsTyped DEF Shaped
<1>2. UNCHANGED <<page, req>> /\ FormNext
  BY DEF FormStep
<1>3. CASE CreateSeries
  <2>1. made' = made + 1 /\ attached' = 0 /\ UNCHANGED <<where, faults>> /\ submission.stage = "create"
    BY <1>3 DEF CreateSeries
  <2>2. where = "form"
    BY <2>1 DEF Early
  <2>3. \/ server' = NoServer /\ work' = "plan"
        \/ server' = [NoServer EXCEPT !.plan = "failed"] /\ work' = "none"
    BY <1>1, <2>1 DEF FormStep
  <2> QED
    BY <1>1, <1>2, <2>1, <2>2, <2>3
<1>4. CASE AttachSource
  <2>1. /\ UNCHANGED <<where, made>> /\ submission.stage = "attach"
        /\ \/ attached' = attached + 1 /\ UNCHANGED faults
           \/ faults' = faults + 1 /\ UNCHANGED attached
    BY <1>4 DEF AttachSource
  <2>2. where = "form"
    BY <2>1 DEF Early
  <2>3. CASE attached' = attached + 1 /\ UNCHANGED faults
    <3>1. server' = [server EXCEPT !.items[MaxIssues + attached'] = "busy"] /\ work' = work
      BY <2>1, <2>3 DEF FormStep
    <3>2. MaxIssues + attached' \in Nat /\ MaxIssues + attached' > MaxIssues
      BY <1>1, <2>3
    <3>3. attached' \in Nat
      BY <1>1, <2>3
    <3>4. \E i \in Nat : i > MaxIssues /\ server' = [server EXCEPT !.items[i] = "busy"]
      BY <3>1, <3>2
    <3> QED
      BY <1>1, <1>2, <2>1, <2>2, <2>3, <3>1, <3>3, <3>4
  <2>4. CASE faults' = faults + 1 /\ UNCHANGED attached
    <3>1. server' = server /\ work' = work
      BY <1>1, <2>1, <2>4 DEF FormStep
    <3> QED
      BY <1>1, <1>2, <2>1, <2>2, <2>4, <3>1
  <2> QED
    BY <2>1, <2>3, <2>4
<1>5. CASE ~CreateSeries /\ ~AttachSource
  <2>1. UNCHANGED <<made, attached>>
    BY <1>2, <1>5 DEF FormNext, BasicsStep, AddSource, RemoveSource, ScheduleStep, ToggleDay,
       GoToStep, UpdateField, KeepsRest, ExtractBrief, BriefAnswers, Submit, SubmissionGoesOn,
       Created, OpenSeries, CreateFails
  <2>2. faults' \in Nat /\ (faults' = 0 => faults = 0)
    <3>1. CASE CreateFails
      BY <1>1, <3>1 DEF CreateFails
    <3>2. CASE ~CreateFails
      <4>1. UNCHANGED faults
        BY <1>2, <1>5, <3>2 DEF FormNext, BasicsStep, AddSource, RemoveSource, ScheduleStep, ToggleDay,
           GoToStep, UpdateField, KeepsRest, ExtractBrief, BriefAnswers, Submit, SubmissionGoesOn,
           Created, OpenSeries
      <4> QED
        BY <1>1, <4>1
    <3> QED
      BY <3>1, <3>2
  <2>3. server' = server /\ work' = work
    BY <1>1, <2>1 DEF FormStep
  <2>4. CASE OpenSeries
    <3>1. where' = "page" /\ submission'.stage = "none" /\ submission.stage = "attach"
      BY <2>4 DEF OpenSeries, NoSubmission
    <3> QED
      BY <1>1, <1>2, <2>1, <2>2, <2>3, <3>1 DEF Early
  <2>5. CASE ~OpenSeries
    <3>1. UNCHANGED where
      BY <1>2, <1>5, <2>5 DEF FormNext, BasicsStep, AddSource, RemoveSource, ScheduleStep, ToggleDay,
         GoToStep, UpdateField, KeepsRest, ExtractBrief, BriefAnswers, Submit, SubmissionGoesOn,
         Created, CreateFails
    <3>2. where # "form" => UNCHANGED submission
      BY <1>2, <1>5, <2>5 DEF FormNext, BasicsStep, AddSource, RemoveSource, ScheduleStep, ToggleDay,
         GoToStep, UpdateField, Filling, KeepsRest, ExtractBrief, BriefAnswers, Submit, SubmissionGoesOn,
         Created, CreateFails, Early
    <3> QED
      BY <1>1, <1>2, <2>1, <2>2, <2>3, <3>1, <3>2 DEF Early
  <2> QED
    BY <2>4, <2>5
<1> QED
  BY <1>3, <1>4, <1>5

-----------------------------------------------------------------------------
(* The steps of one handler. *)
Alters(r) ==
  /\ req' = [s \in Requests |-> req'[s]]
  /\ \A s \in Requests \ {r} : req'[s] = req[s]
  /\ req'[r] = [field \in {"handler", "calls", "stage", "ok", "got"} |-> req'[r][field]]
IsServer(s) ==
  /\ s = [field \in {"plan", "modules", "items", "paused", "deleted"} |-> s[field]]
  /\ IsMap(s.items) /\ s.modules \in 0..MaxIssues

LEMMA RequestShape ==
  ASSUME Shaped, NEW r \in Requests
  PROVE  /\ req = [s \in Requests |-> req[s]]
         /\ req[r] = [field \in {"handler", "calls", "stage", "ok", "got"} |-> req[r][field]]
         /\ req[r].stage # "none" => Runs(req[r])
         /\ req[r].got.modules \in Nat /\ IsMap(req[r].got.items)
BY DEF Shaped, RequestShaped

LEMMA AfterShaped ==
  ASSUME IsServer(server), NEW c
  PROVE  IsServer(After(c))
<1>1. \A i, v : IsServer([server EXCEPT !.items[i] = v])
  <2> TAKE i, v
  <2> DEFINE items == [server.items EXCEPT ![i] = v]
  <2>1. IsMap(items)
    BY DEF IsServer, IsMap
  <2>2. [server EXCEPT !.items[i] = v] = [server EXCEPT !.items = items]
    BY DEF IsServer
  <2> HIDE DEF items
  <2> QED
    BY <2>1, <2>2 DEF IsServer
<1>2. /\ IsServer([server EXCEPT !.plan = "generating"])
      /\ IsServer([server EXCEPT !.deleted = TRUE])
      /\ \A b : IsServer([server EXCEPT !.paused = b])
  BY DEF IsServer
<1> QED
  BY <1>1, <1>2 DEF After

LEMMA GotIs ==
  ASSUME NEW s, IsServer(s), NEW c
  PROVE  /\ IsMap(Got(c, s).items) /\ Got(c, s).modules \in Nat
         /\ c.op = "getIssues" => \A i \in IssueIds : Got(c, s).items[i] = s.items[i]
         /\ c.op = "getSources" => \A i \in SourceIds : Got(c, s).items[i] = s.items[i]
         /\ c.op = "getPlan" => /\ Got(c, s).plan = s.plan
                                /\ Got(c, s).modules = s.modules
         /\ c.op \in {"getSeries", "update"} => Got(c, s).paused = s.paused
<1>1. MaxIssues \in Nat /\ s.modules \in Nat /\ IsMap(NoItems)
  BY ItemsTyped DEF IsServer, NoItems, IsMap
<1>2. \A i \in IssueIds \union SourceIds : i \in Items
  BY DEF Items
<1>3. CASE c.op = "getIssues"
  BY <1>1, <1>2, <1>3 DEF Got, Unread, IsMap
<1>4. CASE c.op = "getSources"
  BY <1>1, <1>2, <1>4 DEF Got, Unread, IsMap
<1>5. CASE c.op = "getPlan"
  BY <1>1, <1>5 DEF Got, Unread
<1>6. CASE c.op \in {"getSeries", "update"}
  BY <1>1, <1>6 DEF Got, Unread
<1>7. CASE c.op \notin {"getIssues", "getSources", "getPlan", "getSeries", "update"}
  BY <1>1, <1>7 DEF Got, Unread
<1> QED
  BY <1>3, <1>4, <1>5, <1>6, <1>7

LEMMA ServerIsShaped == Shaped => IsServer(server)
BY DEF Shaped, IsServer

Serves(r, c) ==
  /\ Alters(r) /\ Runs(req[r])
  /\ req[r].stage = "asked" /\ req'[r].stage = "answered"
  /\ req'[r].handler = req[r].handler /\ req'[r].calls = req[r].calls
  /\ IF Refused(c) THEN /\ server' = server /\ work' = work /\ ~req'[r].ok
                        /\ req'[r].got = req[r].got
     ELSE /\ server' = After(c) /\ req'[r].ok /\ req'[r].got = Got(c, server')
          /\ work' = IF c.op = "generatePlan" THEN "plan" ELSE work
  /\ UNCHANGED <<page, where, submission, made, attached, faults>>

LEMMA ServeIs ==
  ASSUME Shaped, NEW r \in Requests, Serve(r)
  PROVE  Serves(r, Head(req[r].calls))
<1> DEFINE c == Head(req[r].calls)
<1>1. req[r].stage = "asked" /\ Runs(req[r])
  BY RequestShape DEF Serve
<1>2. CASE Refused(c)
  <2>1. /\ req' = [req EXCEPT ![r].stage = "answered", ![r].ok = FALSE]
        /\ UNCHANGED <<server, work, formVars, page>>
    BY <1>2 DEF Serve
  <2>2. /\ Alters(r) /\ req'[r].stage = "answered" /\ ~req'[r].ok
        /\ req'[r].handler = req[r].handler /\ req'[r].calls = req[r].calls /\ req'[r].got = req[r].got
    BY <2>1, RequestShape DEF Alters
  <2> QED
    BY <1>1, <1>2, <2>1, <2>2 DEF Serves, formVars
<1>3. CASE ~Refused(c)
  <2> DEFINE got == Got(c, server')
  <2>1. req' = [req EXCEPT ![r].stage = "answered", ![r].ok = TRUE, ![r].got = got]
    BY <1>3 DEF Serve
  <2>2. /\ server' = After(c) /\ work' = (IF c.op = "generatePlan" THEN "plan" ELSE work)
        /\ UNCHANGED <<formVars, page>>
    BY <1>3 DEF Serve
  <2> HIDE DEF got, c
  <2>3. /\ Alters(r) /\ req'[r].stage = "answered" /\ req'[r].ok
        /\ req'[r].handler = req[r].handler /\ req'[r].calls = req[r].calls /\ req'[r].got = got
    <3>1. /\ req = [s \in Requests |-> req[s]]
          /\ req[r] = [field \in {"handler", "calls", "stage", "ok", "got"} |-> req[r][field]]
      BY RequestShape
    <3> QED
      BY <2>1, <3>1 DEF Alters
  <2> QED
    BY <1>1, <1>3, <2>2, <2>3 DEF Serves, formVars, got, c
<1> QED
  BY <1>2, <1>3

(* What an answer does to the page, and to its handler. *)
IsPage(p) ==
  /\ p = [field \in {"view", "plan", "modules", "items", "paused", "retrying"} |-> p[field]]
  /\ IsMap(p.items) /\ p.modules \in Nat

LEMMA ToldShaped ==
  ASSUME IsPage(page), NEW c, NEW got, got.modules \in Nat
  PROVE  IsPage(Told(c, got))
<1>1. \A ids : IsMap(Replaced(ids, got))
  BY DEF Replaced, IsMap
<1>2. \A ids : IsPage([page EXCEPT !.items = Replaced(ids, got)])
  <2> TAKE ids
  <2> QED
    BY <1>1 DEF IsPage
<1>3. /\ \A v, b : IsPage([page EXCEPT !.view = v, !.paused = b])
      /\ \A b : IsPage([page EXCEPT !.paused = b])
      /\ IsPage([page EXCEPT !.plan = got.plan, !.modules = got.modules])
      /\ IsPage([page EXCEPT !.plan = "generating"])
  BY DEF IsPage
<1> QED
  BY <1>2, <1>3 DEF Told

LEMMA FailedShaped ==
  ASSUME IsPage(page), NEW h, NEW c
  PROVE  IsPage(Failed(h, c))
<1> DEFINE got == [Unread EXCEPT !.plan = page.plan, !.modules = page.modules]
<1>1. IsPage(Told(c, got))
  <2>1. got.modules \in Nat
    BY DEF IsPage, Unread
  <2> HIDE DEF got
  <2> QED
    BY <2>1, ToldShaped
<1>2. IsPage([page EXCEPT !.view = "error"])
  BY DEF IsPage
<1> HIDE DEF got
<1> QED
  BY <1>1, <1>2 DEF Failed, got

LEMMA RetryingShaped ==
  ASSUME NEW p, IsPage(p), NEW h, NEW rest
  PROVE  /\ IsPage(Retrying(p, h, rest))
         /\ Retrying(p, h, rest).items = p.items /\ Retrying(p, h, rest).plan = p.plan
         /\ Retrying(p, h, rest).modules = p.modules /\ Retrying(p, h, rest).paused = p.paused
         /\ \/ Retrying(p, h, rest).view = p.view
            \/ Retrying(p, h, rest).view = "open"
         /\ h \notin {"retry", "retryAll"} => Retrying(p, h, rest) = p
BY DEF Retrying, IsPage

Shows(q) == IF q.ok THEN Told(Head(q.calls), q.got) ELSE Failed(q.handler, Head(q.calls))
Answers(r) ==
  /\ Alters(r) /\ Runs(req[r]) /\ req[r].stage = "answered"
  /\ IF Rest(req[r]) = <<>> THEN req'[r] = Idle
     ELSE /\ req'[r].stage = "asked" /\ req'[r].handler = req[r].handler
          /\ req'[r].calls = Rest(req[r]) /\ req'[r].got = Unread
  /\ IF First(req[r]) = "deleteSeries" /\ req[r].ok THEN where' = "away" /\ page' = Closed
     ELSE /\ where' = where
          /\ page' = IF where # "page" THEN page
                     ELSE Retrying(Shows(req[r]), req[r].handler, Rest(req[r]))
  /\ UNCHANGED <<submission, made, attached, faults, server, work>>

LEMMA AnswerIs ==
  ASSUME Shaped, NEW r \in Requests, Answer(r)
  PROVE  Answers(r)
<1> DEFINE new == IF Rest(req[r]) = <<>> THEN Idle
                  ELSE [req[r] EXCEPT !.calls = Rest(req[r]), !.stage = "asked",
                                      !.ok = FALSE, !.got = Unread]
<1>1. req[r].stage = "answered" /\ Runs(req[r])
  BY RequestShape DEF Answer
<1>2. req' = [req EXCEPT ![r] = new]
  BY DEF Answer
<1>3. /\ new = [field \in {"handler", "calls", "stage", "ok", "got"} |-> new[field]]
      /\ IF Rest(req[r]) = <<>> THEN new = Idle
         ELSE /\ new.stage = "asked" /\ new.handler = req[r].handler
              /\ new.calls = Rest(req[r]) /\ new.got = Unread
  BY RequestShape DEF Idle
<1> HIDE DEF new
<1>4. Alters(r) /\ req'[r] = new
  BY <1>2, <1>3, RequestShape DEF Alters
<1>5. /\ IF First(req[r]) = "deleteSeries" /\ req[r].ok THEN where' = "away" /\ page' = Closed
         ELSE /\ where' = where
              /\ page' = IF where # "page" THEN page
                         ELSE Retrying(Shows(req[r]), req[r].handler, Rest(req[r]))
      /\ UNCHANGED <<submission, made, attached, faults, server, work>>
  BY DEF Answer, First, Shows
<1> QED
  BY <1>1, <1>3, <1>4, <1>5 DEF Answers

LEMMA AnswerShaped ==
  ASSUME Shaped, NEW r \in Requests, Answers(r)
  PROVE  IsPage(page') /\ (where = "page" => IsPage(Shows(req[r])))
<1>1. IsPage(page) /\ req[r].got.modules \in Nat
  BY RequestShape DEF Shaped, IsPage
<1>2. IsPage(Shows(req[r]))
  BY <1>1, ToldShaped, FailedShaped DEF Shows
<1>3. IsPage(Closed)
  BY DEF IsPage, Closed, NoItems, IsMap
<1> QED
  BY <1>1, <1>2, <1>3, RetryingShaped DEF Answers

(* What a failed call does. *)
LEMMA FailIs ==
  ASSUME Shaped, NEW r \in Requests, RequestFails(r)
  PROVE  /\ Alters(r) /\ Runs(req[r]) /\ req'[r].stage = "answered" /\ req'[r].got = Unread
         /\ req'[r].handler = req[r].handler /\ req'[r].calls = req[r].calls
         /\ UNCHANGED <<server, work, page, where, submission, made, attached>>
         /\ faults' \in Nat /\ faults' # 0
<1>1. /\ req' = [req EXCEPT ![r].stage = "answered", ![r].ok = FALSE, ![r].got = Unread]
      /\ UNCHANGED <<server, work, page, where, submission, made, attached>>
      /\ req[r].stage # "none" /\ faults' = faults + 1
  BY DEF RequestFails
<1>2. faults' \in Nat /\ faults' # 0
  BY <1>1 DEF Shaped
<1>3. /\ Alters(r) /\ Runs(req[r]) /\ req'[r].stage = "answered"
      /\ req'[r].handler = req[r].handler /\ req'[r].calls = req[r].calls /\ req'[r].got = Unread
  BY <1>1, RequestShape, ZenonT(30) DEF Alters
<1> QED
  BY <1>1, <1>2, <1>3

-----------------------------------------------------------------------------
(* Shapes are kept. *)
LEMMA NoServerIs ==
  /\ IsServer(NoServer) /\ IsServer([NoServer EXCEPT !.plan = "failed"])
  /\ NoServer.plan = "generating"
<1>1. 0 \in 0..MaxIssues /\ IsMap(NoItems)
  BY ItemsTyped DEF NoItems, IsMap
<1> QED
  BY <1>1 DEF IsServer, NoServer

LEMMA ShapedInit == Init => Shaped /\ Early /\ Alone /\ Current
<1> SUFFICES ASSUME Init PROVE Shaped /\ Early /\ Alone /\ Current
  OBVIOUS
<1>1. /\ server = NoServer /\ work = "none" /\ page = Closed /\ missed = FALSE
      /\ req = [r \in Requests |-> Idle] /\ where = "form"
      /\ made = 0 /\ attached = 0 /\ faults = 0
  BY DEF Init, FormInit
<1>2. IsMap(NoItems) /\ MaxIssues \in Nat
  BY ItemsTyped DEF IsMap, NoItems
<1>3. RequestShaped(Idle) /\ ~Runs(Idle)
  BY <1>2 DEF RequestShaped, Runs, Idle, Unread
<1>4. \A i \in IssueIds : NoItems[i] = "none"
  BY ItemsTyped DEF NoItems
<1>5. Shaped
  <2>1. IsServer(NoServer) /\ IsPage(Closed) /\ 0 \in Nat
    BY NoServerIs, ItemsTyped DEF IsPage, Closed, NoItems, IsMap
  <2>2. /\ req = [r \in Requests |-> req[r]] /\ \A r \in Requests : RequestShaped(req[r])
    BY <1>1, <1>3
  <2> QED
    BY <1>1, <2>1, <2>2 DEF Shaped, IsServer, IsPage
<1>6. Early
  BY <1>1, <1>3, <1>4 DEF Early, NoServer, NoIssues
<1>7. Alone
  BY <1>1, <1>3 DEF Alone
<1>8. Current
  BY <1>1 DEF Current
<1> QED
  BY <1>5, <1>6, <1>7, <1>8

LEMMA RequestFrom ==
  ASSUME NEW p, p = [field \in {"handler", "calls", "stage", "ok", "got"} |-> p[field]],
         Runs(p), p.stage \in {"asked", "answered"},
         IF p.handler = "open" THEN p.calls \in Opening ELSE ReadsBack(p.calls),
         IsMap(p.got.items), p.got.modules \in Nat
  PROVE  RequestShaped(p)
BY DEF RequestShaped

LEMMA ShapedFrom ==
  ASSUME Shaped, IsServer(server'), IsPage(page'),
         req' = req \/ \E r \in Requests : Alters(r) /\ RequestShaped(req'[r]),
         made' \in Nat, attached' \in Nat, faults' \in Nat,
         work' \in {"none", "plan", "materialize", "lost"},
         work' = "plan" => server'.plan = "generating",
         work' = "materialize" => server'.plan = "ready"
  PROVE  Shaped'
<1>1. req' = [r \in Requests |-> req'[r]]
  BY DEF Alters, Shaped
<1>2. \A r \in Requests : RequestShaped(req'[r])
  BY DEF Alters, Shaped
<1> QED
  BY <1>1, <1>2 DEF Shaped, IsServer, IsPage, IsMap, RequestShaped, Runs, ReadsBack, Opening

(* The steps of Next, as the proofs below tell them apart. *)
WorkerStep == PlanEnds \/ Materialize \/ \E i \in Items : ItemEnds(i)
RequestStep(r) ==
  \/ \E h, calls : Begins(r, h, calls)
  \/ Serves(r, Head(req[r].calls))
  \/ Answers(r)
  \/ RequestFails(r)

LEMMA SeriesSteps ==
  ASSUME Shaped, [Next]_vars
  PROVE  \/ FormStep \/ WorkerStep \/ (\E r \in Requests : RequestStep(r))
         \/ UNCHANGED vars
<1>1. \/ FormStep \/ PlanEnds \/ Materialize \/ (\E i \in Items : ItemEnds(i)) \/ UNCHANGED vars
      \/ \E r \in Requests : \/ Effects(r) \/ Serve(r) \/ Answer(r) \/ RequestFails(r)
                            \/ \E h \in Buttons : Click(r, h)
  BY DEF Next
<1>2. ASSUME NEW r \in Requests, Effects(r) \/ \E h \in Buttons : Click(r, h)
      PROVE  RequestStep(r)
  BY <1>2, BeginsFits DEF RequestStep
<1>3. ASSUME NEW r \in Requests, Serve(r)
      PROVE  RequestStep(r)
  BY <1>3, ServeIs DEF RequestStep
<1>4. ASSUME NEW r \in Requests, Answer(r)
      PROVE  RequestStep(r)
  BY <1>4, AnswerIs DEF RequestStep
<1> QED
  BY <1>1, <1>2, <1>3, <1>4 DEF WorkerStep, RequestStep

LEMMA WorkerIs ==
  ASSUME Shaped, WorkerStep
  PROVE  /\ UNCHANGED <<page, req, where, submission, made, attached, faults>>
         /\ IsServer(server') /\ work' \in {"none", "plan", "materialize", "lost"}
         /\ work' = "plan" => server'.plan = "generating"
         /\ work' = "materialize" => server'.plan = "ready"
         /\ server'.paused = server.paused /\ server'.deleted = server.deleted
         /\ work' \in {"plan", "materialize"} => server'.items = server.items \/ work' = work
<1>1. IsServer(server) /\ MaxIssues \in Nat /\ 0 \in 0..MaxIssues /\ MaxIssues \in 0..MaxIssues
  BY ServerIsShaped, ItemsTyped
<1>2. UNCHANGED <<page, req, where, submission, made, attached, faults>>
  BY DEF WorkerStep, PlanEnds, Materialize, ItemEnds, formVars
<1>3. CASE PlanEnds
  <2>1. CASE work' = "none" /\ UNCHANGED server
    BY <1>1, <1>2, <2>1
  <2>2. ASSUME NEW n \in {0, MaxIssues}, work' = "materialize",
               server' = [server EXCEPT !.plan = "ready", !.modules = n]
        PROVE  /\ IsServer(server') /\ server'.plan = "ready" /\ server'.items = server.items
               /\ server'.paused = server.paused /\ server'.deleted = server.deleted
    BY <1>1, <2>2 DEF IsServer
  <2>3. ASSUME work' = "none", server' = [server EXCEPT !.plan = "failed", !.modules = 0]
        PROVE  /\ IsServer(server') /\ server'.items = server.items
               /\ server'.paused = server.paused /\ server'.deleted = server.deleted
    BY <1>1, <2>3 DEF IsServer
  <2> QED
    BY <1>2, <1>3, <2>1, <2>2, <2>3 DEF PlanEnds
<1>4. CASE Materialize
  <2>1. CASE work' = "lost" /\ UNCHANGED server
    BY <1>1, <1>2, <2>1
  <2>2. CASE work' # "lost"
    <3> DEFINE items == [i \in Items |->
             IF i <= server.modules /\ server.items[i] \in {"none", "failed"} /\ ~server.deleted
             THEN "busy" ELSE server.items[i]]
    <3>1. work' = "none" /\ server' = [server EXCEPT !.items = items]
      BY <1>4, <2>2, Zenon DEF Materialize
    <3>2. IsMap(items)
      BY DEF IsMap
    <3> HIDE DEF items
    <3>3. IsServer(server') /\ server'.paused = server.paused /\ server'.deleted = server.deleted
      BY <1>1, <3>1, <3>2 DEF IsServer
    <3> QED
      BY <1>2, <3>1, <3>3
  <2> QED
    BY <2>1, <2>2, <1>4 DEF Materialize
<1>5. ASSUME NEW i \in Items, ItemEnds(i)
      PROVE  /\ IsServer(server') /\ work' = work /\ server'.plan = server.plan
             /\ server'.paused = server.paused /\ server'.deleted = server.deleted
  <2>1. PICK s : server' = [server EXCEPT !.items[i] = s]
    BY <1>5 DEF ItemEnds
  <2> DEFINE items == [server.items EXCEPT ![i] = s]
  <2>2. IsMap(items)
    BY <1>1 DEF IsServer, IsMap
  <2>3. server' = [server EXCEPT !.items = items]
    BY <1>1, <2>1 DEF IsServer
  <2> HIDE DEF items
  <2>4. IsServer(server') /\ server'.plan = server.plan
        /\ server'.paused = server.paused /\ server'.deleted = server.deleted
    BY <1>1, <2>2, <2>3 DEF IsServer
  <2> QED
    BY <1>5, <2>4 DEF ItemEnds
<1> QED
  BY <1>2, <1>3, <1>4, <1>5 DEF WorkerStep, Shaped

LEMMA ShapedStep == ASSUME Shaped, Early, [Next]_vars PROVE Shaped'
<1>1. IsServer(server) /\ IsPage(page) /\ MaxIssues \in Nat
  BY ServerIsShaped, ItemsTyped DEF Shaped, IsPage
<1>2. CASE FormStep
  <2>1. page' = page /\ req' = req /\ made' \in Nat /\ attached' \in Nat /\ faults' \in Nat
    BY <1>2, FormStepIs
  <2>2. \/ server' = server /\ work' = work
        \/ server' = NoServer /\ work' = "plan"
        \/ server' = [NoServer EXCEPT !.plan = "failed"] /\ work' = "none"
        \/ \E i \in Nat : server' = [server EXCEPT !.items[i] = "busy"] /\ work' = work
    BY <1>2, FormStepIs
  <2>3. IsServer(NoServer) /\ IsServer([NoServer EXCEPT !.plan = "failed"]) /\ NoServer.plan = "generating"
    BY NoServerIs
  <2>4. ASSUME NEW i \in Nat, server' = [server EXCEPT !.items[i] = "busy"]
        PROVE  IsServer(server') /\ server'.plan = server.plan
    <3> DEFINE items == [server.items EXCEPT ![i] = "busy"]
    <3>1. IsMap(items)
      BY <1>1 DEF IsServer, IsMap
    <3>2. server' = [server EXCEPT !.items = items]
      BY <1>1, <2>4 DEF IsServer
    <3> HIDE DEF items
    <3> QED
      BY <1>1, <3>1, <3>2 DEF IsServer
  <2>5. /\ IsServer(server') /\ work' \in {"none", "plan", "materialize", "lost"}
        /\ work' = "plan" => server'.plan = "generating"
        /\ work' = "materialize" => server'.plan = "ready"
    BY <1>1, <2>2, <2>3, <2>4 DEF Shaped
  <2> QED
    BY <1>1, <2>1, <2>5, ShapedFrom
<1>3. CASE WorkerStep
  BY <1>1, <1>3, WorkerIs, ShapedFrom DEF Shaped
<1>4. ASSUME NEW r \in Requests, NEW h, NEW calls, Begins(r, h, calls)
      PROVE  Shaped'
  <2> DEFINE new == [Idle EXCEPT !.handler = h, !.calls = calls, !.stage = "asked"]
  <2>1. req' = [req EXCEPT ![r] = new] /\ UNCHANGED <<server, work, made, attached, faults>>
    BY <1>4 DEF Begins
  <2>2. /\ new = [field \in {"handler", "calls", "stage", "ok", "got"} |-> new[field]]
        /\ new.handler = h /\ new.calls = calls /\ new.stage = "asked" /\ new.got = Unread
    BY DEF Idle
  <2> HIDE DEF new
  <2>3. Alters(r) /\ req'[r] = new
    BY <2>1, <2>2, RequestShape DEF Alters
  <2>4. RequestShaped(new)
    <3>1. h # "none" /\ IF h = "open" THEN calls \in Opening ELSE ReadsBack(calls)
      BY <1>4 DEF Begins
    <3>2. IsMap(Unread.items) /\ Unread.modules \in Nat
      BY DEF Unread, NoItems, IsMap
    <3> QED
      BY <2>2, <3>1, <3>2 DEF RequestShaped, Runs
  <2>5. RequestShaped(req'[r])
    BY <2>3, <2>4
  <2>6. IsPage(page')
    BY <1>1, <1>4 DEF Begins, IsPage
  <2> QED
    BY <1>1, <2>1, <2>3, <2>5, <2>6, ShapedFrom DEF Shaped
<1>5. ASSUME NEW r \in Requests, Serves(r, Head(req[r].calls))
      PROVE  Shaped'
  <2> DEFINE c == Head(req[r].calls)
  <2>1. /\ Alters(r) /\ Runs(req[r]) /\ req'[r].stage = "answered"
        /\ req'[r].handler = req[r].handler /\ req'[r].calls = req[r].calls
        /\ UNCHANGED <<page, made, attached, faults>>
    BY <1>5 DEF Serves
  <2>2. /\ IsServer(server') /\ work' \in {"none", "plan", "materialize", "lost"}
        /\ work' = "plan" => server'.plan = "generating"
        /\ work' = "materialize" => server'.plan = "ready"
        /\ IsMap(req'[r].got.items) /\ req'[r].got.modules \in Nat
    <3>1. CASE Refused(c)
      BY <1>1, <1>5, <3>1, RequestShape DEF Serves, Shaped
    <3>2. CASE ~Refused(c)
      <4>1. /\ server' = After(c) /\ req'[r].got = Got(c, server')
            /\ work' = IF c.op = "generatePlan" THEN "plan" ELSE work
        BY <1>5, <3>2 DEF Serves
      <4>2. IsServer(server')
        BY <1>1, <4>1, AfterShaped
      <4>3. IsMap(Got(c, server').items) /\ Got(c, server').modules \in Nat
        BY <4>2, GotIs
      <4>4. server'.plan = IF c.op = "generatePlan" THEN "generating" ELSE server.plan
        BY <1>1, <4>1 DEF After, IsServer
      <4> QED
        BY <4>1, <4>2, <4>3, <4>4 DEF Shaped
    <3> QED
      BY <3>1, <3>2
  <2>3. IF req[r].handler = "open" THEN req[r].calls \in Opening ELSE ReadsBack(req[r].calls)
    BY <2>1 DEF Shaped, RequestShaped
  <2>4. RequestShaped(req'[r])
    <3> DEFINE p == req'[r]
    <3>1. /\ p = [field \in {"handler", "calls", "stage", "ok", "got"} |-> p[field]]
          /\ Runs(p) /\ p.stage = "answered"
          /\ IF p.handler = "open" THEN p.calls \in Opening ELSE ReadsBack(p.calls)
          /\ IsMap(p.got.items) /\ p.got.modules \in Nat
      BY <2>1, <2>2, <2>3 DEF Alters, Runs
    <3> HIDE DEF p
    <3>2. RequestShaped(p)
      BY <3>1, RequestFrom
    <3> QED
      BY <3>2 DEF p
  <2> QED
    BY <1>1, <2>1, <2>2, <2>4, ShapedFrom DEF Shaped
<1>6. ASSUME NEW r \in Requests, Answers(r)
      PROVE  Shaped'
  <2>1. /\ Alters(r) /\ Runs(req[r])
        /\ IF Rest(req[r]) = <<>> THEN req'[r] = Idle
           ELSE /\ req'[r].stage = "asked" /\ req'[r].handler = req[r].handler
                /\ req'[r].calls = Rest(req[r]) /\ req'[r].got = Unread
        /\ UNCHANGED <<server, work, made, attached, faults>>
    BY <1>6 DEF Answers
  <2>2. IsMap(Unread.items) /\ Unread.modules \in Nat
    BY DEF Unread, NoItems, IsMap
  <2>3. RequestShaped(req[r])
    BY DEF Shaped
  <2>4. RequestShaped(req'[r])
    <3>1. CASE Rest(req[r]) = <<>>
      <4>1. RequestShaped(Idle)
        BY <2>2 DEF RequestShaped, Runs, Idle
      <4> QED
        BY <2>1, <3>1, <4>1
    <3>2. CASE Rest(req[r]) # <<>>
      <4>1. IF req[r].handler = "open" THEN Rest(req[r]) \in Opening ELSE ReadsBack(Rest(req[r]))
        BY <2>1, <2>3, <3>2, RestFits
      <4> DEFINE p == req'[r]
      <4>2. /\ p = [field \in {"handler", "calls", "stage", "ok", "got"} |-> p[field]]
            /\ Runs(p) /\ p.stage = "asked"
            /\ IF p.handler = "open" THEN p.calls \in Opening ELSE ReadsBack(p.calls)
            /\ IsMap(p.got.items) /\ p.got.modules \in Nat
        BY <2>1, <2>2, <3>2, <4>1 DEF Alters, Runs
      <4> HIDE DEF p
      <4>3. RequestShaped(p)
        BY <4>2, RequestFrom
      <4> QED
        BY <4>3 DEF p
    <3> QED
      BY <3>1, <3>2
  <2>5. IsPage(page')
    BY <1>6, AnswerShaped
  <2> QED
    BY <1>1, <2>1, <2>4, <2>5, ShapedFrom DEF Shaped
<1>7. ASSUME NEW r \in Requests, RequestFails(r)
      PROVE  Shaped'
  <2>1. UNCHANGED <<server, work, page, made, attached>> /\ faults' \in Nat
    BY <1>7, FailIs
  <2>2. /\ Alters(r) /\ Runs(req[r]) /\ req'[r].stage = "answered"
        /\ req'[r].handler = req[r].handler /\ req'[r].calls = req[r].calls /\ req'[r].got = Unread
    BY <1>7, FailIs
  <2>3. IsMap(Unread.items) /\ Unread.modules \in Nat
    BY DEF Unread, NoItems, IsMap
  <2>4. IF req[r].handler = "open" THEN req[r].calls \in Opening ELSE ReadsBack(req[r].calls)
    BY <2>2 DEF Shaped, RequestShaped
  <2>5. RequestShaped(req'[r])
    <3> DEFINE p == req'[r]
    <3>1. /\ p = [field \in {"handler", "calls", "stage", "ok", "got"} |-> p[field]]
          /\ Runs(p) /\ p.stage = "answered"
          /\ IF p.handler = "open" THEN p.calls \in Opening ELSE ReadsBack(p.calls)
          /\ IsMap(p.got.items) /\ p.got.modules \in Nat
      BY <2>2, <2>3, <2>4 DEF Alters, Runs
    <3> HIDE DEF p
    <3>2. RequestShaped(p)
      BY <3>1, RequestFrom
    <3> QED
      BY <3>2 DEF p
  <2> QED
    BY <1>1, <2>1, <2>2, <2>5, ShapedFrom DEF Shaped
<1>8. CASE UNCHANGED vars
  BY <1>1, <1>8, ShapedFrom DEF vars, formVars, pageVars, Shaped
<1> QED
  BY <1>2, <1>3, <1>4, <1>5, <1>6, <1>7, <1>8, SeriesSteps DEF RequestStep

-----------------------------------------------------------------------------
(* The form comes first, and the buttons after the loading. *)
LEMMA ShowsView ==
  ASSUME Shaped, NEW r \in Requests, Answers(r), where = "page"
  PROVE  page'.view \in {page.view, "open", "error"} \/ where' = "away"
<1> SUFFICES ASSUME where' # "away"
             PROVE  page'.view \in {page.view, "open", "error"}
  OBVIOUS
<1>1. IsPage(page) /\ IsPage(Shows(req[r]))
  BY AnswerShaped DEF Shaped, IsPage
<1>2. \A c, got : Told(c, got).view \in {page.view, "open"}
  BY <1>1 DEF Told, IsPage
<1>3. Shows(req[r]).view \in {page.view, "open", "error"}
  BY <1>1, <1>2 DEF Shows, Failed, IsPage
<1>4. page' = Retrying(Shows(req[r]), req[r].handler, Rest(req[r]))
  BY DEF Answers
<1> QED
  BY <1>1, <1>3, <1>4, RetryingShaped

LEMMA EarlyStep == ASSUME Shaped, Early, [Next]_vars PROVE Early'
<1>1. CASE FormStep /\ where = "form"
  <2>1. page' = page /\ req' = req
    BY <1>1, FormStepIs
  <2>2. where' \in {"form", "page"} /\ (where' = "page" => submission'.stage = "none")
    BY <1>1, FormStepIs
  <2>3. \/ server' = server \/ server' = NoServer \/ server' = [NoServer EXCEPT !.plan = "failed"]
        \/ \E i \in Nat : i > MaxIssues /\ server' = [server EXCEPT !.items[i] = "busy"]
    BY <1>1, FormStepIs
  <2>4. NoIssues' /\ server'.paused = FALSE /\ ~server'.deleted
    <3>1. NoIssues /\ server.paused = FALSE /\ ~server.deleted
      BY <1>1 DEF Early
    <3>2. ASSUME NEW i \in Nat, i > MaxIssues, server' = [server EXCEPT !.items[i] = "busy"]
          PROVE  NoIssues' /\ server'.paused = FALSE /\ ~server'.deleted
      BY <3>1, <3>2, ItemsTyped, ServerIsShaped DEF NoIssues, IsServer, IsMap
    <3>3. \A i \in IssueIds : i \in Items
      BY ItemsTyped
    <3>4. CASE server' = NoServer \/ server' = [NoServer EXCEPT !.plan = "failed"]
      <4>1. server'.items = NoItems /\ server'.paused = FALSE /\ ~server'.deleted
        BY <3>4 DEF NoServer
      <4>2. \A i \in IssueIds : server'.items[i] = "none"
        BY <3>3, <4>1 DEF NoItems
      <4> QED
        BY <4>1, <4>2 DEF NoIssues
    <3>5. CASE server' = server
      BY <3>1, <3>5 DEF NoIssues
    <3> QED
      BY <2>3, <3>2, <3>4, <3>5
  <2>5. page = Closed /\ \A r \in Requests : req[r].handler = "none"
    BY <1>1 DEF Early, Runs
  <2> QED
    BY <2>1, <2>2, <2>4, <2>5 DEF Early, Runs, NoIssues, AllButtons
<1>2. CASE FormStep /\ where # "form"
  <2>1. page' = page /\ req' = req /\ where' = where /\ submission'.stage = "none"
    BY <1>2, FormStepIs
  <2> QED
    BY <1>2, <2>1 DEF Early
<1>3. CASE WorkerStep
  <2>1. where # "form"
    BY <1>3 DEF WorkerStep, PlanEnds, Materialize, ItemEnds, Working
  <2>2. UNCHANGED <<page, req, where, submission>>
    BY <1>3, WorkerIs
  <2> QED
    BY <2>1, <2>2 DEF Early
<1>4. ASSUME NEW r \in Requests, NEW h, NEW calls, Begins(r, h, calls)
      PROVE  Early'
  <2>1. where = "page" /\ UNCHANGED <<where, submission>> /\ (h \in AllButtons => page.view = "open")
    BY <1>4 DEF Begins
  <2>2. page'.view = page.view
    BY <1>4 DEF Begins, Shaped
  <2>3. \A s \in Requests : req'[s].handler = req[s].handler \/ req'[s].handler = h
    BY <1>4, RequestShape DEF Begins, Idle
  <2> QED
    BY <2>1, <2>2, <2>3 DEF Early
<1>5. ASSUME NEW r \in Requests, Serves(r, Head(req[r].calls))
      PROVE  Early'
  <2>1. /\ UNCHANGED <<page, where, submission>> /\ Runs(req[r])
        /\ \A s \in Requests : req'[s].handler = req[s].handler
    BY <1>5 DEF Serves, Alters
  <2> QED
    BY <2>1 DEF Early
<1>6. ASSUME NEW r \in Requests, Answers(r)
      PROVE  Early'
  <2>1. /\ where' = where \/ where' = "away"
        /\ submission' = submission /\ Runs(req[r])
    BY <1>6 DEF Answers
  <2>2. \A s \in Requests : req'[s].handler = req[s].handler \/ req'[s].handler = "none"
    BY <1>6 DEF Answers, Alters, Idle
  <2>3. where # "form"
    BY <2>1 DEF Early
  <2>4. ASSUME where' = "page", NEW s \in Requests, req'[s].handler \in AllButtons
        PROVE  page'.view # "loading"
    <3>1. where = "page" /\ req[s].handler \in AllButtons
      BY <2>1, <2>2, <2>4 DEF AllButtons
    <3>2. page.view # "loading"
      BY <3>1 DEF Early
    <3> QED
      BY <1>6, <2>4, <3>1, <3>2, ShowsView
  <2> QED
    BY <2>1, <2>3, <2>4 DEF Early
<1>7. ASSUME NEW r \in Requests, RequestFails(r)
      PROVE  Early'
  <2>1. /\ UNCHANGED <<page, where, submission>> /\ Runs(req[r])
        /\ \A s \in Requests : req'[s].handler = req[s].handler
    BY <1>7, FailIs DEF Alters
  <2> QED
    BY <2>1 DEF Early
<1>8. CASE UNCHANGED vars
  BY <1>8 DEF vars, formVars, pageVars, Early, NoIssues, Runs, AllButtons
<1> QED
  BY <1>1, <1>2, <1>3, <1>4, <1>5, <1>6, <1>7, <1>8, SeriesSteps DEF RequestStep

(* One handler is altered by a step, so one at most is added. *)
LEMMA AloneStep == ASSUME Shaped, Alone, [Next]_vars PROVE Alone'
<1>1. CASE UNCHANGED vars
  BY <1>1 DEF vars, formVars, pageVars, Alone, Runs, NoIssues
<1>2. CASE Next
  <2> SUFFICES ASSUME ~missed'
               PROVE  /\ \A r, s \in Requests : Runs(req'[r]) /\ Runs(req'[s]) => r = s
                      /\ work' \in {"plan", "materialize"} => NoIssues'
    BY DEF Alone, Runs
  <2>1. ~missed /\ ~Missing
    BY <1>2 DEF Next
  <2>2. work' \in {"plan", "materialize"} => NoIssues'
    BY <2>1 DEF Missing, NoIssues
  <2>3. PICK r \in Requests : \A s \in Requests \ {r} : Runs(req'[s]) => Runs(req[s])
    <3>1. Requests # {}
      BY SeriesPageAssumption
    <3>2. CASE FormStep \/ WorkerStep
      <4>1. req' = req
        BY <3>2, WorkerIs DEF FormStep
      <4> QED
        BY <3>1, <4>1
    <3>3. ASSUME NEW r \in Requests, RequestStep(r)
          PROVE  \A s \in Requests \ {r} : Runs(req'[s]) => Runs(req[s])
      BY <3>3, RequestShape DEF RequestStep, Begins, Serves, Answers, RequestFails, Alters
    <3> QED
      BY <1>1, <3>1, <3>2, <3>3, SeriesSteps DEF vars, pageVars
  <2>4. PICK t \in Requests : \A s \in Requests : Runs(req[s]) => s = t
    BY <2>1, SeriesPageAssumption DEF Alone
  <2>5. Active' \subseteq {r, t}
    BY <2>3, <2>4 DEF Active, Runs
  <2>6. IsFiniteSet(Active')
    <3>1. IsFiniteSet({r, t})
      <4>1. IsFiniteSet({r}) /\ {r, t} = {r} \union {t}
        BY FS_Singleton
      <4> QED
        BY <4>1, FS_AddElement
    <3> HIDE DEF Active
    <3> QED
      BY <2>5, <3>1, FS_Subset
  <2>7. ASSUME NEW a \in Active', NEW b \in Active', a # b PROVE FALSE
    <3>1. Cardinality({a, b}) = 2 /\ IsFiniteSet({a, b})
      <4>1. IsFiniteSet({a}) /\ Cardinality({a}) = 1
        BY FS_Singleton
      <4>2. {a, b} = {a} \union {b} /\ b \notin {a}
        BY <2>7
      <4> QED
        BY <4>1, <4>2, FS_AddElement
    <3>2. {a, b} \subseteq Active'
      BY <2>7
    <3>3. Cardinality({a, b}) <= Cardinality(Active') /\ Cardinality(Active') \in Nat
      BY <2>6, <3>2, FS_Subset, FS_CardinalityType
    <3>4. ~(Cardinality(Active') > 1)
      BY <2>1 DEF Missing
    <3> QED
      BY <3>1, <3>3, <3>4
  <2>8. \A s \in Requests : Runs(req'[s]) => s \in Active'
    BY DEF Active, Runs
  <2> QED
    BY <2>2, <2>7, <2>8
<1> QED
  BY <1>1, <1>2

-----------------------------------------------------------------------------
(* What is right stays right, or becomes due. *)
OneNow(s, p, q) ==
  /\ s.deleted => Ends(q)
  /\ AnswerRight(s, q)
  /\ IssuesRight(s, p.items) \/ IssuesDue(q)
  /\ p.view = "loading" \/ SourcesRight(s, p.items) \/ SourcesDue(q)
  /\ p.view = "loading" \/ PlanRight(s, p) \/ PlanDue(q)
  /\ p.paused = s.paused \/ PausedDue(q)

LEMMA OnlyOne ==
  ASSUME NEW s, NEW p, NEW rq, NEW r \in Requests, \A t \in Requests \ {r} : ~Runs(rq[t])
  PROVE  Now(s, p, rq) <=> OneNow(s, p, rq[r])
<1>1. \A t \in Requests : t # r =>
        /\ ~Ends(rq[t]) /\ ~IssuesDue(rq[t]) /\ ~SourcesDue(rq[t]) /\ ~PlanDue(rq[t])
        /\ ~PausedDue(rq[t]) /\ AnswerRight(s, rq[t])
  BY DEF Ends, IssuesDue, SourcesDue, PlanDue, PausedDue, AnswerRight
<1> QED
  BY <1>1 DEF Now, OneNow

(* The worker's steps keep what they touch busy, or the plan without issues. *)
LEMMA NowServer ==
  ASSUME NEW s, NEW t, NEW p, NEW rq, Now(s, p, rq),
         \A items : IssuesRight(s, items) => IssuesRight(t, items),
         \A items : SourcesRight(s, items) => SourcesRight(t, items),
         \A a : PlanRight(s, a) => PlanRight(t, a),
         t.paused = s.paused, t.deleted = s.deleted
  PROVE  Now(t, p, rq)
<1>1. \A r \in Requests : AnswerRight(s, rq[r]) => AnswerRight(t, rq[r])
  BY DEF AnswerRight
<1> QED
  BY <1>1 DEF Now

LEMMA WorkerNow ==
  ASSUME Shaped, Alone, ~missed, WorkerStep, Now(server, page, req)
  PROVE  Now(server', page, req)
<1>1. server'.paused = server.paused /\ server'.deleted = server.deleted
  BY WorkerIs
<1>2. IsServer(server) /\ MaxIssues \in Nat
  BY ServerIsShaped, ItemsTyped
<1>3. CASE PlanEnds
  <2>1. CASE server' = server
    BY <2>1
  <2>2. CASE server' # server
    <3>1. /\ server.plan = "generating"
          /\ \/ \E n \in {0, MaxIssues} : server' = [server EXCEPT !.plan = "ready", !.modules = n]
             \/ server' = [server EXCEPT !.plan = "failed", !.modules = 0]
      BY <1>3, <2>2 DEF PlanEnds
    <3>2. server'.items = server.items
      BY <1>2, <3>1 DEF IsServer
    <3>3. /\ \A items : IssuesRight(server, items) => IssuesRight(server', items)
          /\ \A items : SourcesRight(server, items) => SourcesRight(server', items)
          /\ \A a : PlanRight(server, a) => PlanRight(server', a)
      BY <3>1, <3>2 DEF IssuesRight, SourcesRight, PlanRight
    <3> QED
      BY <1>1, <3>3, NowServer
  <2> QED
    BY <2>1, <2>2
<1>4. CASE Materialize
  <2>1. CASE server' = server
    BY <2>1
  <2>2. CASE server' # server
    <3> DEFINE new == [i \in Items |->
             IF i <= server.modules /\ server.items[i] \in {"none", "failed"} /\ ~server.deleted
             THEN "busy" ELSE server.items[i]]
    <3>1. server' = [server EXCEPT !.items = new]
      BY <1>4, <2>2, Zenon DEF Materialize
    <3>2. server.plan = "ready" /\ NoIssues
      BY <1>4 DEF Materialize, Shaped, Alone
    <3>3. /\ \A i \in SourceIds : new[i] = server.items[i]
          /\ server.modules > 0 \/ \A i \in IssueIds : new[i] = server.items[i]
      <4>1. \A i \in SourceIds : i \in Items /\ ~(i <= server.modules)
        BY <1>2, ItemsTyped DEF SourceIds, Items, IsServer
      <4>2. server.modules \in Nat
        BY <1>2 DEF IsServer
      <4>3. server.modules > 0 \/ \A i \in IssueIds : i \in Items /\ ~(i <= server.modules)
        BY <4>2, ItemsTyped
      <4> QED
        BY <4>1, <4>3
    <3> HIDE DEF new
    <3>4. server'.items = new /\ server'.plan = server.plan /\ server'.modules = server.modules
      BY <1>2, <3>1 DEF IsServer
    <3>5. /\ \A items : IssuesRight(server, items) => IssuesRight(server', items)
          /\ \A items : SourcesRight(server, items) => SourcesRight(server', items)
          /\ \A a : PlanRight(server, a) => PlanRight(server', a)
      BY <3>2, <3>3, <3>4 DEF IssuesRight, SourcesRight, PlanRight, NoIssues
    <3> QED
      BY <1>1, <3>5, NowServer
  <2> QED
    BY <2>1, <2>2
<1>5. ASSUME NEW i \in Items, ItemEnds(i)
      PROVE  Now(server', page, req)
  <2>1. PICK v : server' = [server EXCEPT !.items[i] = v]
    BY <1>5 DEF ItemEnds
  <2>2. server.items[i] = "busy"
    BY <1>5 DEF ItemEnds
  <2>3. /\ \A j \in Items : j # i => server'.items[j] = server.items[j]
        /\ server'.plan = server.plan /\ server'.modules = server.modules
    BY <1>2, <2>1 DEF IsServer, IsMap
  <2>4. \A j : j \in IssueIds \/ j \in SourceIds => j \in Items
    BY ItemsTyped
  <2>5. /\ \A items : IssuesRight(server, items) => IssuesRight(server', items)
        /\ \A items : SourcesRight(server, items) => SourcesRight(server', items)
        /\ \A a : PlanRight(server, a) => PlanRight(server', a)
    BY <2>2, <2>3, <2>4 DEF IssuesRight, SourcesRight, PlanRight
  <2> QED
    BY <1>1, <2>5, NowServer
<1> QED
  BY <1>3, <1>4, <1>5 DEF WorkerStep

(* A handler that begins takes nothing away. *)
LEMMA BeginsNow ==
  ASSUME Shaped, NEW r \in Requests, NEW h, NEW calls, Begins(r, h, calls),
         Now(server, page, req)
  PROVE  Now(server, page', req')
<1>1. /\ ~Runs(req[r])
      /\ \A s \in Requests \ {r} : req'[s] = req[s]
      /\ req'[r].stage = "asked"
  BY RequestShape DEF Begins, Idle
<1>2. /\ page'.view = page.view /\ page'.plan = page.plan /\ page'.modules = page.modules
      /\ page'.items = page.items /\ page'.paused = page.paused
  BY DEF Begins, Shaped
<1>3. \A s \in Requests :
        /\ Ends(req[s]) => Ends(req'[s])
        /\ IssuesDue(req[s]) => IssuesDue(req'[s])
        /\ SourcesDue(req[s]) => SourcesDue(req'[s])
        /\ PlanDue(req[s]) => PlanDue(req'[s])
        /\ PausedDue(req[s]) => PausedDue(req'[s])
  BY <1>1 DEF Ends, IssuesDue, SourcesDue, PlanDue, PausedDue
<1>4. \A s \in Requests : AnswerRight(server, req[s]) => AnswerRight(server, req'[s])
  BY <1>1 DEF AnswerRight
<1>5. PlanRight(server, page) => PlanRight(server, page')
  BY <1>2 DEF PlanRight
<1> QED
  BY <1>2, <1>3, <1>4, <1>5 DEF Now

(* A call that is served is answered with what the server has then. *)
LEMMA AfterIs ==
  ASSUME IsServer(server), NEW c, ~Refused(c),
         c.op = "generate" => c.id \in IssueIds, c.op = "deleteSource" => c.id \in SourceIds
  PROVE  /\ After(c).deleted = IF c.op = "deleteSeries" THEN TRUE ELSE server.deleted
         /\ c.op = "pause" => After(c).paused
         /\ c.op = "resume" => ~After(c).paused
         /\ c.op \notin {"pause", "resume"} => After(c).paused = server.paused
         /\ After(c).plan = IF c.op = "generatePlan" THEN "generating" ELSE server.plan
         /\ After(c).modules = server.modules
         /\ c.op \notin IssueOps => \A i \in IssueIds : After(c).items[i] = server.items[i]
         /\ c.op \notin SourceOps => \A i \in SourceIds : After(c).items[i] = server.items[i]
<1>1. \A i, v : /\ [server EXCEPT !.items[i] = v].deleted = server.deleted
                /\ [server EXCEPT !.items[i] = v].paused = server.paused
                /\ [server EXCEPT !.items[i] = v].plan = server.plan
                /\ [server EXCEPT !.items[i] = v].modules = server.modules
                /\ \A j \in Items : j # i => [server EXCEPT !.items[i] = v].items[j] = server.items[j]
  BY DEF IsServer, IsMap
<1>2. \A i \in IssueIds : i \in Items /\ i \notin SourceIds
  BY ItemsTyped
<1>3. \A i \in SourceIds : i \in Items /\ i \notin IssueIds
  BY ItemsTyped
<1>4. CASE c.op = "createIssue"
  <2>1. (CHOOSE i \in Fresh(IssueIds) : TRUE) \in IssueIds
    BY <1>4 DEF Refused, Fresh
  <2> DEFINE i == CHOOSE i \in Fresh(IssueIds) : TRUE
  <2>2. After(c) = [server EXCEPT !.items[i] = "busy"]
    BY <1>4 DEF After
  <2> HIDE DEF i
  <2>3. i \in IssueIds
    BY <2>1 DEF i
  <2> QED
    BY <1>1, <1>3, <1>4, <2>2, <2>3 DEF IssueOps
<1>5. CASE c.op = "addSource"
  <2>1. (CHOOSE i \in Fresh(SourceIds) : TRUE) \in SourceIds
    BY <1>5 DEF Refused, Fresh
  <2> DEFINE i == CHOOSE i \in Fresh(SourceIds) : TRUE
  <2>2. After(c) = [server EXCEPT !.items[i] = "busy"]
    BY <1>5 DEF After
  <2> HIDE DEF i
  <2>3. i \in SourceIds
    BY <2>1 DEF i
  <2> QED
    BY <1>1, <1>2, <1>5, <2>2, <2>3 DEF SourceOps
<1>6. CASE c.op = "generate"
  <2>1. After(c) = [server EXCEPT !.items[c.id] = "busy"] /\ c.id \in IssueIds
    BY <1>6 DEF After
  <2> QED
    BY <1>1, <1>3, <1>6, <2>1 DEF IssueOps
<1>7. CASE c.op = "deleteSource"
  <2>1. After(c) = [server EXCEPT !.items[c.id] = "none"] /\ c.id \in SourceIds
    BY <1>7 DEF After
  <2> QED
    BY <1>1, <1>2, <1>7, <2>1 DEF SourceOps
<1>8. CASE c.op \in {"generatePlan", "pause", "resume", "deleteSeries"}
  BY <1>8 DEF After, IsServer
<1>9. CASE c.op \notin {"createIssue", "addSource", "generate", "deleteSource",
                        "generatePlan", "pause", "resume", "deleteSeries"}
  BY <1>9 DEF After
<1> QED
  BY <1>4, <1>5, <1>6, <1>7, <1>8, <1>9

LEMMA OthersRest ==
  ASSUME Alone, ~missed, NEW r \in Requests, Runs(req[r]), Alters(r)
  PROVE  \A s \in Requests \ {r} : ~Runs(req[s]) /\ ~Runs(req'[s])
BY DEF Alone, Alters

LEMMA ServesNow ==
  ASSUME Shaped, Alone, ~missed, work' = "plan" => NoIssues', NEW r \in Requests,
         Serves(r, Head(req[r].calls)), Now(server, page, req)
  PROVE  Now(server', page, req')
<1> DEFINE q == req[r]
           n == req'[r]
           c == Head(q.calls)
<1>1. /\ Alters(r) /\ Runs(q) /\ q.stage = "asked" /\ n.stage = "answered"
      /\ n.handler = q.handler /\ n.calls = q.calls
  BY DEF Serves
<1>2. \A s \in Requests \ {r} : ~Runs(req[s]) /\ ~Runs(req'[s])
  BY <1>1, OthersRest
<1>3. OneNow(server, page, q)
  BY <1>2, OnlyOne
<1>4. c.op = First(q) /\ First(n) = First(q) /\ Runs(n) /\ ~Done(q)
  BY <1>1 DEF First, Runs, Done
<1>5. ~server.deleted
  BY <1>3, <1>4 DEF OneNow, Ends
<1>6. /\ c.op = "generate" => c.id \in IssueIds
      /\ c.op = "deleteSource" => c.id \in SourceIds
  <2>1. RequestShaped(q)
    BY DEF Shaped
  <2> QED
    BY <1>1, <1>4, <2>1, RequestFacts
<1>7. CASE Refused(c)
  <2>1. server' = server /\ ~n.ok
    BY <1>7 DEF Serves
  <2>2. First(q) \in Changes
    BY <1>4, <1>5, <1>7 DEF Refused, Changes, IssueOps, SourceOps
  <2>3. OneNow(server, page, n)
    BY <1>1, <1>3, <1>4, <1>5, <2>1, <2>2
       DEF OneNow, AnswerRight, IssuesDue, SourcesDue, PlanDue, PausedDue, Changes, IssueOps, SourceOps
  <2> QED
    BY <1>2, <2>1, <2>3, OnlyOne
<1>8. CASE ~Refused(c)
  <2>1. server' = After(c) /\ n.ok /\ n.got = Got(c, server') /\ (c.op = "generatePlan" => work' = "plan")
    BY <1>8 DEF Serves
  <2>2. IsServer(server) /\ IsServer(server')
    BY <2>1, ServerIsShaped, AfterShaped
  <2> HIDE DEF q, n
  <2>3. /\ server'.deleted = IF c.op = "deleteSeries" THEN TRUE ELSE server.deleted
        /\ c.op = "pause" => server'.paused
        /\ c.op = "resume" => ~server'.paused
        /\ c.op \notin {"pause", "resume"} => server'.paused = server.paused
        /\ server'.plan = IF c.op = "generatePlan" THEN "generating" ELSE server.plan
        /\ server'.modules = server.modules
        /\ c.op \notin IssueOps => \A i \in IssueIds : server'.items[i] = server.items[i]
        /\ c.op \notin SourceOps => \A i \in SourceIds : server'.items[i] = server.items[i]
    <3> HIDE DEF c
    <3> QED
      BY <1>6, <1>8, <2>1, <2>2, AfterIs
  <2>4. Done(n)
    BY <1>1, <2>1 DEF Done
  <2>5. server'.deleted => Ends(n)
    BY <1>4, <1>5, <2>3, <2>4 DEF Ends
  <2>6. AnswerRight(server', n)
    <3>1. /\ c.op = "getIssues" => \A i \in IssueIds : n.got.items[i] = server'.items[i]
          /\ c.op = "getSources" => \A i \in SourceIds : n.got.items[i] = server'.items[i]
          /\ c.op = "getPlan" => n.got.plan = server'.plan /\ n.got.modules = server'.modules
          /\ c.op \in {"getSeries", "update"} => n.got.paused = server'.paused
      <4> DEFINE got == Got(c, server')
      <4>1. n.got = got
        BY <2>1
      <4>2. /\ c.op = "getIssues" => \A i \in IssueIds : got.items[i] = server'.items[i]
            /\ c.op = "getSources" => \A i \in SourceIds : got.items[i] = server'.items[i]
            /\ c.op = "getPlan" => got.plan = server'.plan /\ got.modules = server'.modules
            /\ c.op \in {"getSeries", "update"} => got.paused = server'.paused
        <5> HIDE DEF c
        <5> QED
          BY <2>2, GotIs
      <4> HIDE DEF c, got
      <4> QED
        BY <4>1, <4>2
    <3>2. c.op \in {"pause", "resume"} => server'.paused = (c.op = "pause")
      <4>1. server'.paused \in BOOLEAN \/ c.op \notin {"pause", "resume"}
        <5> HIDE DEF c
        <5> QED
          BY <2>1, <2>2 DEF After, IsServer
      <4> QED
        BY <2>3, <4>1
    <3> HIDE DEF c
    <3> QED
      BY <1>4, <2>1, <3>1, <3>2 DEF AnswerRight, IssuesRight, SourcesRight, PlanRight
  <2>7. IssuesRight(server', page.items) \/ IssuesDue(n)
    <3>1. CASE c.op \in IssueOps \union {"getIssues"}
      BY <1>4, <2>4, <3>1 DEF IssuesDue
    <3>2. CASE c.op = "generatePlan"
      <4>1. \A i \in IssueIds : server.items[i] = "none" /\ server'.items[i] = "none"
        BY <2>1, <2>3, <3>2 DEF NoIssues, IssueOps
      <4>2. IssuesRight(server, page.items)
        BY <1>3, <1>4, <3>2 DEF OneNow, IssuesDue
      <4> QED
        BY <4>1, <4>2 DEF IssuesRight
    <3>3. CASE c.op \notin IssueOps \union {"getIssues", "generatePlan"}
      <4>1. IssuesRight(server, page.items)
        BY <1>3, <1>4, <3>3 DEF OneNow, IssuesDue
      <4> QED
        BY <2>3, <3>3, <4>1 DEF IssuesRight
    <3> QED
      BY <3>1, <3>2, <3>3
  <2>8. page.view = "loading" \/ SourcesRight(server', page.items) \/ SourcesDue(n)
    <3>1. CASE c.op \in SourceOps
      BY <1>4, <2>4, <3>1 DEF SourcesDue
    <3>2. CASE c.op \notin SourceOps
      <4>1. SourcesDue(q) => SourcesDue(n)
        BY <1>1, <1>4 DEF SourcesDue, q, n
      <4>2. SourcesRight(server, page.items) => SourcesRight(server', page.items)
        BY <2>3, <3>2 DEF SourcesRight
      <4> QED
        BY <1>3, <4>1, <4>2 DEF OneNow
    <3> QED
      BY <3>1, <3>2
  <2>9. page.view = "loading" \/ PlanRight(server', page) \/ PlanDue(n)
    <3>1. CASE c.op = "generatePlan"
      BY <1>4, <2>4, <3>1 DEF PlanDue
    <3>2. CASE c.op # "generatePlan"
      <4>1. PlanDue(q) => PlanDue(n)
        BY <1>1, <1>4 DEF PlanDue, q, n
      <4>2. PlanRight(server, page) => PlanRight(server', page)
        BY <2>3, <3>2 DEF PlanRight
      <4> QED
        BY <1>3, <4>1, <4>2 DEF OneNow
    <3> QED
      BY <3>1, <3>2
  <2>10. page.paused = server'.paused \/ PausedDue(n)
    <3>1. CASE c.op \in {"pause", "resume"}
      BY <1>4, <2>4, <3>1 DEF PausedDue
    <3>2. CASE c.op \notin {"pause", "resume"}
      BY <1>3, <1>4, <2>3, <3>2 DEF OneNow, PausedDue
    <3> QED
      BY <3>1, <3>2
  <2>11. OneNow(server', page, n)
    BY <2>5, <2>6, <2>7, <2>8, <2>9, <2>10 DEF OneNow
  <2> QED
    BY <1>2, <2>11, OnlyOne DEF n
<1> QED
  BY <1>7, <1>8

(* An answer puts what it has on the page, and asks what comes next. *)
LEMMA ToldIs ==
  ASSUME IsPage(page), NEW c, NEW got
  PROVE  /\ c.op = "getIssues" => \A i \in IssueIds : Told(c, got).items[i] = got.items[i]
         /\ c.op # "getIssues" => \A i \in IssueIds : Told(c, got).items[i] = page.items[i]
         /\ c.op = "getSources" => \A i \in SourceIds : Told(c, got).items[i] = got.items[i]
         /\ c.op # "getSources" => \A i \in SourceIds : Told(c, got).items[i] = page.items[i]
         /\ Told(c, got).plan = IF c.op = "getPlan" THEN got.plan
                                ELSE IF c.op = "generatePlan" THEN "generating" ELSE page.plan
         /\ Told(c, got).modules = IF c.op = "getPlan" THEN got.modules ELSE page.modules
         /\ c.op \in {"getSeries", "update"} => Told(c, got).paused = got.paused
         /\ c.op \in {"pause", "resume"} => Told(c, got).paused = (c.op = "pause")
         /\ c.op \notin {"getSeries", "update", "pause", "resume"} => Told(c, got).paused = page.paused
         /\ c.op # "getSeries" => Told(c, got).view = page.view
<1>1. /\ \A i \in IssueIds : i \in Items /\ i \notin SourceIds
      /\ \A i \in SourceIds : i \in Items /\ i \notin IssueIds
  BY ItemsTyped
<1>2. CASE c.op = "getIssues"
  <2>1. Told(c, got) = [page EXCEPT !.items = Replaced(IssueIds, got)]
    BY <1>2 DEF Told
  <2>2. /\ \A i \in IssueIds : Replaced(IssueIds, got)[i] = got.items[i]
        /\ \A i \in SourceIds : Replaced(IssueIds, got)[i] = page.items[i]
    BY <1>1 DEF Replaced
  <2> QED
    BY <1>2, <2>1, <2>2 DEF IsPage
<1>3. CASE c.op = "getSources"
  <2>1. Told(c, got) = [page EXCEPT !.items = Replaced(SourceIds, got)]
    BY <1>3 DEF Told
  <2>2. /\ \A i \in SourceIds : Replaced(SourceIds, got)[i] = got.items[i]
        /\ \A i \in IssueIds : Replaced(SourceIds, got)[i] = page.items[i]
    BY <1>1 DEF Replaced
  <2> QED
    BY <1>3, <2>1, <2>2 DEF IsPage
<1>4. CASE c.op \in {"getSeries", "getPlan", "generatePlan", "update"}
  BY <1>4 DEF Told, IsPage
<1>5. CASE c.op \in {"pause", "resume"}
  BY <1>5 DEF Told, IsPage
<1>6. CASE c.op \notin {"getSeries", "getIssues", "getSources", "getPlan", "generatePlan",
                        "update", "pause", "resume"}
  BY <1>6 DEF Told
<1> QED
  BY <1>2, <1>3, <1>4, <1>5, <1>6

LEMMA FailedIs ==
  ASSUME IsPage(page), NEW h, NEW c, c.op \in Changes
  PROVE  /\ Failed(h, c).items = page.items /\ Failed(h, c).paused = page.paused
         /\ Failed(h, c).plan = page.plan /\ Failed(h, c).modules = page.modules
         /\ h \notin AllButtons => Failed(h, c).view = page.view
<1>1. ASSUME NEW got PROVE Told(c, got) = page
  BY DEF Told, Changes, IssueOps, SourceOps
<1>2. Failed(h, c) = page \/ (h \in AllButtons /\ Failed(h, c) = [page EXCEPT !.view = "error"])
  <2>1. c.op # "getSeries"
    BY DEF Changes, IssueOps, SourceOps
  <2> HIDE DEF Changes, IssueOps, SourceOps
  <2>2. CASE h = "open"
    <3> DEFINE got == [Unread EXCEPT !.plan = page.plan, !.modules = page.modules]
    <3>1. Told(c, got) = page
      BY <1>1
    <3>2. Failed(h, c) = Told(c, got)
      BY <2>1, <2>2, Zenon DEF Failed
    <3> QED
      BY <3>1, <3>2
  <2>3. CASE h \in {"retry", "retryAll", "pause", "test"}
    BY <2>3 DEF Failed, AllButtons
  <2>4. CASE h \notin {"open", "retry", "retryAll", "pause", "test"}
    BY <2>4 DEF Failed
  <2> QED
    BY <2>2, <2>3, <2>4
<1> QED
  BY <1>2 DEF IsPage

LEMMA AnswersNow ==
  ASSUME Shaped, Early, Alone, ~missed, where = "page", where' = "page", NEW r \in Requests,
         Answers(r), Now(server, page, req)
  PROVE  Now(server, page', req')
<1> DEFINE q == req[r]
           n == req'[r]
           c == Head(q.calls)
           m == Shows(q)
<1>1. /\ Alters(r) /\ Runs(q) /\ q.stage = "answered"
      /\ page' = Retrying(m, q.handler, Rest(q)) /\ ~(First(q) = "deleteSeries" /\ q.ok)
      /\ IF Rest(q) = <<>> THEN n = Idle
         ELSE /\ n.stage = "asked" /\ n.handler = q.handler /\ n.calls = Rest(q)
  BY DEF Answers
<1>2. \A s \in Requests \ {r} : ~Runs(req[s]) /\ ~Runs(req'[s])
  BY <1>1, OthersRest
<1>3. OneNow(server, page, q)
  BY <1>2, OnlyOne
<1>4. IsPage(page) /\ IsPage(m)
  BY AnswerShaped DEF Shaped, IsPage
<1>5. RequestShaped(q)
  BY DEF Shaped
<1>6. page.view = "loading" => q.handler \notin AllButtons
  BY DEF Early
<1>7. c.op = First(q) /\ m = IF q.ok THEN Told(c, q.got) ELSE Failed(q.handler, c)
  BY DEF First, Shows
<1> HIDE DEF q, n, c, m
<1>8. /\ page'.items = m.items /\ page'.plan = m.plan /\ page'.modules = m.modules
      /\ page'.paused = m.paused
      /\ q.handler \notin AllButtons => page'.view = m.view
  BY <1>1, <1>4, RetryingShaped DEF AllButtons
<1>9. ~server.deleted
  BY <1>1, <1>3 DEF OneNow, Ends, Done
<1>10. AnswerRight(server, n)
  BY <1>1 DEF AnswerRight, Idle
<1>11. AnswerRight(server, q)
  BY <1>3 DEF OneNow
<1>12. CASE ~q.ok
  <2>1. First(q) \in Changes
    BY <1>1, <1>11, <1>12 DEF AnswerRight
  <2>2. /\ m.items = page.items /\ m.paused = page.paused /\ m.plan = page.plan
        /\ m.modules = page.modules /\ (q.handler \notin AllButtons => m.view = page.view)
    BY <1>4, <1>7, <1>12, <2>1, FailedIs
  <2>3. ~IssuesDue(q) /\ ~SourcesDue(q) /\ ~PlanDue(q) /\ ~PausedDue(q)
    BY <1>12, <2>1 DEF IssuesDue, SourcesDue, PlanDue, PausedDue, Done, Changes, IssueOps, SourceOps
  <2>4. /\ IssuesRight(server, page.items)
        /\ page.view = "loading" \/ SourcesRight(server, page.items)
        /\ page.view = "loading" \/ PlanRight(server, page)
        /\ page.paused = server.paused
    BY <1>3, <2>3 DEF OneNow
  <2>5. page.view = "loading" => page'.view = "loading"
    BY <1>6, <1>8, <2>2
  <2>6. PlanRight(server, page) => PlanRight(server, page')
    BY <1>8, <2>2 DEF PlanRight
  <2>7. OneNow(server, page', n)
    BY <1>8, <1>9, <1>10, <2>2, <2>4, <2>5, <2>6 DEF OneNow
  <2> QED
    BY <1>2, <2>7, OnlyOne DEF n
<1>13. CASE q.ok
  <2>1. m = Told(c, q.got) /\ Rest(q) = Tail(q.calls)
    BY <1>7, <1>13 DEF Rest
  <2>2. /\ c.op = "getIssues" => \A i \in IssueIds : m.items[i] = q.got.items[i]
        /\ c.op # "getIssues" => \A i \in IssueIds : m.items[i] = page.items[i]
        /\ c.op = "getSources" => \A i \in SourceIds : m.items[i] = q.got.items[i]
        /\ c.op # "getSources" => \A i \in SourceIds : m.items[i] = page.items[i]
        /\ m.plan = IF c.op = "getPlan" THEN q.got.plan
                    ELSE IF c.op = "generatePlan" THEN "generating" ELSE page.plan
        /\ m.modules = IF c.op = "getPlan" THEN q.got.modules ELSE page.modules
        /\ c.op \in {"getSeries", "update"} => m.paused = q.got.paused
        /\ c.op \in {"pause", "resume"} => m.paused = (c.op = "pause")
        /\ c.op \notin {"getSeries", "update", "pause", "resume"} => m.paused = page.paused
        /\ c.op # "getSeries" => m.view = page.view
    BY <1>4, <2>1, ToldIs
  <2>3. page.view = "loading" /\ c.op # "getSeries" => page'.view = "loading"
    BY <1>6, <1>8, <2>2
  <2>4. Tail(q.calls) # <<>> => /\ Runs(n) /\ n.handler = q.handler
                                /\ First(n) = Head(Tail(q.calls)).op
    BY <1>1, <2>1 DEF Runs, First
  <2>5. c.op \in Changes => Runs(n) /\ First(n) = ReadBack(c.op)
    BY <1>1, <1>5, <1>7, <2>4, RequestFacts
  <2>6. q.handler = "open" \/ c.op = "getSeries" =>
          /\ n.handler = "open" \/ c.op = "getPlan"
          /\ c.op = "getSeries" => Runs(n) /\ First(n) = "getIssues"
          /\ c.op = "getIssues" => Runs(n) /\ First(n) = "getSources"
          /\ c.op = "getSources" => Runs(n) /\ First(n) = "getPlan"
    <3>1. c.op = "getSeries" => q.handler = "open"
      BY <1>1, <1>5, <1>7, RequestFacts
    <3>2. CASE q.handler = "open"
      <4>1. q.calls \in Opening
        BY <1>5, <3>2 DEF RequestShaped
      <4>2. c = Head(q.calls)
        BY DEF c
      <4> QED
        BY <2>4, <3>2, <4>1, <4>2, OpeningTail
    <3> QED
      BY <3>1, <3>2
  <2>7. IssuesRight(server, page'.items) \/ IssuesDue(n)
    <3>1. CASE c.op = "getIssues"
      <4>1. IssuesRight(server, q.got.items)
        BY <1>1, <1>7, <1>11, <1>13, <3>1 DEF AnswerRight
      <4>2. \A i \in IssueIds : page'.items[i] = q.got.items[i]
        BY <1>8, <2>2, <3>1
      <4> QED
        BY <4>1, <4>2 DEF IssuesRight
    <3>2. CASE c.op \in IssueOps
      BY <2>5, <3>2 DEF IssuesDue, Changes, ReadBack
    <3>3. CASE c.op \notin IssueOps \union {"getIssues"}
      <4>1. IssuesRight(server, page.items)
        BY <1>3, <1>7, <3>3 DEF OneNow, IssuesDue
      <4>2. \A i \in IssueIds : page'.items[i] = page.items[i]
        BY <1>8, <2>2, <3>3
      <4> QED
        BY <4>1, <4>2 DEF IssuesRight
    <3> QED
      BY <3>1, <3>2, <3>3
  <2>8. page'.view = "loading" \/ SourcesRight(server, page'.items) \/ SourcesDue(n)
    <3>1. CASE c.op = "getSources"
      <4>1. SourcesRight(server, q.got.items)
        BY <1>1, <1>7, <1>11, <1>13, <3>1 DEF AnswerRight
      <4>2. \A i \in SourceIds : page'.items[i] = q.got.items[i]
        BY <1>8, <2>2, <3>1
      <4> QED
        BY <4>1, <4>2 DEF SourcesRight
    <3>2. CASE c.op \in SourceOps
      BY <2>5, <3>2 DEF SourcesDue, Changes, ReadBack, SourceOps, IssueOps
    <3>3. CASE c.op = "getSeries" \/ (c.op = "getIssues" /\ q.handler = "open")
      BY <2>6, <3>3 DEF SourcesDue
    <3>4. CASE /\ c.op \notin SourceOps \union {"getSources", "getSeries"}
               /\ ~(c.op = "getIssues" /\ q.handler = "open")
      <4>1. page.view = "loading" \/ SourcesRight(server, page.items)
        BY <1>3, <1>7, <3>4 DEF OneNow, SourcesDue
      <4>2. \A i \in SourceIds : page'.items[i] = page.items[i]
        BY <1>8, <2>2, <3>4
      <4> QED
        BY <2>3, <3>4, <4>1, <4>2 DEF SourcesRight
    <3> QED
      BY <3>1, <3>2, <3>3, <3>4
  <2>9. page'.view = "loading" \/ PlanRight(server, page') \/ PlanDue(n)
    <3>1. CASE c.op = "getPlan"
      <4>1. PlanRight(server, q.got)
        BY <1>1, <1>7, <1>11, <1>13, <3>1 DEF AnswerRight
      <4> QED
        BY <1>8, <2>2, <3>1, <4>1 DEF PlanRight
    <3>2. CASE c.op = "generatePlan"
      BY <1>8, <2>2, <3>2 DEF PlanRight
    <3>3. CASE c.op = "getSeries" \/ (c.op \in {"getIssues", "getSources"} /\ q.handler = "open")
      BY <2>6, <3>3 DEF PlanDue
    <3>4. CASE /\ c.op \notin {"getPlan", "generatePlan", "getSeries"}
               /\ ~(c.op \in {"getIssues", "getSources"} /\ q.handler = "open")
      <4>1. page.view = "loading" \/ PlanRight(server, page)
        BY <1>3, <1>7, <3>4 DEF OneNow, PlanDue
      <4>2. page'.plan = page.plan /\ page'.modules = page.modules
        BY <1>8, <2>2, <3>4
      <4> QED
        BY <2>3, <3>4, <4>1, <4>2 DEF PlanRight
    <3> QED
      BY <3>1, <3>2, <3>3, <3>4
  <2>10. page'.paused = server.paused
    <3>1. CASE c.op \in {"getSeries", "update"}
      BY <1>1, <1>7, <1>8, <1>11, <1>13, <2>2, <3>1 DEF AnswerRight
    <3>2. CASE c.op \in {"pause", "resume"}
      <4>1. server.paused = (c.op = "pause")
        BY <1>1, <1>7, <1>11, <1>13, <3>2 DEF AnswerRight
      <4> QED
        BY <1>8, <2>2, <3>2, <4>1
    <3>3. CASE c.op \notin {"getSeries", "update", "pause", "resume"}
      BY <1>3, <1>7, <1>8, <2>2, <3>3 DEF OneNow, PausedDue
    <3> QED
      BY <3>1, <3>2, <3>3
  <2>11. OneNow(server, page', n)
    BY <1>9, <1>10, <2>7, <2>8, <2>9, <2>10 DEF OneNow
  <2> QED
    BY <1>2, <2>11, OnlyOne DEF n
<1> QED
  BY <1>12, <1>13

LEMMA CurrentStep == ASSUME Shaped, Early, Alone, Current, [Next]_vars PROVE Current'
<1> SUFFICES ASSUME where' = "page", faults' = 0, ~missed'
             PROVE  Now(server', page', req')
  BY DEF Current, Now, Ends, Runs, Done, First, AnswerRight, IssuesDue, SourcesDue, PlanDue, PausedDue,
         IssuesRight, SourcesRight, PlanRight
<1>1. ~missed /\ (work' \in {"plan", "materialize"} => NoIssues')
  <2>1. CASE Next
    <3>1. ~missed /\ ~Missing
      BY <2>1 DEF Next
    <3> QED
      BY <3>1 DEF Missing, NoIssues
  <2>2. CASE UNCHANGED vars
    BY <2>2 DEF vars, pageVars, Alone, NoIssues
  <2> QED
    BY <2>1, <2>2
<1>2. where = "page" /\ faults = 0 => Now(server, page, req)
  BY <1>1 DEF Current
<1>3. CASE FormStep
  <2>1. faults = 0 /\ UNCHANGED <<page, req>>
    BY <1>3, FormStepIs
  <2>2. CASE where = "form"
    <3>1. server' = server
      BY <1>3, <2>2, FormStepIs
    <3>2. page = Closed /\ (\A r \in Requests : ~Runs(req[r]))
          /\ NoIssues /\ server.paused = FALSE /\ ~server.deleted
      BY <2>2 DEF Early
    <3>3. /\ \A i \in IssueIds : page.items[i] = server.items[i]
          /\ page.view = "loading" /\ page.paused = FALSE
      BY <3>2, ItemsTyped DEF Closed, NoItems, NoIssues
    <3>4. IssuesRight(server, page.items)
      BY <3>3 DEF IssuesRight
    <3>5. \A r \in Requests : AnswerRight(server, req[r])
      BY <3>2 DEF AnswerRight
    <3>6. page.paused = server.paused
      BY <3>2, <3>3
    <3>7. Now(server, page, req)
      BY <3>2, <3>3, <3>4, <3>5, <3>6 DEF Now
    <3> QED
      BY <2>1, <3>1, <3>7
  <2>3. CASE where # "form"
    <3>1. UNCHANGED <<server, where>>
      BY <1>3, <2>3, FormStepIs
    <3> QED
      BY <1>2, <2>1, <3>1
  <2> QED
    BY <2>2, <2>3
<1>4. CASE WorkerStep
  <2>1. UNCHANGED <<page, req, where, faults>>
    BY <1>4, WorkerIs
  <2> QED
    BY <1>1, <1>2, <1>4, <2>1, WorkerNow
<1>5. ASSUME NEW r \in Requests, RequestStep(r)
      PROVE  Now(server', page', req')
  <2>1. CASE \E h, calls : Begins(r, h, calls)
    <3>1. PICK h, calls : Begins(r, h, calls)
      BY <2>1
    <3>2. UNCHANGED <<where, faults, server>>
      BY <3>1 DEF Begins
    <3> QED
      BY <1>2, <3>1, <3>2, BeginsNow
  <2>2. CASE Serves(r, Head(req[r].calls))
    <3>1. UNCHANGED <<page, where, faults>>
      BY <2>2 DEF Serves
    <3> QED
      BY <1>1, <1>2, <2>2, <3>1, ServesNow
  <2>3. CASE Answers(r)
    <3>1. UNCHANGED <<faults, server>> /\ (where' = "page" => where = "page")
      BY <2>3 DEF Answers
    <3> QED
      BY <1>1, <1>2, <2>3, <3>1, AnswersNow
  <2>4. CASE RequestFails(r)
    BY <2>4, FailIs
  <2> QED
    BY <1>5, <2>1, <2>2, <2>3, <2>4 DEF RequestStep
<1>6. CASE UNCHANGED vars
  BY <1>2, <1>6 DEF vars, formVars, pageVars
<1> QED
  BY <1>3, <1>4, <1>5, <1>6, SeriesSteps

(* A page that does not poll has nothing to wait for, for any number of      *)
(* issues, sources, handlers and clicks: while no call fails and one handler *)
(* runs at a time, a page at rest shows the server's rows.                  *)
THEOREM PageCurrent == Spec => []PageIsCurrent
<1> DEFINE IInv == Shaped /\ Early /\ Alone /\ Current
<1>1. Init => IInv
  BY ShapedInit
<1>2. IInv /\ [Next]_vars => IInv'
  BY ShapedStep, EarlyStep, AloneStep, CurrentStep
<1>3. IInv => PageIsCurrent
  BY CurrentShown
<1> QED
  BY <1>1, <1>2, <1>3, PTL DEF Spec
=============================================================================
