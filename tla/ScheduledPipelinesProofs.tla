----------------------- MODULE ScheduledPipelinesProofs -----------------------
(***************************************************************************)
(* Proofs about ScheduledPipelines, for any processes, schedulers, pools,  *)
(* pipelines, activities and faults: what the store says of a pipeline is  *)
(* what its requests and runs made of it.                                  *)
(***************************************************************************)
EXTENDS ScheduledPipelines, SequenceTheorems, FiniteSetTheorems, TLAPS

USE TriggersAssumption, ProcessesAssumption, AbsentAssumption, BoundsAssumption

----------------------------------------------------------------------------
(* The activities.                                                         *)

\* An activity has a number and a record.
LEMMA Items ==
    ASSUME TypeOK
    PROVE  /\ Len(activity) \in 0..MaxActivities
           /\ Started = 1..Len(activity)
           /\ Started \subseteq Activities
           /\ activity = [j \in 1..Len(activity) |-> activity[j]]
           /\ \A j \in Started :
                /\ j \in Nat
                /\ activity[j] \in ActivityRecords
                /\ activity[j].kind \in Kinds
                /\ activity[j].pipeline \in Pipelines
                /\ activity[j].process \in Processes \cup {NoProcess}
                /\ activity[j].step \in Steps
                /\ activity[j].copy \in Records
                /\ activity[j].late \in BOOLEAN
<1>1. activity \in Seq(ActivityRecords) /\ Len(activity) <= MaxActivities
    BY DEF TypeOK
<1>2. Len(activity) \in Nat /\ Started = 1..Len(activity)
    BY <1>1, LenProperties DEF Started
<1>3. \A j \in Started : activity[j] \in ActivityRecords
    BY <1>1, <1>2, ElementOfSeq
<1>4. activity = [j \in 1..Len(activity) |-> activity[j]]
    BY <1>1, LenProperties
<1> QED
    BY <1>1, <1>2, <1>3, <1>4 DEF Activities, ActivityRecords

\* A sequence of activities is what has an activity at each of its numbers.
LEMMA SequenceMade ==
    ASSUME NEW n \in Nat, NEW f, f = [j \in 1..n |-> f[j]],
           \A j \in 1..n : f[j] \in ActivityRecords
    PROVE  f \in Seq(ActivityRecords) /\ Len(f) = n /\ DOMAIN f = 1..n
<1>1. f \in [1..n -> ActivityRecords]
    OBVIOUS
<1>2. f \in Seq(ActivityRecords)
    BY <1>1, IsASeq
<1>3. DOMAIN f = 1..n
    OBVIOUS
<1>4. Len(f) \in Nat /\ DOMAIN f = 1..Len(f)
    BY <1>2, LenProperties
<1> QED
    BY <1>2, <1>3, <1>4

\* The blank record is one.
LEMMA BlankRecord == Blank \in Records
BY DEF Blank, Records, Statuses, NextRuns

\* The activities stay of their kind, about their pipeline and typed.
Lasting ==
    /\ activity' \in Seq(ActivityRecords)
    /\ \A j \in Started :
        /\ activity'[j].kind = activity[j].kind
        /\ activity'[j].pipeline = activity[j].pipeline

\* Activity j goes on to step, with a copy; the others do nothing.
GoesOn(j, step, copy) ==
    /\ Lasting
    /\ Len(activity') = Len(activity)
    /\ Started' = Started
    /\ \A i \in Started \ {j} : activity'[i] = activity[i]
    /\ activity'[j].step = step
    /\ step # "done" => activity'[j].copy = copy /\ activity'[j].late = activity[j].late

\* Activity j stores or deletes the record and goes on to step: the copies of the
\* others are late.
Writes(j, step) ==
    /\ Lasting
    /\ Len(activity') = Len(activity)
    /\ Started' = Started
    /\ \A i \in Started \ {j} :
        /\ activity'[i].step = activity[i].step
        /\ activity'[i].copy = activity[i].copy
        /\ i \in Outdated(j, activity[j].pipeline) => activity'[i].late
        /\ i \notin Outdated(j, activity[j].pipeline) => activity'[i].late = activity[i].late
    /\ activity'[j].step = step
    /\ activity'[j].copy = activity[j].copy
    /\ activity'[j].late = activity[j].late

\* An activity comes to the others.
Comes(kind, p, step, copy) ==
    LET n == Len(activity) + 1 IN
    /\ Lasting
    /\ n \in Activities
    /\ Len(activity') = n
    /\ Started' = Started \cup {n}
    /\ n \notin Started
    /\ \A i \in Started : activity'[i] = activity[i]
    /\ activity'[n].kind = kind
    /\ activity'[n].pipeline = p
    /\ activity'[n].step = step
    /\ activity'[n].copy = copy
    /\ activity'[n].late = FALSE

\* Some activities end.
Ends(lost) ==
    /\ Lasting
    /\ Len(activity') = Len(activity)
    /\ Started' = Started
    /\ \A i \in Started \ lost : activity'[i] = activity[i]
    /\ \A i \in lost : activity'[i].step = "done"

\* An activity that is replaced by another record of its kind goes on.
LEMMA Replaced ==
    ASSUME TypeOK, NEW j \in Started, NEW a \in ActivityRecords,
           activity' = [activity EXCEPT ![j] = a],
           a.kind = activity[j].kind, a.pipeline = activity[j].pipeline,
           a.step # "done" => a.late = activity[j].late
    PROVE  GoesOn(j, a.step, a.copy)
<1> DEFINE n == Len(activity)
<1>1. /\ n \in Nat
      /\ Started = 1..n
      /\ activity = [i \in 1..n |-> activity[i]]
      /\ \A i \in 1..n : activity[i] \in ActivityRecords
    BY Items
<1>2. /\ activity' = [i \in 1..n |-> activity'[i]]
      /\ activity'[j] = a
      /\ \A i \in Started \ {j} : activity'[i] = activity[i]
      /\ \A i \in 1..n : activity'[i] \in ActivityRecords
    BY <1>1
<1>3. activity' \in Seq(ActivityRecords) /\ Len(activity') = n /\ DOMAIN activity' = 1..n
    BY <1>1, <1>2, SequenceMade
<1> QED
    BY <1>1, <1>2, <1>3 DEF GoesOn, Lasting, Started

\* What is done is blank.
LEMMA ToTyped ==
    ASSUME NEW a \in ActivityRecords, NEW step \in Steps
    PROVE  /\ To(a, step) \in ActivityRecords
           /\ To(a, step).kind = a.kind
           /\ To(a, step).pipeline = a.pipeline
           /\ To(a, step).step = step
           /\ step # "done" => To(a, step).copy = a.copy /\ To(a, step).late = a.late
<1>1. CASE step = "done"
    BY <1>1, BlankRecord DEF To, ActivityRecords, Steps
<1>2. CASE step # "done"
    BY <1>2 DEF To, ActivityRecords
<1> QED
    BY <1>1, <1>2

\* Goto is a step of one activity.
LEMMA GotoGoesOn ==
    ASSUME TypeOK, NEW j \in Started, NEW step \in Steps, Goto(j, step)
    PROVE  GoesOn(j, step, activity[j].copy)
<1> DEFINE a == To(activity[j], step)
<1>1. activity[j] \in ActivityRecords
    BY Items
<1>2. /\ a \in ActivityRecords
      /\ a.kind = activity[j].kind
      /\ a.pipeline = activity[j].pipeline
      /\ a.step = step
      /\ step # "done" => a.copy = activity[j].copy /\ a.late = activity[j].late
    BY <1>1, ToTyped
<1>3. activity' = [activity EXCEPT ![j] = a]
    BY DEF Goto
<1> HIDE DEF a
<1>4. GoesOn(j, a.step, a.copy)
    BY <1>2, <1>3, Replaced
<1> QED
    BY <1>2, <1>4 DEF GoesOn

\* A step with a new copy is a step of one activity.
LEMMA CopyGoesOn ==
    ASSUME TypeOK, NEW j \in Started, NEW step \in Steps, NEW copy \in Records,
           activity' = [activity EXCEPT ![j] = [activity[j] EXCEPT !.step = step, !.copy = copy]]
    PROVE  GoesOn(j, step, copy)
<1> DEFINE a == [activity[j] EXCEPT !.step = step, !.copy = copy]
<1>1. activity[j] \in ActivityRecords
    BY Items
<1>2. /\ a \in ActivityRecords
      /\ a.kind = activity[j].kind
      /\ a.pipeline = activity[j].pipeline
      /\ a.late = activity[j].late
      /\ a.step = step
      /\ a.copy = copy
    BY <1>1 DEF ActivityRecords
<1>3. activity' = [activity EXCEPT ![j] = a]
    OBVIOUS
<1> HIDE DEF a
<1> QED
    BY <1>2, <1>3, Replaced

----------------------------------------------------------------------------
(* What each action does to the activities.                                *)

\* Start brings an activity.
LEMMA StartComes ==
    ASSUME TypeOK, NEW kind \in Kinds, NEW p \in Pipelines, NEW s \in Processes,
           NEW step \in Steps, NEW copy \in Records, Start(kind, p, s, step, copy)
    PROVE  Comes(kind, p, step, copy)
<1> DEFINE n == Len(activity)
           a == [kind |-> kind, pipeline |-> p, process |-> s, step |-> step,
                 copy |-> copy, late |-> FALSE]
<1>1. /\ n \in 0..MaxActivities
      /\ Started = 1..n
      /\ n # MaxActivities
      /\ activity' = Append(activity, a)
    BY Items DEF Start, Full
<1>2. /\ a \in ActivityRecords
      /\ a.kind = kind
      /\ a.pipeline = p
      /\ a.step = step
      /\ a.copy = copy
      /\ a.late = FALSE
    BY DEF ActivityRecords
<1>3. activity \in Seq(ActivityRecords)
    BY DEF TypeOK
<1> HIDE DEF a
<1>4. /\ activity' \in Seq(ActivityRecords)
      /\ Len(activity') = n + 1
      /\ \A i \in 1..n : activity'[i] = activity[i]
      /\ activity'[n + 1] = a
    BY <1>1, <1>2, <1>3, AppendProperties
<1>5. Started' = 1..(n + 1)
    BY <1>4, LenProperties DEF Started
<1>6. n \in Nat /\ n + 1 \in Activities /\ n + 1 \notin 1..n /\ 1..(n + 1) = 1..n \cup {n + 1}
    BY <1>1 DEF Activities
<1> QED
    BY <1>1, <1>2, <1>4, <1>5, <1>6 DEF Comes, Lasting

\* RunLoad takes the record as it is, or the run ends.
LEMMA RunLoadEffect ==
    ASSUME TypeOK, NEW j \in Started, RunLoad(j)
    PROVE  \/ Exists(activity[j].pipeline) /\ GoesOn(j, "crawl", record[activity[j].pipeline])
           \/ \E copy \in Records : GoesOn(j, "done", copy)
<1> DEFINE p == activity[j].pipeline
<1>1. p \in Pipelines /\ activity[j].copy \in Records
    BY Items
<1>2. CASE Exists(p)
  <2>1. activity' = [activity EXCEPT ![j] = [activity[j] EXCEPT !.step = "crawl", !.copy = record[p]]]
    BY <1>2 DEF RunLoad
  <2>2. record[p] \in Records /\ "crawl" \in Steps
    BY <1>1, <1>2 DEF Exists, TypeOK, Steps
  <2> QED
    BY <1>2, <2>1, <2>2, CopyGoesOn
<1>3. CASE ~Exists(p)
  <2>1. Goto(j, "done") /\ "done" \in Steps
    BY <1>3 DEF RunLoad, Goto, Steps
  <2> QED
    BY <1>1, <2>1, GotoGoesOn
<1> QED
    BY <1>2, <1>3

\* What a crawl leaves of a copy but its settings.
Crawled(copy, c) ==
    /\ copy \in Records
    /\ copy.settings = c.settings
    /\ copy.runs = c.runs + 1

\* CrawlOk counts the run and keeps the settings.
LEMMA CrawlOkEffect ==
    ASSUME TypeOK, NEW j \in Started, CrawlOk(j)
    PROVE  \E copy \in Records : Crawled(copy, activity[j].copy) /\ GoesOn(j, "save", copy)
<1> DEFINE c == activity[j].copy
           status == IF c.trigger = "one_time" THEN "completed"
                     ELSE IF c.trigger = "scheduled" THEN "active" ELSE c.status
           next == IF c.trigger = "scheduled" THEN "later" ELSE c.next
           copy == [c EXCEPT !.runs = c.runs + 1, !.status = status, !.next = next]
<1>1. c \in Records /\ activity[j] \in ActivityRecords
    BY Items
<1>2. status \in Statuses /\ next \in NextRuns
    BY <1>1 DEF Records, Statuses, NextRuns
<1>3. activity' = [activity EXCEPT ![j] = [activity[j] EXCEPT !.step = "save", !.copy = copy]]
  <2>1. activity' = [activity EXCEPT ![j].step = "save",
                                    ![j].copy.runs = c.runs + 1,
                                    ![j].copy.status = status,
                                    ![j].copy.next = next]
    <3>1. CASE c.trigger = "one_time"
      BY <3>1 DEF CrawlOk
    <3>2. CASE c.trigger = "scheduled"
      BY <3>2 DEF CrawlOk
    <3>3. CASE c.trigger # "one_time" /\ c.trigger # "scheduled"
      BY <1>1, <3>3 DEF CrawlOk, ActivityRecords, Records
    <3> QED
      BY <3>1, <3>2, <3>3
  <2> HIDE DEF status, next
  <2>2. activity' = [activity EXCEPT ![j] =
                        [activity[j] EXCEPT !.step = "save",
                                            !.copy = [c EXCEPT !.runs = c.runs + 1,
                                                               !.status = status,
                                                               !.next = next]]]
    <3> DEFINE a == activity[j]
    <3>1. a = [kind |-> a.kind, pipeline |-> a.pipeline, process |-> a.process,
               step |-> a.step, copy |-> c, late |-> a.late]
      BY <1>1 DEF ActivityRecords
    <3>2. c = [status |-> c.status, trigger |-> c.trigger, next |-> c.next,
               settings |-> c.settings, runs |-> c.runs]
      BY <1>1 DEF Records
    <3> QED
      BY <2>1, <3>1, <3>2
  <2> QED
    BY <2>2
<1> HIDE DEF status, next
<1>4. Crawled(copy, c)
  <2>1. c.runs + 1 \in Nat
    BY <1>1 DEF Records
  <2> QED
    BY <1>1, <1>2, <2>1 DEF Crawled, Records
<1>5. "save" \in Steps
    BY DEF Steps
<1> QED
    BY <1>3, <1>4, <1>5, CopyGoesOn DEF Crawled

\* A run that failed, or whose command failed, is counted in the copy.
LEMMA FailSaveEffect ==
    ASSUME TypeOK, NEW j \in Started, CrawlFail(j) \/ RunCommandFails(j)
    PROVE  \E copy \in Records : Crawled(copy, activity[j].copy) /\ GoesOn(j, "fail_save", copy)
<1> DEFINE c == activity[j].copy
           copy == [c EXCEPT !.runs = c.runs + 1]
<1>1. c \in Records /\ activity[j] \in ActivityRecords
    BY Items
<1>2. activity' = [activity EXCEPT ![j] = [activity[j] EXCEPT !.step = "fail_save", !.copy = copy]]
    BY <1>1 DEF CrawlFail, RunCommandFails, ActivityRecords, Records
<1>3. Crawled(copy, c)
    BY <1>1 DEF Crawled, Records
<1>4. "fail_save" \in Steps
    BY DEF Steps
<1> QED
    BY <1>2, <1>3, <1>4, CopyGoesOn DEF Crawled

\* Save and Drop make the others late.
LEMMA WroteWrites ==
    ASSUME TypeOK, NEW j \in Started, NEW step \in Steps \ {"done"},
           Wrote(j, activity[j].pipeline, step)
    PROVE  Writes(j, step)
<1> DEFINE n == Len(activity)
           p == activity[j].pipeline
           b(i) == IF i = j THEN To(activity[i], step)
                   ELSE IF i \in Outdated(j, p) THEN [activity[i] EXCEPT !.late = TRUE]
                   ELSE activity[i]
<1>1. /\ n \in Nat
      /\ Started = 1..n
      /\ \A i \in Started : activity[i] \in ActivityRecords
    BY Items
<1>2. activity' = [i \in 1..n |-> b(i)]
    BY <1>1 DEF Wrote
<1>3. To(activity[j], step) = [activity[j] EXCEPT !.step = step]
    BY DEF To
<1>4. ASSUME NEW i \in 1..n
      PROVE  /\ b(i) \in ActivityRecords
             /\ b(i).kind = activity[i].kind
             /\ b(i).pipeline = activity[i].pipeline
             /\ i = j => b(i).step = step /\ b(i).copy = activity[i].copy /\ b(i).late = activity[i].late
             /\ i # j => /\ b(i).step = activity[i].step
                         /\ b(i).copy = activity[i].copy
                         /\ i \in Outdated(j, p) => b(i).late
                         /\ i \notin Outdated(j, p) => b(i).late = activity[i].late
  <2>1. activity[i] \in ActivityRecords
    BY <1>1, <1>4
  <2>2. CASE i = j
    BY <1>3, <2>1, <2>2 DEF ActivityRecords
  <2>3. CASE i # j /\ i \in Outdated(j, p)
    BY <2>1, <2>3 DEF ActivityRecords
  <2>4. CASE i # j /\ i \notin Outdated(j, p)
    BY <2>1, <2>4
  <2> QED
    BY <2>2, <2>3, <2>4
<1> HIDE DEF b
<1>5. \A i \in 1..n : activity'[i] = b(i)
    BY <1>2
<1>6. /\ activity' = [i \in 1..n |-> activity'[i]]
      /\ \A i \in 1..n : activity'[i] \in ActivityRecords
    BY <1>2, <1>4, <1>5
<1>7. activity' \in Seq(ActivityRecords) /\ Len(activity') = n /\ DOMAIN activity' = 1..n
    BY <1>1, <1>6, SequenceMade
<1>8. Lasting
    BY <1>1, <1>4, <1>5, <1>7 DEF Lasting
<1> QED
    BY <1>1, <1>4, <1>5, <1>7, <1>8 DEF Writes, Started

\* A process that dies ends its activities.
LEMMA CrashEnds ==
    ASSUME TypeOK, NEW s \in Processes, Crash(s)
    PROVE  /\ Ends({j \in Started : activity[j].process = s /\ Under(j)})
           /\ broken' = broken \cup {j \in Started : activity[j].process = s /\ Under(j)}
<1> DEFINE n == Len(activity)
           lost == {j \in Started : activity[j].process = s /\ Under(j)}
           b(i) == IF i \in lost THEN To(activity[i], "done") ELSE activity[i]
<1>1. /\ n \in Nat
      /\ Started = 1..n
      /\ \A i \in Started : activity[i] \in ActivityRecords
    BY Items
<1>2. activity' = [i \in 1..n |-> b(i)] /\ broken' = broken \cup lost
    BY <1>1 DEF Crash
<1>3. "done" \in Steps
    BY DEF Steps
<1>4. \A i \in 1..n : /\ b(i) \in ActivityRecords
                      /\ b(i).kind = activity[i].kind
                      /\ b(i).pipeline = activity[i].pipeline
                      /\ i \in lost => b(i).step = "done"
                      /\ i \notin lost => b(i) = activity[i]
    BY <1>1, <1>3, ToTyped
<1>5. lost \subseteq Started
    OBVIOUS
<1> HIDE DEF b, lost
<1>6. \A i \in 1..n : activity'[i] = b(i)
    BY <1>2
<1>7. /\ activity' = [i \in 1..n |-> activity'[i]]
      /\ \A i \in 1..n : activity'[i] \in ActivityRecords
    BY <1>2, <1>4, <1>6
<1>8. activity' \in Seq(ActivityRecords) /\ Len(activity') = n /\ DOMAIN activity' = 1..n
    BY <1>1, <1>7, SequenceMade
<1>9. Ends(lost)
    BY <1>1, <1>4, <1>5, <1>6, <1>8 DEF Ends, Lasting, Started
<1> QED
    BY <1>2, <1>9 DEF lost

----------------------------------------------------------------------------
(* The actions in groups: what a request brings, and what ticks and time do. *)

\* What comes when a request or a tick starts an activity about p.
Right(kind, p, step, copy) ==
    /\ kind \in Kinds
    /\ p \in Pipelines
    /\ step \in Steps
    /\ copy \in Records
    /\ kind \in Runs =>
        /\ step = "queued"
        /\ (record[p].status # "paused" /\ Exists(p)) \/ \E s \in Schedulers : p \in tick[s].due
    /\ kind = "delete" => step = "drop" /\ Exists(p)
    /\ kind \notin Runs \cup {"delete"} => step = "save"
    /\ kind = "create" =>
        /\ \A j \in Started : ~About(j, p)
        /\ copy.settings = 0
        /\ copy.runs = 0
    /\ kind \in {"update", "pause", "resume"} =>
        /\ Exists(p)
        /\ copy.runs = record[p].runs
        /\ kind = "update" => copy.settings = Len(activity) + 1
        /\ kind # "update" => copy.settings = record[p].settings
        /\ kind = "pause" => copy.status = "paused"
        /\ kind = "update" /\ record[p].status = "paused" => copy.status = "paused"

\* A time for the next run changes nothing else.
LEMMA TimedKeeps ==
    ASSUME NEW copy \in Records
    PROVE  /\ Timed(copy) \in Records
           /\ Timed(copy).status = copy.status
           /\ Timed(copy).settings = copy.settings
           /\ Timed(copy).runs = copy.runs
BY DEF Timed, Records, NextRuns

\* Every request brings an activity of its kind with what it read.
LEMMA ServeComes ==
    ASSUME TypeOK, Serve
    PROVE  \E kind, p, step, copy :
                Right(kind, p, step, copy) /\ Comes(kind, p, step, copy)
<1> PICK p \in Pipelines, s \in Processes :
        \/ \E trigger \in Triggers, status \in Statuses :
              Create(p, s, trigger, status) \/ Update(p, s, trigger, status)
        \/ Pause(p, s) \/ Resume(p, s) \/ Delete(p, s) \/ TriggerRun(p, s)
    BY DEF Serve
<1>0. /\ Exists(p) => record[p] \in Records
      /\ Len(activity) \in Nat
    BY Items DEF Exists, TypeOK
<1> USE DEF Kinds, Runs, ScheduledRun, RequestedRun, Steps
<1>1. ASSUME NEW trigger \in Triggers, NEW status \in Statuses, Create(p, s, trigger, status)
      PROVE  \E copy : Right("create", p, "save", copy) /\ Comes("create", p, "save", copy)
  <2> DEFINE c == [Blank EXCEPT !.trigger = trigger, !.status = status]
             new == Timed(c)
  <2>1. Start("create", p, s, "save", new)
    BY <1>1 DEF Create, Created
  <2>2. c \in Records /\ c.settings = 0 /\ c.runs = 0
    <3>1. Blank \in Records /\ Blank.settings = 0 /\ Blank.runs = 0
      BY BlankRecord DEF Blank
    <3> QED
      BY <3>1 DEF Records
  <2> HIDE DEF c
  <2>3. new \in Records /\ new.settings = 0 /\ new.runs = 0
    BY <2>2, TimedKeeps
  <2> HIDE DEF new
  <2>4. Comes("create", p, "save", new)
    BY <2>1, <2>3, StartComes
  <2> QED
    BY <1>1, <2>3, <2>4 DEF Create, Right
<1>2. ASSUME NEW trigger \in Triggers, NEW status \in Statuses, Update(p, s, trigger, status)
      PROVE  \E copy : Right("update", p, "save", copy) /\ Comes("update", p, "save", copy)
  <2> DEFINE c == [record[p] EXCEPT !.trigger = trigger, !.status = status,
                                    !.settings = Len(activity) + 1]
  <2>1. /\ Exists(p)
        /\ record[p].status = "paused" => status = "paused"
        /\ Start("update", p, s, "save", Timed(c))
    BY <1>2 DEF Update, Reads
  <2>2. Len(activity) + 1 \in 0..MaxActivities
    BY <2>1, Items DEF Start, Full
  <2>3. /\ c \in Records
        /\ c.status = status
        /\ c.settings = Len(activity) + 1
        /\ c.runs = record[p].runs
    BY <1>0, <2>1, <2>2 DEF Records
  <2> HIDE DEF c
  <2>4. Comes("update", p, "save", Timed(c))
    BY <2>1, <2>3, TimedKeeps, StartComes
  <2>5. Right("update", p, "save", Timed(c))
    BY <2>1, <2>3, TimedKeeps DEF Right
  <2> QED
    BY <2>4, <2>5
<1>3. ASSUME Pause(p, s)
      PROVE  \E copy : Right("pause", p, "save", copy) /\ Comes("pause", p, "save", copy)
  <2> DEFINE c == [record[p] EXCEPT !.status = "paused"]
  <2>1. Exists(p) /\ Start("pause", p, s, "save", c)
    BY <1>3 DEF Pause, Reads
  <2>2. /\ c \in Records
        /\ c.status = "paused"
        /\ c.settings = record[p].settings
        /\ c.runs = record[p].runs
    BY <1>0, <2>1 DEF Records, Statuses
  <2> HIDE DEF c
  <2>3. Comes("pause", p, "save", c)
    BY <2>1, <2>2, StartComes
  <2>4. Right("pause", p, "save", c)
    BY <2>1, <2>2 DEF Right
  <2> QED
    BY <2>3, <2>4
<1>4. ASSUME Resume(p, s)
      PROVE  \E copy : Right("resume", p, "save", copy) /\ Comes("resume", p, "save", copy)
  <2> DEFINE c == [record[p] EXCEPT !.status = "active"]
  <2>1. Exists(p) /\ Start("resume", p, s, "save", Timed(c))
    BY <1>4 DEF Resume, Reads
  <2>2. /\ c \in Records
        /\ c.settings = record[p].settings
        /\ c.runs = record[p].runs
    BY <1>0, <2>1 DEF Records, Statuses
  <2> HIDE DEF c
  <2>3. Comes("resume", p, "save", Timed(c))
    BY <2>1, <2>2, TimedKeeps, StartComes
  <2>4. Right("resume", p, "save", Timed(c))
    BY <2>1, <2>2, TimedKeeps DEF Right
  <2> QED
    BY <2>3, <2>4
<1>5. ASSUME Delete(p, s)
      PROVE  \E copy : Right("delete", p, "drop", copy) /\ Comes("delete", p, "drop", copy)
  <2>1. Exists(p) /\ Start("delete", p, s, "drop", record[p])
    BY <1>5 DEF Delete, Reads
  <2>2. Comes("delete", p, "drop", record[p])
    BY <1>0, <2>1, StartComes
  <2>3. Right("delete", p, "drop", record[p])
    BY <1>0, <2>1 DEF Right
  <2> QED
    BY <2>2, <2>3
<1>6. ASSUME TriggerRun(p, s)
      PROVE  \E copy : Right(RequestedRun, p, "queued", copy) /\ Comes(RequestedRun, p, "queued", copy)
  <2>1. Exists(p) /\ record[p].status # "paused" /\ Start(RequestedRun, p, s, "queued", Blank)
    BY <1>6 DEF TriggerRun, Reads
  <2>2. Comes(RequestedRun, p, "queued", Blank)
    BY <2>1, BlankRecord, StartComes
  <2>3. Right(RequestedRun, p, "queued", Blank)
    BY <2>1, BlankRecord DEF Right
  <2> QED
    BY <2>2, <2>3
<1> QED
    BY <1>1, <1>2, <1>3, <1>4, <1>5, <1>6

\* A request changes nothing else.
LEMMA ServeKeeps ==
    ASSUME Serve
    PROVE  UNCHANGED <<store, tick, ghosts, faults>>
BY DEF Serve, Create, Update, Pause, Resume, Delete, TriggerRun

\* A tick brings a run of a pipeline it found due.
LEMMA SubmitComes ==
    ASSUME TypeOK, NEW s \in Schedulers, NEW p \in Pipelines, TickSubmit(s, p)
    PROVE  /\ Right(ScheduledRun, p, "queued", Blank)
           /\ Comes(ScheduledRun, p, "queued", Blank)
           /\ UNCHANGED <<store, ghosts, faults>>
           /\ tick' \in [Schedulers -> [todo : SUBSET Pipelines, due : SUBSET Pipelines]]
           /\ \A t \in Schedulers : tick'[t].due \subseteq tick[t].due
<1> USE DEF Kinds, Runs, ScheduledRun, RequestedRun, Steps
<1>1. /\ s \in Processes
      /\ Start(ScheduledRun, p, s, "queued", Blank)
      /\ p \in tick[s].due
    BY DEF TickSubmit
<1>2. Comes(ScheduledRun, p, "queued", Blank)
    BY <1>1, BlankRecord, StartComes
<1>3. Right(ScheduledRun, p, "queued", Blank)
    BY <1>1, BlankRecord DEF Right
<1>4. UNCHANGED <<store, ghosts, faults>>
    BY DEF TickSubmit
<1>5. /\ tick' \in [Schedulers -> [todo : SUBSET Pipelines, due : SUBSET Pipelines]]
      /\ \A t \in Schedulers : tick'[t].due \subseteq tick[t].due
    BY DEF TickSubmit, TypeOK
<1> QED
    BY <1>2, <1>3, <1>4, <1>5

\* Ticks that submit nothing, and time: only next_run_at changes, and what is found
\* due exists and is active.
Rests ==
    /\ UNCHANGED <<ids, history, activity, ghosts>>
    /\ record' \in [Pipelines -> Records \cup {Absent}]
    /\ \A p \in Pipelines :
        \/ record'[p] = record[p]
        \/ /\ Exists(p)
           /\ record'[p] \in Records
           /\ record'[p].status = record[p].status
           /\ record'[p].settings = record[p].settings
           /\ record'[p].runs = record[p].runs
    /\ tick' \in [Schedulers -> [todo : SUBSET Pipelines, due : SUBSET Pipelines]]
    /\ \A s \in Schedulers : \A p \in tick'[s].due :
        p \in tick[s].due \/ (Exists(p) /\ record[p].status # "paused")
    /\ faults' \in 0..MaxFaults

\* A fault is counted.
LEMMA FaultTyped ==
    ASSUME TypeOK, faults < MaxFaults, faults' = faults + 1
    PROVE  faults' \in 0..MaxFaults
BY DEF TypeOK

\* TickList, TickRead, TickFails, Elapse and a step that changes nothing.
LEMMA RestsSteps ==
    ASSUME TypeOK,
           \/ \E s \in Schedulers : TickList(s) \/ TickFails(s)
           \/ \E s \in Schedulers, p \in Pipelines : TickRead(s, p)
           \/ \E p \in Pipelines : Elapse(p)
           \/ UNCHANGED vars
    PROVE  Rests
<1>0. /\ record \in [Pipelines -> Records \cup {Absent}]
      /\ tick \in [Schedulers -> [todo : SUBSET Pipelines, due : SUBSET Pipelines]]
      /\ faults \in 0..MaxFaults
      /\ ids \in SUBSET Pipelines
    BY DEF TypeOK
<1>1. ASSUME NEW s \in Schedulers, TickList(s) PROVE Rests
    BY <1>0, <1>1 DEF TickList, Rests, store
<1>2. ASSUME NEW s \in Schedulers, TickFails(s) PROVE Rests
  <2>1. faults' \in 0..MaxFaults
    BY <1>2, FaultTyped DEF TickFails
  <2> QED
    BY <1>0, <1>2, <2>1 DEF TickFails, Rests, store
<1>3. ASSUME NEW s \in Schedulers, NEW p \in Pipelines, TickRead(s, p) PROVE Rests
    BY <1>0, <1>3 DEF TickRead, Rests, store, Due
<1>4. ASSUME NEW p \in Pipelines, Elapse(p) PROVE Rests
  <2>1. record[p] \in Records
    BY <1>0, <1>4 DEF Elapse, Exists
  <2> DEFINE r == [record[p] EXCEPT !.next = "due"]
  <2>2. /\ r \in Records
        /\ r.status = record[p].status
        /\ r.settings = record[p].settings
        /\ r.runs = record[p].runs
    BY <2>1 DEF Records, NextRuns
  <2>3. Exists(p) /\ record' = [record EXCEPT ![p] = r]
    BY <1>4 DEF Elapse
  <2>4. UNCHANGED <<ids, history, tick, activity, ghosts, faults>>
    BY <1>4 DEF Elapse
  <2> HIDE DEF r
  <2> QED
    BY <1>0, <2>2, <2>3, <2>4 DEF Rests
<1>5. CASE UNCHANGED vars
    BY <1>0, <1>5 DEF vars, store, Rests
<1> QED
    BY <1>1, <1>2, <1>3, <1>4, <1>5

----------------------------------------------------------------------------
(* Types.                                                                  *)

\* There is nothing at first.
LEMMA TypeInit == Init => TypeOK
<1> SUFFICES ASSUME Init PROVE TypeOK
    OBVIOUS
<1>1. activity \in Seq(ActivityRecords) /\ Len(activity) = 0
    BY EmptySeq DEF Init
<1> QED
    BY <1>1 DEF Init, TypeOK

\* The variables besides activity.
OthersTyped ==
    /\ record \in [Pipelines -> Records \cup {Absent}]
    /\ ids \in SUBSET Pipelines
    /\ history \in [Pipelines -> SUBSET Activities]
    /\ tick \in [Schedulers -> [todo : SUBSET Pipelines, due : SUBSET Pipelines]]
    /\ raced \in SUBSET Pipelines
    /\ held \in SUBSET Pipelines
    /\ wanted \in [Pipelines -> 0..MaxActivities]
    /\ ran \in [Pipelines -> SUBSET Activities]
    /\ succeeded \in SUBSET Activities
    /\ deleted \in SUBSET Pipelines
    /\ broken \in SUBSET Activities
    /\ faults \in 0..MaxFaults

\* Every step keeps activities: they last.
LEMMA LastingTyped ==
    ASSUME TypeOK, Lasting, Len(activity') \in 0..MaxActivities, OthersTyped'
    PROVE  TypeOK'
BY DEF TypeOK, Lasting, OthersTyped

\* A set of activities for each pipeline stays one when an activity is added.
LEMMA AddedTyped ==
    ASSUME NEW f \in [Pipelines -> SUBSET Activities], NEW p \in Pipelines, NEW j \in Activities
    PROVE  [f EXCEPT ![p] = f[p] \cup {j}] \in [Pipelines -> SUBSET Activities]
<1>1. f[p] \cup {j} \in SUBSET Activities
    OBVIOUS
<1> QED
    BY <1>1

\* The steps of a run that touch the store or ghosts least.
LEMMA CommandFailsEffect ==
    ASSUME TypeOK, NEW j \in Started, CommandFails(j)
    PROVE  /\ \E copy : GoesOn(j, "done", copy)
           /\ UNCHANGED <<store, tick, raced, held, wanted, ran, succeeded, deleted>>
           /\ broken' = broken \cup {j}
           /\ faults' \in 0..MaxFaults
<1>1. Goto(j, "done") /\ "done" \in Steps
    BY DEF CommandFails, Steps
<1>2. faults' \in 0..MaxFaults
    BY FaultTyped DEF CommandFails
<1> QED
    BY <1>1, <1>2, GotoGoesOn DEF CommandFails

\* Every action keeps the types.
LEMMA TypeStep == TypeOK /\ [Next]_vars => TypeOK'
<1> SUFFICES ASSUME TypeOK, [Next]_vars
             PROVE  TypeOK'
    OBVIOUS
<1>0. /\ Len(activity) \in 0..MaxActivities
      /\ Started \subseteq Activities
      /\ Activities \subseteq 0..MaxActivities
      /\ OthersTyped
      /\ \A j \in Started : activity[j].pipeline \in Pipelines /\ activity[j].copy \in Records
    BY Items DEF TypeOK, OthersTyped, Activities
<1> USE DEF store, ghosts
<1>1. CASE Rests
  <2>1. OthersTyped'
    BY <1>0, <1>1 DEF Rests, OthersTyped
  <2>2. activity' = activity
    BY <1>1 DEF Rests
  <2> QED
    BY <2>1, <2>2 DEF TypeOK, OthersTyped
<1>2. CASE Serve
  <2>1. \E kind, p, step, copy : Comes(kind, p, step, copy)
    BY <1>2, ServeComes
  <2>2. Lasting /\ Len(activity') \in 0..MaxActivities
    BY <1>0, <2>1 DEF Comes
  <2>3. OthersTyped'
    BY <1>0, <1>2, ServeKeeps DEF OthersTyped
  <2> QED
    BY <2>2, <2>3, LastingTyped
<1>3. ASSUME NEW s \in Schedulers, NEW p \in Pipelines, TickSubmit(s, p) PROVE TypeOK'
  <2>1. Lasting /\ Len(activity') \in 0..MaxActivities
    BY <1>0, <1>3, SubmitComes DEF Comes
  <2>2. OthersTyped'
    BY <1>0, <1>3, SubmitComes DEF OthersTyped
  <2> QED
    BY <2>1, <2>2, LastingTyped
<1>4. ASSUME NEW j \in Started, RunLoad(j) \/ CrawlOk(j) \/ CrawlFail(j) PROVE TypeOK'
  <2>1. Lasting /\ Len(activity') \in 0..MaxActivities
    BY <1>0, <1>4, RunLoadEffect, CrawlOkEffect, FailSaveEffect DEF GoesOn
  <2>2. OthersTyped'
    BY <1>0, <1>4 DEF OthersTyped, RunLoad, CrawlOk, CrawlFail
  <2> QED
    BY <2>1, <2>2, LastingTyped
<1>5. ASSUME NEW j \in Started, RunHistory(j) \/ DropId(j) PROVE TypeOK'
  <2>1. Goto(j, "done") /\ "done" \in Steps
    BY <1>5 DEF RunHistory, DropId, Steps
  <2>2. Lasting /\ Len(activity') \in 0..MaxActivities
    BY <1>0, <2>1, GotoGoesOn DEF GoesOn
  <2>3. history' \in {history, [history EXCEPT ![activity[j].pipeline] = history[activity[j].pipeline] \cup {j}]}
    BY <1>5 DEF RunHistory, DropId
  <2>4. history' \in [Pipelines -> SUBSET Activities]
    BY <1>0, <2>3, AddedTyped DEF OthersTyped
  <2>5. OthersTyped'
    BY <1>0, <1>5, <2>4 DEF OthersTyped, RunHistory, DropId
  <2> QED
    BY <2>2, <2>5, LastingTyped
<1>6. ASSUME NEW j \in Started, SaveId(j) PROVE TypeOK'
  <2>1. \E step \in Steps : Goto(j, step)
    BY <1>6 DEF SaveId, Steps
  <2>2. Lasting /\ Len(activity') \in 0..MaxActivities
    BY <1>0, <2>1, GotoGoesOn DEF GoesOn
  <2>3. OthersTyped'
    BY <1>0, <1>6 DEF OthersTyped, SaveId
  <2> QED
    BY <2>2, <2>3, LastingTyped
<1>7. ASSUME NEW j \in Started, Save(j) PROVE TypeOK'
  <2>1. \E step \in Steps \ {"done"} : Wrote(j, activity[j].pipeline, step)
    BY <1>7 DEF Save, Steps
  <2>2. Lasting /\ Len(activity') \in 0..MaxActivities
    BY <1>0, <2>1, WroteWrites DEF Writes
  <2> DEFINE p == activity[j].pipeline
  <2>3. /\ record' = [record EXCEPT ![p] = activity[j].copy]
        /\ raced' \in {raced, raced \cup {p}}
        /\ held' \in {held, held \cup {p}, held \ {p}}
        /\ wanted' \in {wanted, [wanted EXCEPT ![p] = j]}
        /\ ran' \in {ran, [ran EXCEPT ![p] = ran[p] \cup {j}]}
        /\ succeeded' \in {succeeded, succeeded \cup {j}}
        /\ UNCHANGED <<ids, history, tick, deleted, broken, faults>>
    BY <1>7 DEF Save
  <2>4. j \in Activities /\ j \in 0..MaxActivities /\ p \in Pipelines /\ activity[j].copy \in Records
    BY <1>0
  <2> HIDE DEF p
  <2>5. OthersTyped'
    <3>1. wanted' \in [Pipelines -> 0..MaxActivities]
      BY <1>0, <2>3, <2>4 DEF OthersTyped
    <3>2. ran' \in [Pipelines -> SUBSET Activities]
      <4>1. ran \in [Pipelines -> SUBSET Activities]
        BY <1>0 DEF OthersTyped
      <4>2. [ran EXCEPT ![p] = ran[p] \cup {j}] \in [Pipelines -> SUBSET Activities]
        BY <2>4, <4>1, AddedTyped
      <4>3. ran' = ran \/ ran' = [ran EXCEPT ![p] = ran[p] \cup {j}]
        BY <2>3
      <4> QED
        BY <4>1, <4>2, <4>3
    <3>3. record' \in [Pipelines -> Records \cup {Absent}]
      BY <1>0, <2>3, <2>4 DEF OthersTyped
    <3>4. raced' \in SUBSET Pipelines /\ held' \in SUBSET Pipelines /\ succeeded' \in SUBSET Activities
      BY <1>0, <2>3, <2>4 DEF OthersTyped
    <3> QED
      BY <1>0, <2>3, <3>1, <3>2, <3>3, <3>4 DEF OthersTyped
  <2> QED
    BY <2>2, <2>5, LastingTyped
<1>8. ASSUME NEW j \in Started, Drop(j) PROVE TypeOK'
  <2>1. "drop_id" \in Steps \ {"done"} /\ Wrote(j, activity[j].pipeline, "drop_id")
    BY <1>8 DEF Drop, Steps
  <2>2. Lasting /\ Len(activity') \in 0..MaxActivities
    BY <1>0, <2>1, WroteWrites DEF Writes
  <2>3. OthersTyped'
    BY <1>0, <1>8 DEF Drop, OthersTyped
  <2> QED
    BY <2>2, <2>3, LastingTyped
<1>9. ASSUME NEW j \in Started, CommandFails(j) PROVE TypeOK'
  <2>1. Lasting /\ Len(activity') \in 0..MaxActivities
    BY <1>0, <1>9, CommandFailsEffect DEF GoesOn
  <2>2. /\ UNCHANGED <<store, tick, raced, held, wanted, ran, succeeded, deleted>>
        /\ broken' = broken \cup {j}
        /\ faults' \in 0..MaxFaults
    BY <1>9, CommandFailsEffect
  <2>3. OthersTyped'
    BY <1>0, <2>2 DEF OthersTyped
  <2> QED
    BY <2>1, <2>3, LastingTyped
<1>10. ASSUME NEW j \in Started, RunCommandFails(j) PROVE TypeOK'
  <2>1. Lasting /\ Len(activity') \in 0..MaxActivities
    BY <1>0, <1>10, FailSaveEffect DEF GoesOn
  <2>2. faults' \in 0..MaxFaults
    BY <1>10, FaultTyped DEF RunCommandFails
  <2>3. history' \in {history, [history EXCEPT ![activity[j].pipeline] = history[activity[j].pipeline] \cup {j}]}
    BY <1>10 DEF RunCommandFails
  <2>4. history' \in [Pipelines -> SUBSET Activities]
    BY <1>0, <2>3, AddedTyped DEF OthersTyped
  <2>5. OthersTyped'
    BY <1>0, <1>10, <2>2, <2>4 DEF OthersTyped, RunCommandFails
  <2> QED
    BY <2>1, <2>5, LastingTyped
<1>11. ASSUME NEW s \in Processes, Crash(s) PROVE TypeOK'
  <2> DEFINE lost == {j \in Started : activity[j].process = s /\ Under(j)}
  <2>1. Lasting /\ Len(activity') \in 0..MaxActivities
    BY <1>0, <1>11, CrashEnds DEF Ends
  <2>2. broken' = broken \cup lost /\ lost \subseteq Activities
    BY <1>0, <1>11, CrashEnds
  <2>3. faults' \in 0..MaxFaults
    BY <1>11, FaultTyped DEF Crash
  <2>4. /\ tick' = [t \in Schedulers |-> IF t = s THEN [todo |-> {}, due |-> {}] ELSE tick[t]]
        /\ UNCHANGED <<record, ids, history, raced, held, wanted, ran, succeeded, deleted>>
    BY <1>11 DEF Crash
  <2>5. tick' \in [Schedulers -> [todo : SUBSET Pipelines, due : SUBSET Pipelines]]
    BY <1>0, <2>4 DEF OthersTyped
  <2> HIDE DEF lost
  <2>6. OthersTyped'
    BY <1>0, <2>2, <2>3, <2>4, <2>5 DEF OthersTyped
  <2> QED
    BY <2>1, <2>6, LastingTyped
<1> QED
    BY <1>1, <1>2, <1>3, <1>4, <1>5, <1>6, <1>7, <1>8, <1>9, <1>10, <1>11, RestsSteps
       DEF Next, Schedule, Execute, Fault

\* For any processes, pipelines and activities: the variables have their types,
\* and an activity is of a kind, about a pipeline, at a step, with a copy.
THEOREM TypeCorrect == Spec => []TypeOK
BY TypeInit, TypeStep, PTL DEF Spec

----------------------------------------------------------------------------
(* What is true of a pipeline.                                             *)

\* Nothing is known of a pipeline that nobody asked for.
Fresh(p) ==
    (\A j \in Started : ~About(j, p)) =>
        /\ ~Exists(p)
        /\ wanted[p] = 0
        /\ ran[p] = {}
        /\ p \notin deleted
        /\ p \notin held
        /\ \A s \in Schedulers : p \notin tick[s].due

\* The steps of a kind.
Shaped(p) ==
    \A j \in Started : About(j, p) =>
        /\ activity[j].kind \in Runs => activity[j].step \notin {"drop", "drop_id"}
        /\ activity[j].kind = "delete" => activity[j].step \in {"drop", "drop_id", "done"}
        /\ activity[j].kind \notin Runs \cup {"delete"} =>
            activity[j].step \in {"save", "save_id", "done"}
        /\ activity[j].kind = "pause" /\ At(j, "save") => activity[j].copy.status = "paused"

\* Whatever is under way about a held pipeline leaves it paused, or resumes it.
HeldPaused(p) ==
    p \in held =>
        /\ Exists(p) => record[p].status = "paused"
        /\ \A s \in Schedulers : p \notin tick[s].due
        /\ \E j \in Started : About(j, p)
        /\ \A j \in Started : About(j, p) =>
            /\ activity[j].kind \in Runs => At(j, "done")
            /\ activity[j].kind = "create" => ~At(j, "save")
            /\ activity[j].kind = "update" /\ At(j, "save") => activity[j].copy.status = "paused"

\* An activity that may store its copy.
MayStore(j) == activity[j].step \in {"crawl", "save", "save_id", "history", "fail_save"}

\* Unless it is late, a copy has what users want, or is what they want now.
CopiesCurrent(p) ==
    p \notin raced =>
        /\ Exists(p) => record[p].settings = wanted[p]
        /\ p \in deleted => ~Exists(p)
        /\ \A j \in Started : About(j, p) /\ MayStore(j) /\ ~activity[j].late =>
            /\ p \notin deleted
            /\ activity[j].kind = "update" /\ At(j, "save") => activity[j].copy.settings = j
            /\ ~(activity[j].kind = "update" /\ At(j, "save")) =>
                activity[j].copy.settings = wanted[p]

\* A run that succeeded is on its way to the history.
HistoryComes(p) ==
    /\ history[p] \subseteq succeeded
    /\ \A j \in Started : About(j, p) =>
        /\ j \in succeeded =>
            /\ activity[j].kind \in Runs
            /\ j \in history[p] \/ activity[j].step \in {"save_id", "history"} \/ j \in broken
        /\ At(j, "history") => j \in succeeded
        /\ activity[j].kind \in Runs /\ At(j, "save_id") => j \in succeeded

\* An id without a record, or a record without its id, is about to be corrected.
IdsFollow(p) ==
    /\ \A j \in Started : About(j, p) /\ At(j, "drop_id") => p \in deleted
    /\ p \notin raced /\ Intact(p) =>
        \/ Exists(p) <=> p \in ids
        \/ \E j \in Started : /\ About(j, p)
                              /\ activity[j].step \in {"save_id", "fail_id", "drop_id"}

\* A run that is yet to be stored for the first time.
Uncounted(j) ==
    /\ activity[j].kind \in Runs
    /\ \/ activity[j].step \in {"queued", "crawl", "save"}
       \/ At(j, "fail_save") /\ j \notin broken

\* The counts of record and copies.
CountsKept(p) ==
    /\ ran[p] \subseteq Started
    /\ \A j \in Started : About(j, p) /\ Uncounted(j) => j \notin ran[p]
    /\ p \notin raced /\ Intact(p) =>
        /\ Exists(p) => record[p].runs = Cardinality(ran[p])
        /\ \A j \in Started : About(j, p) /\ ~activity[j].late =>
            /\ At(j, "crawl") \/ (At(j, "save") /\ activity[j].kind \notin Runs) =>
                activity[j].copy.runs = Cardinality(ran[p])
            /\ activity[j].kind \in Runs /\ activity[j].step \in {"save", "fail_save"} =>
                activity[j].copy.runs = Cardinality(ran[p]) + 1

\* The inductive invariant.
Kept(p) ==
    /\ Fresh(p)
    /\ Shaped(p)
    /\ HeldPaused(p)
    /\ CopiesCurrent(p)
    /\ HistoryComes(p)
    /\ IdsFollow(p)
    /\ CountsKept(p)

\* What is known of activities is about those that came.
Numbered ==
    /\ succeeded \subseteq Started
    /\ broken \subseteq Started

\* All of it.
PipelinesKept ==
    /\ TypeOK
    /\ Numbered
    /\ \A p \in Pipelines : Kept(p)

----------------------------------------------------------------------------
(* Pipelines do not disturb one another.                                   *)

\* A step about other pipelines.
Apart(p) ==
    /\ Lasting
    /\ Started \subseteq Started'
    /\ \A j \in Started' : activity'[j].pipeline = p => j \in Started
    /\ \A j \in Started : About(j, p) =>
        /\ activity'[j].step = activity[j].step
        /\ activity'[j].copy = activity[j].copy
        /\ activity'[j].late = activity[j].late
        /\ j \in succeeded' <=> j \in succeeded
        /\ j \in broken' <=> j \in broken
    /\ record'[p] = record[p]
    /\ history'[p] = history[p]
    /\ wanted'[p] = wanted[p]
    /\ ran'[p] = ran[p]
    /\ p \in ids' <=> p \in ids
    /\ p \in raced' <=> p \in raced
    /\ p \in held' <=> p \in held
    /\ p \in deleted' <=> p \in deleted
    /\ \A s \in Schedulers : p \in tick'[s].due => p \in tick[s].due
    /\ succeeded \subseteq succeeded'

\* Such a step leaves everything about p as it was.
LEMMA ApartKeeps ==
    ASSUME NEW p \in Pipelines, Apart(p), Kept(p), Numbered, Numbered'
    PROVE  Kept(p)'
<1>1. /\ \A j \in Started' : About(j, p)' => j \in Started /\ About(j, p)
      /\ \A j \in Started : About(j, p) => j \in Started' /\ About(j, p)'
      /\ \A j \in Started : About(j, p) =>
            /\ activity'[j].kind = activity[j].kind
            /\ activity'[j].step = activity[j].step
            /\ activity'[j].copy = activity[j].copy
            /\ activity'[j].late = activity[j].late
            /\ j \in succeeded' <=> j \in succeeded
            /\ j \in broken' <=> j \in broken
    BY DEF Apart, Lasting, About
<1>2. Exists(p)' <=> Exists(p)
    BY DEF Apart, Exists
<1>3. Intact(p)' <=> Intact(p)
    BY <1>1 DEF Numbered, Intact
<1> USE DEF Apart, At
<1>4. Fresh(p)'
    BY <1>1, <1>2 DEF Kept, Fresh
<1>5. Shaped(p)'
    BY <1>1 DEF Kept, Shaped
<1>6. HeldPaused(p)'
    BY <1>1, <1>2 DEF Kept, HeldPaused
<1>7. CopiesCurrent(p)'
    BY <1>1, <1>2 DEF Kept, CopiesCurrent, MayStore
<1>8. HistoryComes(p)'
    BY <1>1 DEF Kept, HistoryComes
<1>9. IdsFollow(p)'
    BY <1>1, <1>2, <1>3 DEF Kept, IdsFollow
<1>10. CountsKept(p)'
    BY <1>1, <1>2, <1>3 DEF Kept, CountsKept, Uncounted
<1> QED
    BY <1>4, <1>5, <1>6, <1>7, <1>8, <1>9, <1>10 DEF Kept

\* Ticks that submit nothing, and time.
LEMMA RestsKeeps ==
    ASSUME Rests, Numbered, NEW p \in Pipelines, Kept(p)
    PROVE  Kept(p)'
<1>1. /\ UNCHANGED <<ids, history, activity, raced, held, wanted, ran, succeeded, deleted, broken>>
      /\ Started' = Started
      /\ \A j : /\ About(j, p)' <=> About(j, p)
                /\ \A step : At(j, step)' <=> At(j, step)
                /\ MayStore(j)' <=> MayStore(j)
                /\ Uncounted(j)' <=> Uncounted(j)
    BY DEF Rests, ghosts, Started, About, At, MayStore, Uncounted
<1>2. /\ Exists(p)' => Exists(p)
      /\ Exists(p) /\ record'[p] # record[p] =>
            /\ record'[p].status = record[p].status
            /\ record'[p].settings = record[p].settings
            /\ record'[p].runs = record[p].runs
      /\ \A s \in Schedulers : p \in tick'[s].due =>
            p \in tick[s].due \/ (Exists(p) /\ record[p].status # "paused")
    BY DEF Rests, Exists
<1>3. Exists(p) => Exists(p)'
    BY DEF Rests, Exists
<1>4. Intact(p)' <=> Intact(p)
    BY <1>1 DEF Intact
<1>5. Fresh(p)'
    BY <1>1, <1>2 DEF Kept, Fresh
<1>6. Shaped(p)'
    BY <1>1 DEF Kept, Shaped
<1>7. HeldPaused(p)'
    BY <1>1, <1>2 DEF Kept, HeldPaused
<1>8. CopiesCurrent(p)'
    BY <1>1, <1>2 DEF Kept, CopiesCurrent
<1>9. HistoryComes(p)'
    BY <1>1 DEF Kept, HistoryComes
<1>10. IdsFollow(p)'
    BY <1>1, <1>2, <1>3, <1>4 DEF Kept, IdsFollow
<1>11. CountsKept(p)'
    BY <1>1, <1>2, <1>4 DEF Kept, CountsKept
<1> QED
    BY <1>5, <1>6, <1>7, <1>8, <1>9, <1>10, <1>11 DEF Kept

----------------------------------------------------------------------------
(* An activity arrives.                                                    *)

\* A request, or a run that a tick submits.
Arrives(kind, p, step, copy) ==
    /\ Right(kind, p, step, copy)
    /\ Comes(kind, p, step, copy)
    /\ UNCHANGED <<store, ghosts>>
    /\ \A s \in Schedulers : tick'[s].due \subseteq tick[s].due

\* Both arrive.
LEMMA ArrivesSteps ==
    ASSUME TypeOK, Serve \/ \E s \in Schedulers, p \in Pipelines : TickSubmit(s, p)
    PROVE  \E kind, p, step, copy : Arrives(kind, p, step, copy)
<1>1. CASE Serve
    BY <1>1, ServeComes, ServeKeeps DEF Arrives
<1>2. ASSUME NEW s \in Schedulers, NEW p \in Pipelines, TickSubmit(s, p)
      PROVE  Arrives(ScheduledRun, p, "queued", Blank)
    BY <1>2, SubmitComes DEF Arrives
<1> QED
    BY <1>1, <1>2

\* What arrives has read what is there.
LEMMA ArrivesKeeps ==
    ASSUME TypeOK, NEW kind, NEW p, NEW step, NEW copy, Arrives(kind, p, step, copy),
           Numbered, \A q \in Pipelines : Kept(q)
    PROVE  Numbered' /\ \A q \in Pipelines : Kept(q)'
<1>0. p \in Pipelines /\ Lasting
    BY DEF Arrives, Comes, Right
<1>1. PICK n \in Activities :
        /\ n = Len(activity) + 1
        /\ n \notin Started
        /\ Started' = Started \cup {n}
        /\ \A i \in Started : activity'[i] = activity[i]
        /\ activity'[n].kind = kind
        /\ activity'[n].pipeline = p
        /\ activity'[n].step = step
        /\ activity'[n].copy = copy
        /\ activity'[n].late = FALSE
    BY DEF Arrives, Comes
<1>2. /\ UNCHANGED <<record, ids, history, raced, held, wanted, ran, succeeded, deleted, broken>>
      /\ \A s \in Schedulers : tick'[s].due \subseteq tick[s].due
    BY DEF Arrives, store, ghosts
<1>3. /\ kind \in Kinds
      /\ kind \in Runs =>
            /\ step = "queued"
            /\ (record[p].status # "paused" /\ Exists(p)) \/ \E s \in Schedulers : p \in tick[s].due
      /\ kind = "delete" => step = "drop" /\ Exists(p)
      /\ kind \notin Runs \cup {"delete"} => step = "save"
      /\ kind = "create" =>
            /\ \A j \in Started : ~About(j, p)
            /\ copy.settings = 0
            /\ copy.runs = 0
      /\ kind \in {"update", "pause", "resume"} =>
            /\ Exists(p)
            /\ copy.runs = record[p].runs
            /\ kind = "update" => copy.settings = n
            /\ kind # "update" => copy.settings = record[p].settings
            /\ kind = "pause" => copy.status = "paused"
            /\ kind = "update" /\ record[p].status = "paused" => copy.status = "paused"
    BY <1>1 DEF Arrives, Right
<1>4. Numbered'
    BY <1>1, <1>2 DEF Numbered
<1>5. ASSUME NEW q \in Pipelines, q # p PROVE Kept(q)'
  <2>1. Apart(q)
    BY <1>0, <1>1, <1>2, <1>5 DEF Apart
  <2> QED
    BY <1>4, <2>1, ApartKeeps
<1>6. Kept(p)'
  <2>1. Kept(p)
    BY <1>0
  <2>2. /\ Exists(p)' <=> Exists(p)
        /\ About(n, p)'
        /\ \A j \in Started : /\ About(j, p)' <=> About(j, p)
                              /\ \A s : At(j, s)' <=> At(j, s)
                              /\ MayStore(j)' <=> MayStore(j)
                              /\ Uncounted(j)' <=> Uncounted(j)
        /\ \A s : At(n, s)' <=> step = s
    BY <1>1, <1>2 DEF Exists, About, At, MayStore, Uncounted
  <2>3. Intact(p)' <=> Intact(p)
    BY <1>2, <2>2 DEF Numbered, Intact
  <2>4. kind \in {"create", "update", "pause", "resume", "delete"} \cup Runs
    BY <1>3 DEF Kinds
  <2>5. /\ "create" \notin Runs
        /\ "update" \notin Runs
        /\ "pause" \notin Runs
        /\ "resume" \notin Runs
        /\ "delete" \notin Runs
    BY DEF Runs, ScheduledRun, RequestedRun
  <2>6. Fresh(p)'
    BY <1>1, <2>2 DEF Fresh
  <2>7. Shaped(p)'
    BY <1>1, <1>3, <2>1, <2>2, <2>4, <2>5 DEF Kept, Shaped
  <2>8. HeldPaused(p)'
    BY <1>1, <1>2, <1>3, <2>1, <2>2, <2>4, <2>5 DEF Kept, HeldPaused
  <2>9. CopiesCurrent(p)'
    <3>1. CASE kind = "create"
      <4>1. wanted[p] = 0 /\ p \notin deleted
        BY <1>3, <2>1, <3>1 DEF Kept, Fresh
      <4> QED
        BY <1>1, <1>2, <1>3, <2>1, <2>2, <2>5, <3>1, <4>1 DEF Kept, CopiesCurrent
    <3>2. CASE kind \in {"update", "pause", "resume"}
      BY <1>1, <1>2, <1>3, <2>1, <2>2, <2>5, <3>2 DEF Kept, CopiesCurrent
    <3>3. CASE kind \in Runs \cup {"delete"}
      <4>1. ~MayStore(n)'
        BY <1>1, <1>3, <3>3 DEF MayStore
      <4> QED
        BY <1>1, <1>2, <2>1, <2>2, <4>1 DEF Kept, CopiesCurrent
    <3> QED
      BY <2>4, <3>1, <3>2, <3>3
  <2>10. HistoryComes(p)'
    BY <1>1, <1>2, <1>3, <2>1, <2>2, <2>4, <2>5 DEF Kept, HistoryComes, Numbered
  <2>11. IdsFollow(p)'
    BY <1>1, <1>2, <1>3, <2>1, <2>2, <2>3, <2>4, <2>5 DEF Kept, IdsFollow
  <2>12. CountsKept(p)'
    <3>1. n \notin ran[p] /\ ran[p] \subseteq Started
      BY <1>1, <2>1 DEF Kept, CountsKept
    <3>2. CASE kind = "create"
      <4>1. ran[p] = {} /\ ~Exists(p)
        BY <1>3, <2>1, <3>2 DEF Kept, Fresh
      <4>2. Cardinality(ran[p]) = 0
        BY <4>1, FS_EmptySet
      <4> QED
        BY <1>1, <1>2, <1>3, <2>1, <2>2, <2>3, <2>5, <3>1, <3>2, <4>1, <4>2 DEF Kept, CountsKept
    <3>3. CASE kind \in {"update", "pause", "resume"}
      BY <1>1, <1>2, <1>3, <2>1, <2>2, <2>3, <2>5, <3>1, <3>3 DEF Kept, CountsKept
    <3>4. CASE kind \in Runs \cup {"delete"}
      BY <1>1, <1>2, <1>3, <2>1, <2>2, <2>3, <2>5, <3>1, <3>4 DEF Kept, CountsKept
    <3> QED
      BY <2>4, <3>2, <3>3, <3>4
  <2> QED
    BY <2>6, <2>7, <2>8, <2>9, <2>10, <2>11, <2>12 DEF Kept
<1> QED
    BY <1>4, <1>5, <1>6

----------------------------------------------------------------------------
(* An activity goes on.                                                    *)

\* Activity j does a step, and the copies of others about the same pipeline may
\* be late by it.
Moves(j, step) ==
    /\ Lasting
    /\ Started' = Started
    /\ \A i \in Started \ {j} :
        /\ activity'[i].step = activity[i].step
        /\ activity'[i].copy = activity[i].copy
        /\ \/ activity'[i].late = activity[i].late
           \/ About(i, activity[j].pipeline) /\ activity'[i].late = TRUE
    /\ activity'[j].step = step

\* The step of an activity that goes on, or writes.
LEMMA MovesSteps ==
    ASSUME TypeOK, NEW j \in Started, NEW step,
           (\E copy : GoesOn(j, step, copy)) \/ Writes(j, step)
    PROVE  Moves(j, step)
<1>1. ASSUME NEW copy, GoesOn(j, step, copy) PROVE Moves(j, step)
    BY <1>1 DEF GoesOn, Moves
<1>2. CASE Writes(j, step)
  <2>1. Lasting /\ activity' \in Seq(ActivityRecords) /\ Started' = Started
    BY <1>2 DEF Writes, Lasting
  <2>2. \A i \in Started : activity'[i].late \in BOOLEAN
    <3>1. Started' = 1..Len(activity')
      BY <2>1, LenProperties DEF Started
    <3>2. \A i \in Started' : activity'[i] \in ActivityRecords
      BY <2>1, <3>1, ElementOfSeq
    <3> QED
      BY <2>1, <3>2 DEF ActivityRecords
  <2>3. \A i \in Outdated(j, activity[j].pipeline) : About(i, activity[j].pipeline)
    BY DEF Outdated
  <2>4. \A i \in Started \ {j} :
            \/ activity'[i].late = activity[i].late
            \/ About(i, activity[j].pipeline) /\ activity'[i].late = TRUE
    BY <1>2, <2>2, <2>3 DEF Writes
  <2> QED
    BY <1>2, <2>1, <2>4 DEF Writes, Moves
<1> QED
    BY <1>1, <1>2

\* What a step of j leaves of the store and the rest at other pipelines.
OthersStay(j, p) ==
    /\ \A q \in Pipelines \ {p} :
        /\ record'[q] = record[q]
        /\ history'[q] = history[q]
        /\ wanted'[q] = wanted[q]
        /\ ran'[q] = ran[q]
        /\ q \in ids' <=> q \in ids
        /\ q \in raced' <=> q \in raced
        /\ q \in held' <=> q \in held
        /\ q \in deleted' <=> q \in deleted
    /\ tick' = tick
    /\ succeeded \subseteq succeeded'
    /\ succeeded' \subseteq succeeded \cup {j}
    /\ broken \subseteq broken'
    /\ broken' \subseteq broken \cup {j}

\* A step about p disturbs no other pipeline.
LEMMA MovesApart ==
    ASSUME NEW j \in Started, NEW p \in Pipelines, About(j, p), NEW step, Moves(j, step),
           OthersStay(j, p), Numbered
    PROVE  Numbered' /\ \A q \in Pipelines \ {p} : Apart(q)
<1>1. Numbered'
    BY DEF Numbered, OthersStay, Moves
<1>2. ASSUME NEW q \in Pipelines \ {p} PROVE Apart(q)
  <2>1. /\ Lasting
        /\ Started' = Started
        /\ \A i \in Started : About(i, q) => i # j /\ ~About(i, p)
        /\ \A i \in Started : activity'[i].pipeline = q => About(i, q)
    BY <1>2 DEF Moves, Lasting, About
  <2>2. \A i \in Started : About(i, q) =>
            /\ activity'[i].step = activity[i].step
            /\ activity'[i].copy = activity[i].copy
            /\ activity'[i].late = activity[i].late
            /\ i \in succeeded' <=> i \in succeeded
            /\ i \in broken' <=> i \in broken
    BY <2>1 DEF Moves, OthersStay, About
  <2> QED
    BY <1>2, <2>1, <2>2 DEF Apart, OthersStay
<1> QED
    BY <1>1, <1>2

\* The steps of the others about p, as the invariant speaks of them.
LEMMA MovesOthers ==
    ASSUME NEW j \in Started, NEW p \in Pipelines, About(j, p), NEW step, Moves(j, step)
    PROVE  /\ Started' = Started
           /\ About(j, p)'
           /\ \A s : At(j, s)' <=> step = s
           /\ activity'[j].step = step
           /\ \A i \in Started :
                /\ About(i, p)' <=> About(i, p)
                /\ activity'[i].kind = activity[i].kind
                /\ i # j =>
                    /\ activity'[i].step = activity[i].step
                    /\ activity'[i].copy = activity[i].copy
                    /\ ~activity'[i].late => ~activity[i].late
                    /\ \A s : At(i, s)' <=> At(i, s)
                    /\ MayStore(i)' <=> MayStore(i)
<1>1. /\ Started' = Started
      /\ Lasting
      /\ activity'[j].step = step
      /\ \A i \in Started \ {j} :
            /\ activity'[i].step = activity[i].step
            /\ activity'[i].copy = activity[i].copy
            /\ ~activity'[i].late => ~activity[i].late
    BY DEF Moves
<1> QED
    BY <1>1 DEF Lasting, About, At, MayStore

\* A step keeps the steps of a kind when its own is one of them.
LEMMA MovesShaped ==
    ASSUME TypeOK, NEW j \in Started, NEW p \in Pipelines, About(j, p), NEW step, Moves(j, step),
           Kept(p),
           step # "done" =>
                /\ activity[j].kind \in Runs => step \notin {"drop", "drop_id"}
                /\ activity[j].kind = "delete" => step = "drop_id"
                /\ activity[j].kind \notin Runs \cup {"delete"} => step = "save_id"
    PROVE  Fresh(p)' /\ Shaped(p)'
<1>1. Fresh(p)'
    BY MovesOthers DEF Fresh
<1>2. Shaped(p)'
  <2>1. \A kind \in Runs : kind \notin {"delete", "pause", "create", "update", "resume"}
    BY DEF Runs, ScheduledRun, RequestedRun
  <2> QED
    BY <2>1, MovesOthers DEF Kept, Shaped
<1> QED
    BY <1>1, <1>2

\* The steps that store nothing: the store stays, only broken may change.
Still(j) ==
    /\ UNCHANGED <<store, tick, raced, held, wanted, ran, succeeded, deleted>>
    /\ broken' \in {broken, broken \cup {j}}

\* What such a step keeps.
LEMMA StillKeeps ==
    ASSUME NEW j \in Started, NEW p \in Pipelines, About(j, p), NEW step, Moves(j, step),
           Still(j), Numbered, Kept(p)
    PROVE  /\ OthersStay(j, p)
           /\ UNCHANGED <<record, ids, history, tick, raced, held, wanted, ran, succeeded, deleted>>
           /\ Exists(p)' <=> Exists(p)
           /\ Intact(p)' => Intact(p) /\ j \notin broken'
           /\ step # "drop_id" /\ activity[j].step \notin {"save_id", "fail_id", "drop_id"} => IdsFollow(p)'
<1>1. UNCHANGED <<record, ids, history, tick, raced, held, wanted, ran, succeeded, deleted>>
    BY DEF Still, store
<1>2. OthersStay(j, p)
    BY <1>1 DEF Still, OthersStay
<1>3. Exists(p)' <=> Exists(p)
    BY <1>1 DEF Exists
<1>4. broken \subseteq broken'
    BY DEF Still
<1>5. Intact(p)' => Intact(p) /\ j \notin broken'
    BY <1>4, MovesOthers DEF Numbered, Intact
<1>6. ASSUME step # "drop_id", activity[j].step \notin {"save_id", "fail_id", "drop_id"}
      PROVE  IdsFollow(p)'
    BY <1>1, <1>3, <1>5, <1>6, MovesOthers DEF Kept, IdsFollow
<1> QED
    BY <1>1, <1>2, <1>3, <1>5, <1>6

\* A run that waited takes the record, or ends.
LEMMA RunLoadKeeps ==
    ASSUME TypeOK, Numbered, NEW j \in Started, NEW p \in Pipelines, About(j, p), Kept(p), RunLoad(j)
    PROVE  Numbered' /\ (\A q \in Pipelines \ {p} : Apart(q)) /\ Kept(p)'
<1>1. PICK step, copy :
        /\ GoesOn(j, step, copy)
        /\ \/ step = "crawl" /\ Exists(p) /\ copy = record[p]
           \/ step = "done"
    BY RunLoadEffect DEF About
<1>2. /\ Moves(j, step)
      /\ step # "done" => activity'[j].copy = copy /\ activity'[j].late = activity[j].late
    BY <1>1, MovesSteps DEF GoesOn
<1>3. Still(j)
    BY DEF RunLoad, Still, ghosts
<1>4. activity[j].step = "queued" /\ activity[j].kind \in Runs /\ p \notin held
  <2>1. activity[j].step = "queued" /\ activity[j].kind \in Kinds
    BY Items DEF RunLoad, MayStart, At
  <2> QED
    BY <2>1 DEF Kept, Shaped, HeldPaused, Kinds, At
<1>5. /\ Numbered' /\ (\A q \in Pipelines \ {p} : Apart(q))
      /\ UNCHANGED <<record, ids, history, tick, raced, held, wanted, ran, succeeded, deleted>>
      /\ Exists(p)' <=> Exists(p)
      /\ Intact(p)' => Intact(p)
      /\ broken' = broken
      /\ IdsFollow(p)'
    BY <1>1, <1>2, <1>3, <1>4, MovesApart, StillKeeps DEF RunLoad, ghosts
<1>6. Fresh(p)' /\ Shaped(p)'
    BY <1>1, <1>2, <1>4, MovesShaped DEF Runs, ScheduledRun, RequestedRun
<1>7. HeldPaused(p)'
    BY <1>4, <1>5 DEF HeldPaused
<1>8. CopiesCurrent(p)'
    BY <1>1, <1>2, <1>4, <1>5, MovesOthers DEF Kept, CopiesCurrent, MayStore, Runs, ScheduledRun, RequestedRun
<1>9. HistoryComes(p)'
    BY <1>1, <1>2, <1>4, <1>5, MovesOthers DEF Kept, HistoryComes
<1>10. CountsKept(p)'
    BY <1>1, <1>2, <1>4, <1>5, MovesOthers DEF Kept, CountsKept, Uncounted, At
<1> QED
    BY <1>5, <1>6, <1>7, <1>8, <1>9, <1>10 DEF Kept

\* The crawl counts the run in the copy.
LEMMA CrawlKeeps ==
    ASSUME TypeOK, Numbered, NEW j \in Started, NEW p \in Pipelines, About(j, p), Kept(p),
           CrawlOk(j) \/ CrawlFail(j)
    PROVE  Numbered' /\ (\A q \in Pipelines \ {p} : Apart(q)) /\ Kept(p)'
<1>1. PICK step \in {"save", "fail_save"}, copy \in Records :
        Crawled(copy, activity[j].copy) /\ GoesOn(j, step, copy)
    BY CrawlOkEffect, FailSaveEffect
<1>2. /\ Moves(j, step)
      /\ activity'[j].copy = copy
      /\ activity'[j].late = activity[j].late
      /\ copy.settings = activity[j].copy.settings
      /\ copy.runs = activity[j].copy.runs + 1
    BY <1>1, MovesSteps DEF GoesOn, Crawled
<1>3. Still(j) /\ broken' = broken
    BY DEF CrawlOk, CrawlFail, Still, ghosts
<1>4. activity[j].step = "crawl" /\ activity[j].kind \in Runs /\ p \notin held
  <2>1. activity[j].step = "crawl" /\ activity[j].kind \in Kinds
    BY Items DEF CrawlOk, CrawlFail, At
  <2> QED
    BY <2>1 DEF Kept, Shaped, HeldPaused, Kinds, At
<1>5. /\ Numbered' /\ (\A q \in Pipelines \ {p} : Apart(q))
      /\ UNCHANGED <<record, ids, history, tick, raced, held, wanted, ran, succeeded, deleted>>
      /\ Exists(p)' <=> Exists(p)
      /\ Intact(p)' => Intact(p)
      /\ IdsFollow(p)'
    BY <1>1, <1>2, <1>3, <1>4, MovesApart, StillKeeps
<1>6. Fresh(p)' /\ Shaped(p)'
    BY <1>1, <1>2, <1>4, MovesShaped DEF Runs, ScheduledRun, RequestedRun
<1>7. HeldPaused(p)'
    BY <1>4, <1>5 DEF HeldPaused
<1>8. "update" \notin Runs
    BY DEF Runs, ScheduledRun, RequestedRun
<1>9. CopiesCurrent(p)'
    BY <1>1, <1>2, <1>4, <1>5, <1>8, MovesOthers DEF Kept, CopiesCurrent, MayStore
<1>10. HistoryComes(p)'
    BY <1>1, <1>2, <1>3, <1>4, <1>5, MovesOthers DEF Kept, HistoryComes
<1>11. CountsKept(p)'
    BY <1>1, <1>2, <1>3, <1>4, <1>5, MovesOthers DEF Kept, CountsKept, Uncounted, At
<1> QED
    BY <1>5, <1>6, <1>7, <1>9, <1>10, <1>11 DEF Kept

\* A command that raises ends its activity.
LEMMA CommandFailsKeeps ==
    ASSUME TypeOK, Numbered, NEW j \in Started, NEW p \in Pipelines, About(j, p), Kept(p),
           CommandFails(j)
    PROVE  Numbered' /\ (\A q \in Pipelines \ {p} : Apart(q)) /\ Kept(p)'
<1>1. Moves(j, "done")
    BY CommandFailsEffect, MovesSteps
<1>2. Still(j) /\ broken' = broken \cup {j}
    BY DEF CommandFails, Still
<1>3. /\ Numbered' /\ (\A q \in Pipelines \ {p} : Apart(q))
      /\ UNCHANGED <<record, ids, history, tick, raced, held, wanted, ran, succeeded, deleted>>
      /\ Exists(p)' <=> Exists(p)
      /\ ~Intact(p)'
    BY <1>1, <1>2, MovesApart, StillKeeps
<1>4. Fresh(p)' /\ Shaped(p)'
    BY <1>1, MovesShaped
<1>5. HeldPaused(p)'
    BY <1>1, <1>3, MovesOthers DEF Kept, HeldPaused
<1>6. CopiesCurrent(p)'
    BY <1>1, <1>3, MovesOthers DEF Kept, CopiesCurrent, MayStore
<1>7. HistoryComes(p)'
    BY <1>1, <1>2, <1>3, MovesOthers DEF Kept, HistoryComes
<1>8. IdsFollow(p)'
    BY <1>1, <1>3, MovesOthers DEF Kept, IdsFollow
<1>9. CountsKept(p)'
    BY <1>1, <1>2, <1>3, MovesOthers DEF Kept, CountsKept, Uncounted, At
<1> QED
    BY <1>3, <1>4, <1>5, <1>6, <1>7, <1>8, <1>9 DEF Kept

\* A command of a run that raises after the crawl leads to its error path.
LEMMA RunCommandFailsKeeps ==
    ASSUME TypeOK, Numbered, NEW j \in Started, NEW p \in Pipelines, About(j, p), Kept(p),
           RunCommandFails(j)
    PROVE  Numbered' /\ (\A q \in Pipelines \ {p} : Apart(q)) /\ Kept(p)'
<1>1. PICK copy \in Records :
        Crawled(copy, activity[j].copy) /\ GoesOn(j, "fail_save", copy)
    BY FailSaveEffect
<1>2. /\ Moves(j, "fail_save")
      /\ activity'[j].copy = copy
      /\ activity'[j].late = activity[j].late
      /\ copy.settings = activity[j].copy.settings
    BY <1>1, MovesSteps DEF GoesOn, Crawled
<1>3. /\ activity[j].kind \in Runs
      /\ activity[j].step \in {"save", "save_id", "history"}
      /\ UNCHANGED <<record, ids, tick, raced, held, wanted, ran, succeeded, deleted>>
      /\ broken' = broken \cup {j}
      /\ \/ history' = history
         \/ /\ At(j, "history")
            /\ history' = [history EXCEPT ![p] = history[p] \cup {j}]
    BY DEF RunCommandFails, About
<1>4. /\ OthersStay(j, p)
      /\ \/ history'[p] = history[p]
         \/ At(j, "history") /\ history'[p] = history[p] \cup {j}
      /\ Exists(p)' <=> Exists(p)
  <2>1. history \in [Pipelines -> SUBSET Activities]
    BY DEF TypeOK
  <2>2. \A q \in Pipelines \ {p} : history'[q] = history[q]
    BY <1>3, <2>1
  <2>3. \/ history'[p] = history[p]
        \/ At(j, "history") /\ history'[p] = history[p] \cup {j}
    <3>1. CASE history' = history
      BY <3>1
    <3>2. CASE At(j, "history") /\ history' = [history EXCEPT ![p] = history[p] \cup {j}]
      BY <2>1, <3>2
    <3> QED
      BY <1>3, <3>1, <3>2
  <2> QED
    BY <1>3, <2>2, <2>3 DEF OthersStay, Exists
<1>5. Numbered' /\ \A q \in Pipelines \ {p} : Apart(q)
    BY <1>2, <1>4, MovesApart
<1>6. p \notin held /\ ~Intact(p)'
    BY <1>2, <1>3, MovesOthers DEF Kept, HeldPaused, At, Intact
<1>7. "update" \notin Runs /\ "delete" \notin Runs
    BY DEF Runs, ScheduledRun, RequestedRun
<1>8. Fresh(p)' /\ Shaped(p)'
    BY <1>2, <1>3, <1>7, MovesShaped
<1>9. HeldPaused(p)'
    BY <1>3, <1>6 DEF HeldPaused
<1>10. CopiesCurrent(p)'
    BY <1>2, <1>3, <1>4, <1>7, MovesOthers DEF Kept, CopiesCurrent, MayStore
<1>11. HistoryComes(p)'
    BY <1>2, <1>3, <1>4, MovesOthers DEF Kept, HistoryComes
<1>12. IdsFollow(p)'
    BY <1>2, <1>3, <1>6, MovesOthers DEF Kept, IdsFollow
<1>13. CountsKept(p)'
    BY <1>2, <1>3, <1>6, MovesOthers DEF Kept, CountsKept, Uncounted, At
<1> QED
    BY <1>5, <1>8, <1>9, <1>10, <1>11, <1>12, <1>13 DEF Kept

\* The history is the last thing a run writes.
LEMMA RunHistoryKeeps ==
    ASSUME TypeOK, Numbered, NEW j \in Started, NEW p \in Pipelines, About(j, p), Kept(p),
           RunHistory(j)
    PROVE  Numbered' /\ (\A q \in Pipelines \ {p} : Apart(q)) /\ Kept(p)'
<1>1. Moves(j, "done")
  <2>1. Goto(j, "done") /\ "done" \in Steps
    BY DEF RunHistory, Steps
  <2> QED
    BY <2>1, GotoGoesOn, MovesSteps
<1>2. /\ activity[j].step = "history"
      /\ UNCHANGED <<record, ids, tick, raced, held, wanted, ran, succeeded, deleted, broken>>
      /\ history' = [history EXCEPT ![p] = history[p] \cup {j}]
    BY DEF RunHistory, About, At, ghosts
<1>3. /\ OthersStay(j, p)
      /\ history'[p] = history[p] \cup {j}
      /\ Exists(p)' <=> Exists(p)
    BY <1>2 DEF OthersStay, Exists, TypeOK
<1>4. Numbered' /\ \A q \in Pipelines \ {p} : Apart(q)
    BY <1>1, <1>3, MovesApart
<1>5. Intact(p)' => Intact(p)
    BY <1>1, <1>2, MovesOthers DEF Numbered, Intact
<1>6. Fresh(p)' /\ Shaped(p)'
    BY <1>1, MovesShaped
<1>7. HeldPaused(p)'
    BY <1>1, <1>2, <1>3, MovesOthers DEF Kept, HeldPaused
<1>8. CopiesCurrent(p)'
    BY <1>1, <1>2, <1>3, MovesOthers DEF Kept, CopiesCurrent, MayStore
<1>9. HistoryComes(p)'
    BY <1>1, <1>2, <1>3, MovesOthers DEF Kept, HistoryComes, At
<1>10. IdsFollow(p)'
    BY <1>1, <1>2, <1>3, <1>5, MovesOthers DEF Kept, IdsFollow
<1>11. CountsKept(p)'
    BY <1>1, <1>2, <1>3, <1>5, MovesOthers DEF Kept, CountsKept, Uncounted, At
<1> QED
    BY <1>4, <1>6, <1>7, <1>8, <1>9, <1>10, <1>11 DEF Kept

\* The id follows the record, unless it is gone.
LEMMA SaveIdKeeps ==
    ASSUME TypeOK, Numbered, NEW j \in Started, NEW p \in Pipelines, About(j, p), Kept(p),
           SaveId(j)
    PROVE  Numbered' /\ (\A q \in Pipelines \ {p} : Apart(q)) /\ Kept(p)'
<1>1. PICK step \in {"history", "done"} :
        /\ Goto(j, step)
        /\ step = "history" <=> At(j, "save_id") /\ activity[j].kind \in Runs
    BY DEF SaveId
<1>2. /\ Moves(j, step)
      /\ step # "done" => activity'[j].copy = activity[j].copy /\ activity'[j].late = activity[j].late
  <2>1. step \in Steps
    BY DEF Steps
  <2>2. GoesOn(j, step, activity[j].copy)
    BY <1>1, <2>1, GotoGoesOn
  <2> QED
    BY <2>2, MovesSteps DEF GoesOn
<1>3. /\ activity[j].step \in {"save_id", "fail_id"}
      /\ UNCHANGED <<record, history, tick, held, wanted, ran, succeeded, deleted, broken>>
      /\ ids' = ids \cup {p}
      /\ raced' = IF Exists(p) THEN raced ELSE raced \cup {p}
    BY DEF SaveId, About
<1>4. /\ OthersStay(j, p)
      /\ Exists(p)' <=> Exists(p)
      /\ p \notin raced' => p \notin raced /\ Exists(p)
    BY <1>3 DEF OthersStay, Exists
<1>5. Numbered' /\ \A q \in Pipelines \ {p} : Apart(q)
    BY <1>2, <1>4, MovesApart
<1>6. Intact(p)' => Intact(p)
    BY <1>2, <1>3, MovesOthers DEF Numbered, Intact
<1>7. "update" \notin Runs /\ "delete" \notin Runs
    BY DEF Runs, ScheduledRun, RequestedRun
<1>8. Fresh(p)' /\ Shaped(p)'
    BY <1>1, <1>2, <1>7, MovesShaped
<1>9. HeldPaused(p)'
    BY <1>1, <1>2, <1>3, <1>4, MovesOthers DEF Kept, HeldPaused, At
<1>10. CopiesCurrent(p)'
  <2>1. CASE step = "done"
    BY <1>2, <1>3, <1>4, <2>1, MovesOthers DEF Kept, CopiesCurrent, MayStore
  <2>2. CASE step = "history"
    <3>1. /\ activity[j].step = "save_id"
          /\ activity[j].kind # "update"
          /\ activity'[j].copy = activity[j].copy
          /\ activity'[j].late = activity[j].late
      BY <1>1, <1>2, <1>7, <2>2 DEF At
    <3> QED
      BY <1>2, <1>3, <1>4, <2>2, <3>1, MovesOthers DEF Kept, CopiesCurrent, MayStore
  <2> QED
    BY <2>1, <2>2
<1>11. HistoryComes(p)'
    BY <1>1, <1>2, <1>3, MovesOthers DEF Kept, HistoryComes, At
<1>12. IdsFollow(p)'
    BY <1>1, <1>2, <1>3, <1>4, MovesOthers DEF Kept, IdsFollow
<1>13. CountsKept(p)'
    BY <1>1, <1>2, <1>3, <1>4, <1>6, MovesOthers DEF Kept, CountsKept, Uncounted, At
<1> QED
    BY <1>5, <1>8, <1>9, <1>10, <1>11, <1>12, <1>13 DEF Kept

\* The id goes after the record.
LEMMA DropIdKeeps ==
    ASSUME TypeOK, Numbered, NEW j \in Started, NEW p \in Pipelines, About(j, p), Kept(p),
           DropId(j)
    PROVE  Numbered' /\ (\A q \in Pipelines \ {p} : Apart(q)) /\ Kept(p)'
<1>1. Moves(j, "done")
  <2>1. Goto(j, "done") /\ "done" \in Steps
    BY DEF DropId, Steps
  <2> QED
    BY <2>1, GotoGoesOn, MovesSteps
<1>2. /\ activity[j].step = "drop_id"
      /\ UNCHANGED <<record, history, tick, raced, held, wanted, ran, succeeded, deleted, broken>>
      /\ ids' = ids \ {p}
    BY DEF DropId, About, At, ghosts
<1>3. /\ OthersStay(j, p)
      /\ Exists(p)' <=> Exists(p)
      /\ p \in deleted
    BY <1>2 DEF OthersStay, Exists, Kept, IdsFollow, At
<1>4. Numbered' /\ \A q \in Pipelines \ {p} : Apart(q)
    BY <1>1, <1>3, MovesApart
<1>5. Intact(p)' => Intact(p)
    BY <1>1, <1>2, MovesOthers DEF Numbered, Intact
<1>6. Fresh(p)' /\ Shaped(p)'
    BY <1>1, MovesShaped
<1>7. HeldPaused(p)'
    BY <1>1, <1>2, <1>3, MovesOthers DEF Kept, HeldPaused
<1>8. CopiesCurrent(p)'
    BY <1>1, <1>2, <1>3, MovesOthers DEF Kept, CopiesCurrent, MayStore
<1>9. HistoryComes(p)'
    BY <1>1, <1>2, <1>3, MovesOthers DEF Kept, HistoryComes, At
<1>10. IdsFollow(p)'
    BY <1>1, <1>2, <1>3, MovesOthers DEF Kept, IdsFollow, CopiesCurrent
<1>11. CountsKept(p)'
    BY <1>1, <1>2, <1>3, <1>5, MovesOthers DEF Kept, CountsKept, Uncounted, At
<1> QED
    BY <1>4, <1>6, <1>7, <1>8, <1>9, <1>10, <1>11 DEF Kept

\* What a write does to the copies about the same pipeline.
LEMMA WritesLate ==
    ASSUME NEW j \in Started, NEW p \in Pipelines, About(j, p), NEW step, Writes(j, step)
    PROVE  /\ activity'[j].copy = activity[j].copy
           /\ activity'[j].late = activity[j].late
           /\ \A i \in Started \ {j} : About(i, p) /\ MayStore(i) => activity'[i].late
BY DEF Writes, Outdated, MayStore, About

\* A run that is counted was not.
LEMMA CountedOnce ==
    ASSUME TypeOK, NEW p \in Pipelines, NEW j \in Started, j \notin ran[p]
    PROVE  Cardinality(ran[p] \cup {j}) = Cardinality(ran[p]) + 1
<1>1. ran[p] \subseteq 1..MaxActivities
    BY DEF TypeOK, Activities
<1>2. IsFiniteSet(1..MaxActivities)
    BY FS_Interval
<1>3. IsFiniteSet(ran[p])
    BY <1>1, <1>2, FS_Subset
<1> QED
    BY <1>3, FS_AddElement

\* The record becomes the copy.
LEMMA SaveKeeps ==
    ASSUME TypeOK, Numbered, NEW j \in Started, NEW p \in Pipelines, About(j, p), Kept(p),
           Save(j)
    PROVE  Numbered' /\ (\A q \in Pipelines \ {p} : Apart(q)) /\ Kept(p)'
<1> DEFINE c == activity[j]
           saved == activity[j].step = "save"
           ofRun == activity[j].kind \in Runs
<1>1. PICK step \in {"save_id", "fail_id"} :
        /\ Writes(j, step)
        /\ step = "save_id" <=> saved
  <2>1. Wrote(j, c.pipeline, IF saved THEN "save_id" ELSE "fail_id")
    BY DEF Save
  <2>2. (IF saved THEN "save_id" ELSE "fail_id") \in Steps \ {"done"}
    BY DEF Steps
  <2> QED
    BY <2>1, <2>2, WroteWrites
<1>2. Moves(j, step)
    BY <1>1, MovesSteps
<1>3. /\ c.step \in {"save", "fail_save"}
      /\ c.kind \in Kinds
      /\ c.copy \in Records
      /\ j \in Activities
    BY Items DEF Save
<1>4. /\ record' = [record EXCEPT ![p] = c.copy]
      /\ raced' = IF c.late THEN raced \cup {p} ELSE raced
      /\ held' = IF c.kind = "pause" /\ Quiet(j, p) THEN held \cup {p}
                 ELSE IF c.kind = "resume" THEN held \ {p} ELSE held
      /\ wanted' = IF c.kind = "update" THEN [wanted EXCEPT ![p] = j] ELSE wanted
      /\ ran' = IF ofRun THEN [ran EXCEPT ![p] = ran[p] \cup {j}] ELSE ran
      /\ succeeded' = IF ofRun /\ saved THEN succeeded \cup {j} ELSE succeeded
      /\ UNCHANGED <<ids, history, tick, deleted, broken>>
    BY DEF Save, About
<1>5. /\ record \in [Pipelines -> Records \cup {Absent}]
      /\ wanted \in [Pipelines -> 0..MaxActivities]
      /\ ran \in [Pipelines -> SUBSET Activities]
    BY DEF TypeOK
<1>6. /\ record'[p] = c.copy
      /\ Exists(p)'
      /\ wanted'[p] = IF c.kind = "update" THEN j ELSE wanted[p]
      /\ ran'[p] = IF ofRun THEN ran[p] \cup {j} ELSE ran[p]
      /\ p \notin raced' => p \notin raced /\ ~c.late
    BY <1>3, <1>4, <1>5 DEF Exists
<1>7. OthersStay(j, p)
    BY <1>4, <1>5 DEF OthersStay
<1>8. Numbered' /\ \A q \in Pipelines \ {p} : Apart(q)
    BY <1>2, <1>7, MovesApart
<1>9. /\ activity'[j].copy = c.copy
      /\ activity'[j].late = c.late
      /\ \A i \in Started \ {j} : About(i, p) /\ MayStore(i) => activity'[i].late
    BY <1>1, WritesLate
<1>10. Intact(p)' => Intact(p) /\ j \notin broken
    BY <1>2, <1>4, MovesOthers DEF Numbered, Intact
<1>11. /\ ofRun <=> c.kind \notin {"create", "update", "pause", "resume", "delete"}
       /\ c.step = "save" \/ ofRun
       /\ c.kind # "delete"
       /\ c.kind = "pause" => c.copy.status = "paused"
  <2>1. ofRun <=> c.kind \notin {"create", "update", "pause", "resume", "delete"}
    BY <1>3 DEF Kinds, Runs, ScheduledRun, RequestedRun
  <2> QED
    BY <1>3, <2>1 DEF Kept, Shaped, At
<1>12. Fresh(p)' /\ Shaped(p)'
    BY <1>1, <1>2, <1>11, MovesShaped
<1> HIDE DEF c, saved, ofRun
<1>13. HeldPaused(p)'
  <2>1. SUFFICES ASSUME p \in held'
                 PROVE  HeldPaused(p)'
    BY DEF HeldPaused
  <2>2. CASE c.kind = "pause" /\ Quiet(j, p)
    <3>1. /\ \A s \in Schedulers : p \notin tick'[s].due
          /\ \A i \in Started \ {j} : About(i, p) => activity[i].step = "done"
      BY <1>4, <2>2 DEF Quiet, Under
    <3>2. record'[p].status = "paused"
      BY <1>6, <1>11, <2>2
    <3>3. "pause" \notin Runs
      BY DEF Runs, ScheduledRun, RequestedRun
    <3>4. /\ About(j, p)'
          /\ activity'[j].kind = "pause"
          /\ \A i \in Started' : About(i, p)' => i = j \/ activity'[i].step = "done"
      BY <1>2, <2>2, <3>1, MovesOthers DEF c
    <3> QED
      BY <1>2, <3>1, <3>2, <3>3, <3>4, MovesOthers DEF HeldPaused, At
  <2>3. CASE ~(c.kind = "pause" /\ Quiet(j, p))
    <3>1. p \in held /\ c.kind # "resume"
      BY <1>4, <2>1, <2>3
    <3>2. /\ \A s \in Schedulers : p \notin tick[s].due
          /\ ~ofRun
          /\ c.kind # "create"
          /\ c.kind = "update" => c.copy.status = "paused"
      BY <1>3, <1>11, <3>1 DEF Kept, HeldPaused, At, c, ofRun
    <3>3. record'[p].status = "paused"
      BY <1>3, <1>6, <1>11, <3>1, <3>2 DEF Kinds
    <3>4. step = "save_id" /\ c.kind \notin Runs
      BY <1>1, <1>11, <3>2 DEF saved, ofRun, c
    <3> QED
      BY <1>2, <1>4, <3>1, <3>2, <3>3, <3>4, MovesOthers DEF Kept, HeldPaused, c
  <2> QED
    BY <2>2, <2>3
<1>14. CopiesCurrent(p)'
  <2>1. SUFFICES ASSUME p \notin raced'
                 PROVE  CopiesCurrent(p)'
    BY DEF CopiesCurrent
  <2>2. /\ p \notin raced
        /\ ~c.late
        /\ MayStore(j)
    BY <1>3, <1>6, <2>1 DEF MayStore, c
  <2>3. p \notin deleted /\ c.copy.settings = wanted'[p]
    <3>1. CASE c.kind = "update"
      BY <1>6, <1>11, <2>2, <3>1 DEF Kept, CopiesCurrent, At, c, ofRun
    <3>2. CASE c.kind # "update"
      BY <1>6, <2>2, <3>2 DEF Kept, CopiesCurrent, c
    <3> QED
      BY <3>1, <3>2
  <2> QED
    BY <1>2, <1>4, <1>6, <1>9, <2>3, MovesOthers DEF CopiesCurrent
<1>15. HistoryComes(p)'
  <2>1. /\ succeeded \subseteq succeeded'
        /\ succeeded' \subseteq succeeded \cup {j}
        /\ j \in succeeded' => c.kind \in Runs
        /\ step = "save_id" /\ c.kind \in Runs => j \in succeeded'
        /\ j \in succeeded' /\ step # "save_id" => j \in history[p] \/ j \in broken
    BY <1>1, <1>3, <1>4 DEF Kept, HistoryComes, c, saved, ofRun
  <2> QED
    BY <1>2, <1>4, <2>1, MovesOthers DEF Kept, HistoryComes, c
<1>16. IdsFollow(p)'
  <2>1. p \notin raced' => p \notin deleted
    BY <1>3, <1>6 DEF Kept, CopiesCurrent, MayStore, c
  <2> QED
    BY <1>2, <1>4, <2>1, MovesOthers DEF Kept, IdsFollow
<1>17. CountsKept(p)'
  <2>1. ran'[p] \subseteq Started
    BY <1>6 DEF Kept, CountsKept
  <2>2. \A i \in Started \ {j} : Uncounted(i)' <=> Uncounted(i)
    BY <1>2, <1>4, MovesOthers DEF Uncounted
  <2>3. ~Uncounted(j)'
    BY <1>2, MovesOthers DEF Uncounted
  <2>4. \A i \in Started : About(i, p)' /\ Uncounted(i)' => i \notin ran'[p]
    BY <1>2, <1>6, <2>2, <2>3, MovesOthers DEF Kept, CountsKept
  <2>5. ASSUME p \notin raced', Intact(p)'
        PROVE  record'[p].runs = Cardinality(ran'[p])
    <3>1. /\ p \notin raced
          /\ Intact(p)
          /\ ~c.late
          /\ j \notin broken
      BY <1>6, <1>10, <2>5
    <3>2. CASE ofRun
      <4>1. j \notin ran[p]
        BY <1>3, <3>1, <3>2 DEF Kept, CountsKept, Uncounted, At, c, ofRun
      <4>2. c.copy.runs = Cardinality(ran[p]) + 1
        BY <1>3, <3>1, <3>2 DEF Kept, CountsKept, c, ofRun
      <4> QED
        BY <1>6, <3>2, <4>1, <4>2, CountedOnce
    <3>3. CASE ~ofRun
      <4>1. c.copy.runs = Cardinality(ran[p])
        BY <1>11, <3>1, <3>3 DEF Kept, CountsKept, At, c, ofRun
      <4> QED
        BY <1>6, <3>3, <4>1
    <3> QED
      BY <3>2, <3>3
  <2>6. \A i \in Started : About(i, p)' /\ ~activity'[i].late =>
            /\ ~At(i, "crawl")'
            /\ ~At(i, "save")'
            /\ activity'[i].step \notin {"save", "fail_save"}
    BY <1>2, <1>9, MovesOthers DEF MayStore, At
  <2> QED
    BY <1>2, <2>1, <2>4, <2>5, <2>6, MovesOthers DEF CountsKept
<1> QED
    BY <1>8, <1>12, <1>13, <1>14, <1>15, <1>16, <1>17 DEF Kept

\* The record goes, and nobody else has a current copy.
LEMMA DropKeeps ==
    ASSUME TypeOK, Numbered, NEW j \in Started, NEW p \in Pipelines, About(j, p), Kept(p),
           Drop(j)
    PROVE  Numbered' /\ (\A q \in Pipelines \ {p} : Apart(q)) /\ Kept(p)'
<1>1. Writes(j, "drop_id")
  <2>1. Wrote(j, activity[j].pipeline, "drop_id") /\ "drop_id" \in Steps \ {"done"}
    BY DEF Drop, Steps
  <2> QED
    BY <2>1, WroteWrites
<1>2. Moves(j, "drop_id")
    BY <1>1, MovesSteps
<1>3. /\ activity[j].step = "drop"
      /\ record' = [record EXCEPT ![p] = Absent]
      /\ deleted' = deleted \cup {p}
      /\ UNCHANGED <<ids, history, tick, raced, held, wanted, ran, succeeded, broken>>
    BY DEF Drop, About, At
<1>4. activity[j].kind = "delete" /\ "delete" \notin Runs
  <2>1. activity[j].kind \in Kinds
    BY Items
  <2> QED
    BY <1>3, <2>1 DEF Kept, Shaped, Runs, ScheduledRun, RequestedRun
<1>5. OthersStay(j, p) /\ ~Exists(p)'
    BY <1>3 DEF OthersStay, Exists, TypeOK
<1>6. Numbered' /\ \A q \in Pipelines \ {p} : Apart(q)
    BY <1>2, <1>5, MovesApart
<1>7. \A i \in Started \ {j} : About(i, p) /\ MayStore(i) => activity'[i].late
    BY <1>1, WritesLate
<1>8. Intact(p)' => Intact(p)
    BY <1>2, <1>3, MovesOthers DEF Numbered, Intact
<1>9. Fresh(p)' /\ Shaped(p)'
    BY <1>2, <1>4, MovesShaped
<1>10. HeldPaused(p)'
    BY <1>2, <1>3, <1>4, <1>5, MovesOthers DEF Kept, HeldPaused
<1>11. CopiesCurrent(p)'
    BY <1>2, <1>5, <1>7, MovesOthers DEF CopiesCurrent, MayStore
<1>12. HistoryComes(p)'
    BY <1>2, <1>3, MovesOthers DEF Kept, HistoryComes
<1>13. IdsFollow(p)'
    BY <1>2, <1>3, MovesOthers DEF Kept, IdsFollow
<1>14. CountsKept(p)'
    BY <1>2, <1>3, <1>4, <1>5, <1>8, MovesOthers DEF Kept, CountsKept, Uncounted, At
<1> QED
    BY <1>6, <1>9, <1>10, <1>11, <1>12, <1>13, <1>14 DEF Kept

\* Whatever was under way in a process ends with it, and the store stays.
LEMMA CrashKeeps ==
    ASSUME TypeOK, Numbered, NEW s \in Processes, Crash(s), NEW p \in Pipelines, Kept(p)
    PROVE  Numbered' /\ Kept(p)'
<1> DEFINE l == {j \in Started : activity[j].process = s /\ Under(j)}
<1>1. PICK lost \in SUBSET Started : Ends(lost) /\ broken' = broken \cup lost
  <2>1. l \in SUBSET Started
    OBVIOUS
  <2>2. Ends(l) /\ broken' = broken \cup l
    BY CrashEnds
  <2> HIDE DEF l
  <2> QED
    BY <2>1, <2>2
<1>2. /\ UNCHANGED <<record, ids, history, raced, held, wanted, ran, succeeded, deleted>>
      /\ \A t \in Schedulers : \A q \in tick'[t].due : q \in tick[t].due
  <2>1. UNCHANGED <<record, ids, history, raced, held, wanted, ran, succeeded, deleted>>
    BY DEF Crash, store
  <2>2. tick' = [t \in Schedulers |-> IF t = s THEN [todo |-> {}, due |-> {}] ELSE tick[t]]
    BY DEF Crash
  <2>3. \A t \in Schedulers : \A q \in tick'[t].due : q \in tick[t].due
    BY <2>2
  <2> QED
    BY <2>1, <2>3
<1>3. /\ Started' = Started
      /\ \A i \in Started :
            /\ About(i, p)' <=> About(i, p)
            /\ activity'[i].kind = activity[i].kind
            /\ i \in lost => activity'[i].step = "done" /\ i \in broken'
            /\ i \notin lost =>
                /\ activity'[i] = activity[i]
                /\ i \in broken' <=> i \in broken
                /\ \A step : At(i, step)' <=> At(i, step)
                /\ MayStore(i)' <=> MayStore(i)
                /\ Uncounted(i)' <=> Uncounted(i)
    BY <1>1 DEF Ends, Lasting, About, At, MayStore, Uncounted
<1>4. /\ \A i \in lost : \A step : At(i, step)' <=> step = "done"
      /\ \A i \in lost : ~MayStore(i)' /\ ~Uncounted(i)'
      /\ lost \subseteq Started
    BY <1>1, <1>3 DEF At, MayStore, Uncounted
<1>5. Exists(p)' <=> Exists(p)
    BY <1>2 DEF Exists
<1>6. Intact(p)' => Intact(p) /\ \A i \in lost : ~About(i, p)
    BY <1>1, <1>3, <1>4 DEF Numbered, Intact
<1>7. Numbered'
    BY <1>1, <1>2, <1>3 DEF Numbered
<1>8. Fresh(p)'
    BY <1>2, <1>3, <1>5 DEF Kept, Fresh
<1>9. Shaped(p)'
    BY <1>3, <1>4 DEF Kept, Shaped
<1>10. HeldPaused(p)'
    BY <1>2, <1>3, <1>4, <1>5 DEF Kept, HeldPaused
<1>11. CopiesCurrent(p)'
    BY <1>2, <1>3, <1>4, <1>5 DEF Kept, CopiesCurrent
<1>12. HistoryComes(p)'
    BY <1>2, <1>3, <1>4 DEF Kept, HistoryComes
<1>13. IdsFollow(p)'
    BY <1>2, <1>3, <1>4, <1>5, <1>6 DEF Kept, IdsFollow
<1>14. CountsKept(p)'
    BY <1>2, <1>3, <1>4, <1>5, <1>6 DEF Kept, CountsKept
<1> QED
    BY <1>7, <1>8, <1>9, <1>10, <1>11, <1>12, <1>13, <1>14 DEF Kept

----------------------------------------------------------------------------
(* Theorems.                                                               *)

\* Nothing is kept at first.
LEMMA KeptInit == Init => PipelinesKept
<1> SUFFICES ASSUME Init PROVE PipelinesKept
    OBVIOUS
<1>1. TypeOK
    BY TypeInit
<1>2. Started = {}
    BY <1>1, Items, EmptySeq DEF Init
<1>3. Numbered
    BY DEF Init, Numbered
<1>4. ASSUME NEW p \in Pipelines PROVE Kept(p)
  <2>1. ~Exists(p)
    BY DEF Init, Exists
  <2>2. Fresh(p)
    BY <2>1 DEF Init, Fresh
  <2>3. Shaped(p)
    BY <1>2 DEF Shaped
  <2>4. HeldPaused(p)
    BY DEF Init, HeldPaused
  <2>5. CopiesCurrent(p)
    BY <1>2, <2>1 DEF Init, CopiesCurrent
  <2>6. HistoryComes(p)
    BY <1>2 DEF Init, HistoryComes
  <2>7. IdsFollow(p)
    BY <1>2, <2>1 DEF Init, IdsFollow
  <2>8. CountsKept(p)
    BY <1>2, <2>1 DEF Init, CountsKept
  <2> QED
    BY <2>2, <2>3, <2>4, <2>5, <2>6, <2>7, <2>8 DEF Kept
<1> QED
    BY <1>1, <1>3, <1>4 DEF PipelinesKept

\* A step of an activity about p keeps what is true of p, and of the others.
LEMMA ActivityKeeps ==
    ASSUME PipelinesKept, NEW j \in Started,
           \/ RunLoad(j) \/ CrawlOk(j) \/ CrawlFail(j) \/ RunHistory(j)
           \/ Save(j) \/ SaveId(j) \/ Drop(j) \/ DropId(j)
           \/ CommandFails(j) \/ RunCommandFails(j)
    PROVE  Numbered' /\ \A q \in Pipelines : Kept(q)'
<1>1. PICK p \in Pipelines : About(j, p)
    BY Items DEF PipelinesKept, About
<1>2. TypeOK /\ Numbered /\ Kept(p)
    BY DEF PipelinesKept
<1>3. Numbered' /\ (\A q \in Pipelines \ {p} : Apart(q)) /\ Kept(p)'
    BY <1>1, <1>2, RunLoadKeeps, CrawlKeeps, RunHistoryKeeps, SaveKeeps, SaveIdKeeps,
       DropKeeps, DropIdKeeps, CommandFailsKeeps, RunCommandFailsKeeps
<1>4. ASSUME NEW q \in Pipelines, q # p PROVE Kept(q)'
    BY <1>2, <1>3, <1>4, ApartKeeps DEF PipelinesKept
<1> QED
    BY <1>3, <1>4

\* Every action keeps it all.
LEMMA KeptStep == PipelinesKept /\ [Next]_vars => PipelinesKept'
<1> SUFFICES ASSUME PipelinesKept, [Next]_vars
             PROVE  PipelinesKept'
    OBVIOUS
<1>1. TypeOK'
    BY TypeStep DEF PipelinesKept
<1>2. TypeOK /\ Numbered /\ \A p \in Pipelines : Kept(p)
    BY DEF PipelinesKept
<1>3. CASE Rests
  <2>1. Numbered'
    BY <1>2, <1>3 DEF Rests, ghosts, Numbered, Started
  <2> QED
    BY <1>1, <1>2, <1>3, <2>1, RestsKeeps DEF PipelinesKept
<1>4. CASE Serve \/ \E s \in Schedulers, p \in Pipelines : TickSubmit(s, p)
    BY <1>1, <1>2, <1>4, ArrivesSteps, ArrivesKeeps DEF PipelinesKept
<1>5. ASSUME NEW j \in Started,
             \/ RunLoad(j) \/ CrawlOk(j) \/ CrawlFail(j) \/ RunHistory(j)
             \/ Save(j) \/ SaveId(j) \/ Drop(j) \/ DropId(j)
             \/ CommandFails(j) \/ RunCommandFails(j)
      PROVE  PipelinesKept'
    BY <1>1, <1>5, ActivityKeeps DEF PipelinesKept
<1>6. ASSUME NEW s \in Processes, Crash(s) PROVE PipelinesKept'
  <2>1. Numbered'
    BY <1>2, <1>6, CrashEnds DEF Numbered, Crash, Ends
  <2>2. \A p \in Pipelines : Kept(p)'
    BY <1>2, <1>6, CrashKeeps
  <2> QED
    BY <1>1, <2>1, <2>2 DEF PipelinesKept
<1> QED
    BY <1>2, <1>3, <1>4, <1>5, <1>6, RestsSteps DEF Next, Schedule, Execute, Fault

\* It is an invariant.
LEMMA KeptAlways == Spec => []PipelinesKept
BY KeptInit, KeptStep, PTL DEF Spec

\* For any processes, pipelines and activities: a pipeline paused while nothing was
\* under way about it stays paused until it is resumed, and no run of it works.
THEOREM HeldStays == Spec => []PauseHolds
<1>1. PipelinesKept => PauseHolds
  <2> SUFFICES ASSUME PipelinesKept, NEW p \in held
               PROVE  /\ Exists(p) => record[p].status = "paused"
                      /\ \A j \in Started : RunOf(j, p) => ~Under(j)
      BY DEF PauseHolds
  <2>1. Kept(p)
    BY DEF PipelinesKept, TypeOK
  <2> QED
    BY <2>1 DEF Kept, HeldPaused, RunOf, Under, At
<1> QED
    BY <1>1, KeptAlways, PTL

\* For any processes, pipelines and activities: the record has the settings that
\* users set last, unless a copy was stored that another write had made old.
THEOREM SettingsStay == Spec => []SettingsKept
<1>1. PipelinesKept => SettingsKept
    BY DEF PipelinesKept, Kept, CopiesCurrent, SettingsKept
<1> QED
    BY <1>1, KeptAlways, PTL

\* For any processes, pipelines and activities: total_runs counts the runs, unless
\* an old copy was stored or something broke.
THEOREM CountsAgree == Spec => []RunsCounted
<1>1. PipelinesKept => RunsCounted
    BY DEF PipelinesKept, Kept, CountsKept, RunsCounted
<1> QED
    BY <1>1, KeptAlways, PTL

\* For any processes, pipelines and activities: the history has the runs that
\* succeeded, but for those still at it or cut short.
THEOREM HistoryAgrees == Spec => []HistorySound
<1>1. PipelinesKept => HistorySound
  <2> SUFFICES ASSUME PipelinesKept PROVE HistorySound
      OBVIOUS
  <2>1. \A p \in Pipelines : history[p] \subseteq succeeded
    BY DEF PipelinesKept, Kept, HistoryComes
  <2>2. ASSUME NEW j \in succeeded
        PROVE  \/ j \in history[activity[j].pipeline]
               \/ activity[j].step \in {"save_id", "history"}
               \/ j \in broken
    <3>1. j \in Started
      BY DEF PipelinesKept, Numbered
    <3>2. PICK p \in Pipelines : activity[j].pipeline = p
      BY <3>1, Items DEF PipelinesKept
    <3> QED
      BY <2>2, <3>1, <3>2 DEF PipelinesKept, Kept, HistoryComes, About
  <2> QED
    BY <2>1, <2>2 DEF HistorySound
<1> QED
    BY <1>1, KeptAlways, PTL

\* For any processes, pipelines and activities: ids and records are about the same
\* pipelines and what was deleted stays away, unless an old copy was stored or
\* something broke.
THEOREM StoreAgrees == Spec => []StoreConsistent
<1>1. PipelinesKept => StoreConsistent
    BY DEF PipelinesKept, Kept, IdsFollow, CopiesCurrent, StoreConsistent
<1> QED
    BY <1>1, KeptAlways, PTL

----------------------------------------------------------------------------
(* One activity at a time.                                                 *)

\* A request that came, or a run that left the queue.
Works(j) == activity[j].step \notin {"queued", "done"}

\* No two of them are about p at once.  Runs may wait, commands may raise and
\* processes may die.
OneAtATime(p) ==
    \A i, j \in Started : About(i, p) /\ About(j, p) /\ Works(i) /\ Works(j) => i = j

\* Then no copy that is still needed grows old, and an id is added for a record.
Undisturbed(p) ==
    /\ p \notin raced
    /\ \A j \in Started : About(j, p) /\ Works(j) =>
        /\ ~activity[j].late
        /\ activity[j].step \in {"save_id", "fail_id"} => Exists(p)

\* A step of an activity that stores nothing.
LEMMA GoesOnUndisturbed ==
    ASSUME NEW p \in Pipelines, Undisturbed(p), NEW j \in Started, NEW step, NEW copy,
           GoesOn(j, step, copy), step \notin {"save_id", "fail_id"},
           Works(j) \/ step = "done" \/ ~activity[j].late,
           record'[p] = record[p], p \in raced' => p \in raced
    PROVE  Undisturbed(p)'
<1>1. /\ Started' = Started
      /\ activity'[j].step = step
      /\ step # "done" => activity'[j].late = activity[j].late
      /\ \A i \in Started \ {j} : activity'[i] = activity[i]
      /\ \A i \in Started : activity'[i].pipeline = activity[i].pipeline
    BY DEF GoesOn, Lasting
<1>2. ASSUME NEW i \in Started, About(i, p)', Works(i)'
      PROVE  /\ ~activity'[i].late
             /\ activity'[i].step \in {"save_id", "fail_id"} => Exists(p)'
  <2>1. About(i, p)
    BY <1>1, <1>2 DEF About
  <2>2. CASE i = j
    BY <1>1, <1>2, <2>1, <2>2 DEF Works, Undisturbed
  <2>3. CASE i # j
    BY <1>1, <1>2, <2>1, <2>3 DEF Works, Undisturbed, Exists
  <2> QED
    BY <2>2, <2>3
<1> QED
    BY <1>1, <1>2 DEF Undisturbed

\* Nor is a copy that waits for its run late: it is not read yet.
QueuedFresh == \A j \in Started : At(j, "queued") => ~activity[j].late

\* What waits is not touched by a write, and what comes is fresh.
LEMMA QueuedStep ==
    ASSUME PipelinesKept, [Next]_vars, QueuedFresh
    PROVE  QueuedFresh'
<1>0. TypeOK
    BY DEF PipelinesKept
<1>1. ASSUME NEW j \in Started, NEW step, NEW copy, GoesOn(j, step, copy), step # "queued"
      PROVE  QueuedFresh'
    BY <1>1 DEF GoesOn, QueuedFresh, At
<1>2. ASSUME NEW j \in Started, NEW step, Writes(j, step), step # "queued"
      PROVE  QueuedFresh'
    BY <1>2 DEF Writes, Outdated, QueuedFresh, At
<1>3. CASE Rests
    BY <1>3 DEF Rests, QueuedFresh, At, Started
<1>4. CASE Serve \/ \E s \in Schedulers, p \in Pipelines : TickSubmit(s, p)
  <2>1. \E kind, p, step, copy : Comes(kind, p, step, copy)
    BY <1>0, <1>4, ArrivesSteps DEF Arrives
  <2> QED
    BY <2>1 DEF Comes, QueuedFresh, At
<1>5. ASSUME NEW j \in Started, RunLoad(j) PROVE QueuedFresh'
    BY <1>0, <1>1, <1>5, RunLoadEffect
<1>6. ASSUME NEW j \in Started, CrawlOk(j) PROVE QueuedFresh'
    BY <1>0, <1>1, <1>6, CrawlOkEffect
<1>7. ASSUME NEW j \in Started, CrawlFail(j) \/ RunCommandFails(j) PROVE QueuedFresh'
    BY <1>0, <1>1, <1>7, FailSaveEffect
<1>8. ASSUME NEW j \in Started, RunHistory(j) \/ DropId(j) \/ SaveId(j) PROVE QueuedFresh'
  <2>1. \E step \in {"done", "history"} : Goto(j, step)
    BY <1>8 DEF RunHistory, DropId, SaveId
  <2>2. {"done", "history"} \subseteq Steps
    BY DEF Steps
  <2> QED
    BY <1>0, <1>1, <2>1, <2>2, GotoGoesOn
<1>9. ASSUME NEW j \in Started, CommandFails(j) PROVE QueuedFresh'
    BY <1>0, <1>1, <1>9, CommandFailsEffect
<1>10. ASSUME NEW j \in Started, Save(j) \/ Drop(j) PROVE QueuedFresh'
  <2>1. \E step \in {"save_id", "fail_id", "drop_id"} : Wrote(j, activity[j].pipeline, step)
    BY <1>10 DEF Save, Drop
  <2>2. {"save_id", "fail_id", "drop_id"} \subseteq Steps \ {"done"}
    BY DEF Steps
  <2> QED
    BY <1>0, <1>2, <2>1, <2>2, WroteWrites
<1>11. ASSUME NEW s \in Processes, Crash(s) PROVE QueuedFresh'
    BY <1>0, <1>11, CrashEnds DEF Ends, QueuedFresh, At
<1> QED
    BY <1>0, <1>3, <1>4, <1>5, <1>6, <1>7, <1>8, <1>9, <1>10, <1>11, RestsSteps
       DEF Next, Schedule, Execute, Fault

\* Save and Drop about another pipeline, or when nothing else works.
LEMMA WritesUndisturbed ==
    ASSUME PipelinesKept, NEW p \in Pipelines, OneAtATime(p), Undisturbed(p),
           NEW j \in Started, Save(j) \/ Drop(j)
    PROVE  Undisturbed(p)'
<1>0. TypeOK /\ activity[j].pipeline \in Pipelines /\ activity[j].copy \in Records
    BY Items DEF PipelinesKept
<1>1. Works(j)
    BY DEF Save, Drop, Works, At
<1>2. PICK step \in {"save_id", "fail_id", "drop_id"} :
            Writes(j, step) /\ (step = "drop_id" <=> Drop(j))
  <2>1. PICK step \in {"save_id", "fail_id", "drop_id"} :
            Wrote(j, activity[j].pipeline, step) /\ (step = "drop_id" <=> Drop(j))
    BY DEF Save, Drop, At
  <2>2. step \in Steps \ {"done"}
    BY DEF Steps
  <2> QED
    BY <1>0, <2>1, <2>2, WroteWrites
<1>3. /\ Started' = Started
      /\ activity'[j].step = step /\ activity'[j].late = activity[j].late
      /\ \A i \in Started :
            /\ activity'[i].pipeline = activity[i].pipeline
            /\ i # j => activity'[i].step = activity[i].step
            /\ i # j /\ ~About(i, activity[j].pipeline) => activity'[i].late = activity[i].late
    BY <1>2 DEF Writes, Lasting, Outdated
<1>4. CASE About(j, p)
  <2>1. ~activity[j].late
    BY <1>1, <1>4 DEF Undisturbed
  <2>2. ASSUME NEW i \in Started, About(i, p)', Works(i)' PROVE i = j
    BY <1>1, <1>3, <1>4, <2>2 DEF OneAtATime, About, Works
  <2>3. p \notin raced'
    BY <1>4, <2>1 DEF Undisturbed, Save, Drop
  <2>4. step # "drop_id" => Exists(p)'
    BY <1>0, <1>2, <1>4 DEF Save, About, Exists, TypeOK
  <2> QED
    BY <1>2, <1>3, <2>1, <2>2, <2>3, <2>4 DEF Undisturbed
<1>5. CASE ~About(j, p)
  <2>1. record'[p] = record[p] /\ p \notin raced'
    BY <1>0, <1>5 DEF Undisturbed, Save, Drop, About, TypeOK
  <2>2. ASSUME NEW i \in Started, About(i, p)', Works(i)'
        PROVE  /\ ~activity'[i].late
               /\ activity'[i].step \in {"save_id", "fail_id"} => Exists(p)'
    <3>1. About(i, p) /\ i # j /\ ~About(i, activity[j].pipeline)
      BY <1>3, <1>5, <2>2 DEF About
    <3> QED
      BY <1>3, <2>1, <2>2, <3>1 DEF Undisturbed, Works, Exists
  <2> QED
    BY <1>3, <2>1, <2>2 DEF Undisturbed
<1> QED
    BY <1>4, <1>5

\* Every action keeps an undisturbed pipeline so while nothing overlaps.
LEMMA UndisturbedStep ==
    ASSUME PipelinesKept, [Next]_vars, QueuedFresh, NEW p \in Pipelines,
           OneAtATime(p), Undisturbed(p)
    PROVE  Undisturbed(p)'
<1>0. TypeOK
    BY DEF PipelinesKept
<1>q. \A j \in Started : activity[j].step = "queued" => ~activity[j].late
    BY DEF QueuedFresh, At
<1>1. CASE Rests
  <2>1. /\ UNCHANGED activity /\ raced' = raced
        /\ Exists(p) => Exists(p)'
    BY <1>1, AbsentAssumption DEF Rests, ghosts, Exists
  <2> QED
    BY <2>1 DEF Undisturbed, About, Works, Started
<1>2. CASE Serve \/ \E s \in Schedulers, q \in Pipelines : TickSubmit(s, q)
  <2>1. PICK kind, q, step, copy : Arrives(kind, q, step, copy)
    BY <1>0, <1>2, ArrivesSteps
  <2>2. step \notin {"save_id", "fail_id"}
    BY <2>1 DEF Arrives, Right
  <2>3. UNCHANGED <<record, raced>>
    BY <2>1 DEF Arrives, store, ghosts
  <2> QED
    BY <2>1, <2>2, <2>3 DEF Arrives, Comes, Lasting, Undisturbed, About, Works, Exists
<1>3. ASSUME NEW j \in Started, RunLoad(j) PROVE Undisturbed(p)'
  <2>1. UNCHANGED <<record, raced>> /\ ~activity[j].late
    BY <1>q, <1>3 DEF RunLoad, MayStart, At, store, ghosts
  <2> QED
    BY <1>0, <1>3, <2>1, RunLoadEffect, GoesOnUndisturbed
<1>4. ASSUME NEW j \in Started, CrawlOk(j) PROVE Undisturbed(p)'
  <2>1. UNCHANGED <<record, raced>> /\ Works(j)
    BY <1>4 DEF CrawlOk, Works, At, store, ghosts
  <2> QED
    BY <1>0, <1>4, <2>1, CrawlOkEffect, GoesOnUndisturbed
<1>5. ASSUME NEW j \in Started, CrawlFail(j) \/ RunCommandFails(j) PROVE Undisturbed(p)'
  <2>1. UNCHANGED <<record, raced>> /\ Works(j)
    BY <1>5 DEF CrawlFail, RunCommandFails, Works, At, store, ghosts
  <2> QED
    BY <1>0, <1>5, <2>1, FailSaveEffect, GoesOnUndisturbed
<1>6. ASSUME NEW j \in Started, RunHistory(j) \/ DropId(j) PROVE Undisturbed(p)'
  <2>1. UNCHANGED <<record, raced>> /\ Goto(j, "done") /\ "done" \in Steps
    BY <1>6 DEF RunHistory, DropId, ghosts, Steps
  <2> QED
    BY <1>0, <2>1, GotoGoesOn, GoesOnUndisturbed
<1>7. ASSUME NEW j \in Started, SaveId(j) PROVE Undisturbed(p)'
  <2>1. /\ record' = record
        /\ \E step \in {"done", "history"} : Goto(j, step)
        /\ activity[j].step \in {"save_id", "fail_id"}
        /\ Works(j)
    BY <1>7 DEF SaveId, Works
  <2>2. {"done", "history"} \subseteq Steps
    BY DEF Steps
  <2>3. p \in raced' => p \in raced
    <3>1. CASE About(j, p)
      BY <1>7, <2>1, <3>1 DEF SaveId, Undisturbed, Works, About
    <3>2. CASE ~About(j, p)
      BY <1>7, <3>2 DEF SaveId, About
    <3> QED
      BY <3>1, <3>2
  <2> QED
    BY <1>0, <2>1, <2>2, <2>3, GotoGoesOn, GoesOnUndisturbed
<1>8. ASSUME NEW j \in Started, CommandFails(j) PROVE Undisturbed(p)'
  <2>1. UNCHANGED <<record, raced>>
    BY <1>0, <1>8, CommandFailsEffect DEF store
  <2> QED
    BY <1>0, <1>8, <2>1, CommandFailsEffect, GoesOnUndisturbed
<1>9. ASSUME NEW j \in Started, Save(j) \/ Drop(j) PROVE Undisturbed(p)'
    BY <1>9, WritesUndisturbed
<1>10. ASSUME NEW s \in Processes, Crash(s) PROVE Undisturbed(p)'
  <2>1. UNCHANGED <<record, raced>>
    BY <1>10 DEF Crash, store
  <2> QED
    BY <1>0, <1>10, <2>1, CrashEnds DEF Ends, Lasting, Undisturbed, About, Works, Exists
<1> QED
    BY <1>0, <1>1, <1>2, <1>3, <1>4, <1>5, <1>6, <1>7, <1>8, <1>9, <1>10, RestsSteps
       DEF Next, Schedule, Execute, Fault

\* For any processes, pipelines and activities: if requests and runs about a
\* pipeline never overlap, though runs may queue, commands raise and processes die,
\* then no old copy of it is ever stored.  So its record has the settings that
\* users set last, a deleted pipeline never comes back, and, while nothing about it
\* broke, its count is the number of its runs.
THEOREM OneAtATimeKeepsPipeline ==
    ASSUME NEW p \in Pipelines
    PROVE  Spec /\ []OneAtATime(p) =>
            /\ [](p \notin raced)
            /\ [](Exists(p) => record[p].settings = wanted[p])
            /\ [](p \in deleted => ~Exists(p))
            /\ [](Exists(p) /\ Intact(p) => record[p].runs = Cardinality(ran[p]))
<1>1. Init => QueuedFresh /\ Undisturbed(p)
  <2> SUFFICES ASSUME Init PROVE QueuedFresh /\ Undisturbed(p)
    OBVIOUS
  <2>1. Started = {}
    BY TypeInit, Items, EmptySeq DEF Init
  <2> QED
    BY <2>1 DEF Init, QueuedFresh, Undisturbed
<1>2. PipelinesKept /\ QueuedFresh /\ [Next]_vars => QueuedFresh'
    BY QueuedStep
<1>3. PipelinesKept /\ QueuedFresh /\ OneAtATime(p) /\ Undisturbed(p) /\ [Next]_vars
        => Undisturbed(p)'
    BY UndisturbedStep
<1>4. PipelinesKept /\ Undisturbed(p) =>
        /\ p \notin raced
        /\ Exists(p) => record[p].settings = wanted[p]
        /\ p \in deleted => ~Exists(p)
        /\ Exists(p) /\ Intact(p) => record[p].runs = Cardinality(ran[p])
    BY DEF Undisturbed, PipelinesKept, Kept, CopiesCurrent, CountsKept
<1> QED
    BY <1>1, <1>2, <1>3, <1>4, KeptAlways, PTL DEF Spec
=============================================================================
