--------------------------- MODULE Channels_proofs ---------------------------
(***************************************************************************)
(* What holds of Channels for every set of channels, handlers, probes and  *)
(* requests: types; one probe per channel; statuses are earned; no row     *)
(* without its channel; a finished probe leaves the list it fetched.       *)
(***************************************************************************)
EXTENDS Channels, TLAPS

-----------------------------------------------------------------------------
(* The inductive invariant.                                                *)

\* What a probe knows at each label.
JobInv(g) ==
    /\ Busy(g) => job[g].id \in Id
    /\ job[g].pc \in (Working \ {"queued"}) \cup {"report"}
          => job[g].ch \in Row
    /\ job[g].pc \in {"update", "insert"} => job[g].name \in ModelName

\* What a handler knows at each label.
ReqInv(a) ==
    /\ req[a].pc \notin {"idle", "create"} => req[a].id \in Id
    /\ req[a].op \in {"create", "update"} => req[a].form \in Row
    /\ req[a].pc = "create" => req[a].op = "create"
    /\ req[a].pc = "get" => req[a].op \in {"update", "toggle"}
    /\ req[a].pc = "edit" => req[a].op = "update" /\ req[a].was \in Row

\* The count stays below its limit except on the way to marking down.
CountInv ==
    \A i \in Id : fails[i] < MaxFailures \/ (hpc = "down" /\ Current(i))

\* SyncModels has dealt with all names but those it still has to write.
Unwritten(g) == job[g].todo \cup
                (IF job[g].pc = "insert" THEN {job[g].name} ELSE {})

SyncInv(g) ==
    /\ job[g].pc \in {"check", "update", "insert", "clean"} /\ ~job[g].wiped
          => job[g].names \ Unwritten(g) \subseteq models[job[g].id]
    /\ job[g].pc = "clean" => job[g].todo = {}

IInv ==
    /\ TypeOK
    /\ \A g \in Goroutine : JobInv(g)
    /\ \A a \in Admin : ReqInv(a)
    /\ OneProbe
    /\ CountInv /\ StatusEarned
    /\ NoOrphans
    /\ \A g \in Goroutine : SyncInv(g)
    /\ SyncExact

-----------------------------------------------------------------------------
(* Rows. *)

LEMMA RowIsThere == \A r \in Row : r # Absent
BY ChannelsAssumption DEF Row, Absent

\* Setting a status neither makes nor removes a row.
LEMMA StatusOnly ==
    ASSUME NEW i \in Id, NEW s \in Status, TypeOK, SetChannelStatus(i, s)
    PROVE  /\ chan' \in [Id -> Row \cup {Absent}]
           /\ \A j \in Id : Exists(j)' <=> Exists(j)
<1>1. CASE Exists(i)
  <2>1. chan[i] \in Row
    BY <1>1 DEF TypeOK, Exists
  <2>2. [chan[i] EXCEPT !.status = s] \in Row
    BY <2>1 DEF Row
  <2>3. chan' = [chan EXCEPT ![i] = [chan[i] EXCEPT !.status = s]]
    BY <1>1 DEF SetChannelStatus
  <2> QED BY <1>1, <2>2, <2>3, RowIsThere DEF TypeOK, Exists
<1>2. CASE ~Exists(i)
  BY <1>2 DEF SetChannelStatus, TypeOK, Exists
<1> QED BY <1>1, <1>2

LEMMA OneCurrent ==
    ASSUME NEW i, NEW j, left \subseteq Id, Current(i), Current(j)
    PROVE  i = j
BY ChannelsAssumption DEF Current

-----------------------------------------------------------------------------
(* The health checker. *)

\* What its steps may do to its own variables.
HealthOK ==
    /\ hpc \in {"idle", "next", "models", "ping", "down", "restore"}
    /\ seen \in [Id -> Row \cup {Absent}]
    /\ left \in SUBSET Id
    /\ fails \in [Id -> 0..MaxFailures]
    /\ streak \in [Id -> 0..MaxFailures]
    /\ CountInv /\ StatusEarned

LEMMA NextChannelTypes ==
    ASSUME NEW i \in Id, TypeOK, NextChannel(i)
    PROVE  /\ hpc' \in {"idle", "next"}
           /\ seen' \in [Id -> Row \cup {Absent}]
           /\ left' \in SUBSET Id
BY DEF NextChannel, TypeOK

LEMMA PingFailedOK ==
    ASSUME IInv, NEW i \in Id, Current(i), hpc \in {"next", "models", "ping"},
           PingFailed(i)
    PROVE  HealthOK'
<1> USE DEF IInv
<1>1. MaxFailures \in Nat \ {0}
  BY ChannelsAssumption
<1>2. /\ fails \in [Id -> 0..MaxFailures] /\ streak \in [Id -> 0..MaxFailures]
      /\ left \in SUBSET Id /\ seen \in [Id -> Row \cup {Absent}]
  BY DEF TypeOK
<1>3. \A j \in Id : fails[j] < MaxFailures /\ fails[j] <= streak[j]
  BY DEF CountInv, StatusEarned
<1>4. /\ fails' = [fails EXCEPT ![i] = @ + 1]
      /\ streak' = [streak EXCEPT ![i] = IF @ < MaxFailures THEN @ + 1 ELSE @]
  BY DEF PingFailed
<1>5. /\ fails' \in [Id -> 0..MaxFailures] /\ streak' \in [Id -> 0..MaxFailures]
      /\ \A j \in Id : fails'[j] <= streak'[j]
      /\ \A j \in Id : j # i => fails'[j] < MaxFailures
  BY <1>1, <1>2, <1>3, <1>4
<1>6. CASE fails[i] + 1 >= MaxFailures
  <2>1. hpc' = "down" /\ left' = left /\ seen' = seen /\ Current(i)'
    BY <1>6 DEF PingFailed, Current
  <2>2. i \in left /\ streak'[i] = MaxFailures
    BY <1>1, <1>2, <1>3, <1>4, <1>6 DEF Current
  <2> QED BY <1>2, <1>5, <2>1, <2>2 DEF HealthOK, CountInv, StatusEarned
<1>7. CASE ~(fails[i] + 1 >= MaxFailures)
  <2>1. NextChannel(i)
    BY <1>7 DEF PingFailed
  <2>2. fails'[i] < MaxFailures
    BY <1>1, <1>2, <1>4, <1>7
  <2> QED BY <1>5, <2>1, <2>2, NextChannelTypes
          DEF HealthOK, CountInv, StatusEarned
<1> QED BY <1>6, <1>7

LEMMA CheckOnceHealth ==
    ASSUME IInv, CheckOnce
    PROVE  HealthOK'
<1> USE DEF IInv
<1>1. MaxFailures \in Nat \ {0}
  BY ChannelsAssumption
<1>2. HealthOK /\ chan \in [Id -> Row \cup {Absent}]
  BY DEF HealthOK, TypeOK
<1>3. ASSUME hpc # "down" PROVE \A j \in Id : fails[j] < MaxFailures
  BY <1>3 DEF CountInv
<1>4. CASE ListChannels
  BY <1>2, <1>3, <1>4 DEF ListChannels, HealthOK, CountInv, StatusEarned
<1> SUFFICES ASSUME NEW i \in Id,
                    \/ Skip(i) \/ PingSelectsKey(i) \/ PingTakesModel(i)
                    \/ PingLost(i) \/ PingAnswered(i)
                    \/ MarkDown(i) \/ Restore(i)
             PROVE  HealthOK'
  BY <1>4 DEF CheckOnce
<1>5. CASE Skip(i)
  BY <1>1, <1>2, <1>3, <1>5, NextChannelTypes
     DEF Skip, HealthOK, CountInv, StatusEarned
<1>6. CASE PingSelectsKey(i)
  <2>1. CASE i \in withKey
    BY <1>2, <1>3, <1>6, <2>1
       DEF PingSelectsKey, HealthOK, CountInv, StatusEarned
  <2> QED BY <1>6, <2>1, PingFailedOK DEF PingSelectsKey
<1>7. CASE PingTakesModel(i)
  <2>1. CASE models[i] # {}
    BY <1>2, <1>3, <1>7, <2>1
       DEF PingTakesModel, HealthOK, CountInv, StatusEarned
  <2> QED BY <1>7, <2>1, PingFailedOK DEF PingTakesModel
<1>8. CASE PingLost(i)
  BY <1>8, PingFailedOK DEF PingLost
<1>9. CASE PingAnswered(i)
  <2>1. /\ Current(i) /\ hpc = "ping"
        /\ fails' = [fails EXCEPT ![i] = 0]
        /\ streak' = [streak EXCEPT ![i] = 0]
    BY <1>9 DEF PingAnswered
  <2>2. /\ fails' \in [Id -> 0..MaxFailures]
        /\ streak' \in [Id -> 0..MaxFailures]
        /\ \A j \in Id : fails'[j] < MaxFailures /\ fails'[j] <= streak'[j]
    BY <1>1, <1>2, <1>3, <2>1 DEF HealthOK, StatusEarned
  <2>3. CASE seen[i].status # "active"
    <3>1. hpc' = "restore" /\ left' = left /\ seen' = seen /\ Current(i)'
      BY <1>9, <2>1, <2>3 DEF PingAnswered, Current
    <3>2. i \in left' /\ streak'[i] = 0
      BY <1>2, <2>1, <3>1 DEF Current, HealthOK
    <3> QED BY <1>2, <2>2, <3>1, <3>2 DEF HealthOK, CountInv, StatusEarned
  <2>4. CASE ~(seen[i].status # "active")
    <3>1. NextChannel(i)
      BY <1>9, <2>4 DEF PingAnswered
    <3> QED BY <2>2, <3>1, NextChannelTypes
            DEF HealthOK, CountInv, StatusEarned
  <2> QED BY <2>3, <2>4
<1>10. CASE MarkDown(i)
  <2>1. /\ Current(i) /\ NextChannel(i) /\ streak' = streak
        /\ fails' = [fails EXCEPT ![i] = 0]
    BY <1>10 DEF MarkDown
  <2>2. \A j \in Id : j # i => fails[j] < MaxFailures
    BY <1>2, <2>1, OneCurrent DEF HealthOK, CountInv
  <2> QED BY <1>1, <1>2, <2>1, <2>2, NextChannelTypes
          DEF HealthOK, CountInv, StatusEarned
<1>11. CASE Restore(i)
  BY <1>2, <1>3, <1>11, NextChannelTypes
     DEF Restore, HealthOK, CountInv, StatusEarned
<1> QED BY <1>5, <1>6, <1>7, <1>8, <1>9, <1>10, <1>11

\* The checker touches nothing else but the status of rows that are there.
LEMMA CheckOnceFrame ==
    ASSUME IInv, CheckOnce
    PROVE  /\ chan' \in [Id -> Row \cup {Absent}]
           /\ \A j \in Id : Exists(j)' <=> Exists(j)
           /\ UNCHANGED <<withKey, models, probes, job, req, asked, upstream>>
<1>1. UNCHANGED <<withKey, models, probes, job, req, asked, upstream>>
  BY DEF CheckOnce, ListChannels, Skip, PingSelectsKey, PingTakesModel,
         PingLost, PingAnswered, PingFailed, MarkDown, Restore, tables
<1>2. CASE chan' = chan
  BY <1>1, <1>2 DEF IInv, TypeOK, Exists
<1>3. CASE \E i \in Id : MarkDown(i)
  BY <1>1, <1>3, StatusOnly DEF MarkDown, IInv, Status
<1>4. CASE \E i \in Id : Restore(i)
  BY <1>1, <1>4, StatusOnly DEF Restore, IInv, Status
<1> QED BY <1>1, <1>2, <1>3, <1>4
        DEF CheckOnce, ListChannels, Skip, PingSelectsKey, PingTakesModel,
            PingLost, PingAnswered, PingFailed, tables

LEMMA CheckOnceInv ==
    ASSUME IInv, CheckOnce
    PROVE  IInv'
<1>1. TypeOK'
  BY CheckOnceHealth, CheckOnceFrame DEF IInv, TypeOK, HealthOK, upstream
<1>2. NoOrphans'
  BY CheckOnceFrame DEF IInv, NoOrphans
<1>3. OneProbe' /\ SyncExact'
  BY CheckOnceFrame DEF IInv, OneProbe, SyncExact, Busy
<1>4. /\ \A g \in Goroutine : JobInv(g)' /\ SyncInv(g)'
      /\ \A a \in Admin : ReqInv(a)'
  BY CheckOnceFrame DEF IInv, JobInv, SyncInv, Unwritten, ReqInv, Busy
<1> QED BY <1>1, <1>2, <1>3, <1>4, CheckOnceHealth DEF IInv, HealthOK

-----------------------------------------------------------------------------
(* The probes. *)

\* A step of one probe that leaves Running alone: the other probes are of
\* other channels, so what it does to its channel's models concerns no one.
LEMMA ProbeStep ==
    ASSUME IInv, NEW g \in Goroutine, Busy(g),
           NEW j \in Job, job' = [job EXCEPT ![g] = j],
           j.pc # "idle", j.id = job[g].id, JobInv(g)',
           chan' \in [Id -> Row \cup {Absent}],
           \A i \in Id : Exists(i)' <=> Exists(i),
           models' \in [Id -> SUBSET ModelName],
           \A i \in Id : i # j.id => models'[i] = models[i],
           ~Exists(j.id) => models'[j.id] \subseteq models[j.id],
           SyncInv(g)',
           j.pc = "report" /\ j.names # {} /\ ~j.wiped
               => models'[j.id] = j.names,
           UNCHANGED <<withKey, probes, req, asked, health, upstream>>
    PROVE  IInv'
<1>1. /\ j.id \in Id /\ job'[g] = j
      /\ \A h \in Goroutine : h # g => job'[h] = job[h]
      /\ \A h \in Goroutine : h # g /\ Busy(h) => job[h].id # j.id
  BY DEF IInv, TypeOK, JobInv, OneProbe
<1>2. \A h \in Goroutine : Busy(h)' <=> Busy(h)
  BY <1>1 DEF Busy
<1>3. \A h \in Goroutine : job'[h].id = job[h].id
  BY <1>1
<1>4. TypeOK'
  BY DEF IInv, TypeOK, health, upstream
<1>5. \A h \in Goroutine : JobInv(h)'
  BY <1>1 DEF IInv, JobInv, Busy
<1>6. \A a \in Admin : ReqInv(a)'
  BY DEF IInv, ReqInv
<1>7. OneProbe'
  BY <1>2, <1>3 DEF IInv, OneProbe
<1>8. CountInv' /\ StatusEarned'
  BY DEF IInv, CountInv, StatusEarned, Current, health
<1>9. NoOrphans'
  BY <1>1 DEF IInv, NoOrphans, TypeOK
<1>10. ASSUME NEW h \in Goroutine, h # g
       PROVE  /\ SyncInv(h)'
              /\ job'[h].pc = "report" /\ job'[h].names # {} /\ ~job'[h].wiped
                    => models'[job'[h].id] = job'[h].names
  <2>1. CASE Busy(h)
    <3>1. job[h].id \in Id /\ models'[job[h].id] = models[job[h].id]
      BY <1>1, <1>10, <2>1 DEF IInv, JobInv
    <3> QED BY <1>1, <1>10, <3>1 DEF IInv, SyncInv, Unwritten, SyncExact
  <2>2. CASE ~Busy(h)
    BY <1>1, <1>10, <2>2 DEF Busy, SyncInv
  <2> QED BY <2>1, <2>2
<1>11. SyncExact' /\ \A h \in Goroutine : SyncInv(h)'
  BY <1>1, <1>10 DEF SyncExact
<1> QED BY <1>4, <1>5, <1>6, <1>7, <1>8, <1>9, <1>11 DEF IInv

\* Each of a probe's steps, one case per action; <1>3, <1>8, <1>13 and <1>17
\* are the ways of several actions to go on.
LEMMA ProbeInv ==
    ASSUME IInv, NEW g \in Goroutine, Probe(g)
    PROVE  IInv'
<1> DEFINE i == job[g].id
<1>1. /\ job \in [Goroutine -> Job] /\ job[g] \in Job /\ Busy(g)
      /\ UNCHANGED <<req, asked, health, upstream>>
  BY DEF IInv, TypeOK, Probe, Busy, GetChannel, SelectKey, Detect, SaveType,
         FetchModels, ListModels, CheckModel, UpdateModel, InsertModel,
         DeleteStaleModels, ProbeFails, Finish, ReportFailure, Working
<1>2. /\ i \in Id /\ JobInv(g) /\ SyncInv(g)
      /\ chan \in [Id -> Row \cup {Absent}]
      /\ models \in [Id -> SUBSET ModelName]
  BY <1>1 DEF IInv, JobInv, TypeOK
<1>3. ASSUME NEW label \in {"key", "detect", "save", "fetch", "list", "failing"},
             Goto(g, label), UNCHANGED <<tables, probes>>,
             job[g].ch \in Row \/ label = "failing"
      PROVE  IInv'
  <2> DEFINE j == [job[g] EXCEPT !.pc = label]
  <2>1. /\ j \in Job /\ j.pc = label /\ j.id = i /\ j.ch = job[g].ch
        /\ job' = [job EXCEPT ![g] = j] /\ job'[g] = j
    BY <1>1, <1>3 DEF Goto, Job, Working
  <2>2. JobInv(g)' /\ SyncInv(g)'
    BY <1>2, <1>3, <2>1 DEF JobInv, SyncInv, Busy, Working
  <2> HIDE DEF j
  <2> QED BY <1>1, <1>2, <1>3, <2>1, <2>2, ProbeStep DEF tables, Exists
<1>4. CASE GetChannel(g)
  <2>1. CASE Exists(i)
    <3> DEFINE j == [job[g] EXCEPT !.pc = "key", !.ch = chan[i]]
    <3>1. chan[i] \in Row
      BY <1>2, <2>1 DEF Exists
    <3>2. /\ j \in Job /\ j.pc = "key" /\ j.id = i /\ j.ch \in Row
          /\ job' = [job EXCEPT ![g] = j] /\ job'[g] = j
      BY <1>1, <1>4, <2>1, <3>1 DEF GetChannel, Job, Working
    <3>3. JobInv(g)' /\ SyncInv(g)'
      BY <1>2, <3>2 DEF JobInv, SyncInv, Busy
    <3>4. UNCHANGED <<tables, probes>>
      BY <1>4 DEF GetChannel
    <3> HIDE DEF j
    <3> QED BY <1>1, <1>2, <3>2, <3>3, <3>4, ProbeStep DEF tables, Exists
  <2>2. CASE ~Exists(i)
    BY <1>3, <1>4, <2>2 DEF GetChannel
  <2> QED BY <2>1, <2>2
<1>5. CASE SelectKey(g)
  <2>1. job[g].pc = "key" /\ job[g].ch \in Row
    BY <1>2, <1>5 DEF SelectKey, JobInv, Working
  <2>2. AfterKey(job[g]) \in {"list", "detect", "fetch"}
    BY <1>1 DEF AfterKey, Job
  <2> QED BY <1>3, <1>5, <2>1, <2>2 DEF SelectKey
<1>6. CASE Detect(g)
  <2> PICK t \in Type \ {"auto"} :
        job' = [job EXCEPT ![g].pc = "save", ![g].ch.type = t]
    BY <1>6 DEF Detect
  <2> DEFINE j == [job[g] EXCEPT !.pc = "save", !.ch.type = t]
  <2>1. job[g].ch \in Row
    BY <1>2, <1>6 DEF Detect, JobInv, Working
  <2>2. [job[g].ch EXCEPT !.type = t] \in Row
    BY <2>1 DEF Row
  <2>3. /\ j \in Job /\ j.pc = "save" /\ j.id = i /\ j.ch \in Row
        /\ job' = [job EXCEPT ![g] = j] /\ job'[g] = j
    BY <1>1, <2>2 DEF Job, Working
  <2>4. JobInv(g)' /\ SyncInv(g)'
    BY <1>2, <2>3 DEF JobInv, SyncInv, Busy
  <2>5. UNCHANGED <<tables, probes>>
    BY <1>6 DEF Detect
  <2> HIDE DEF j
  <2> QED BY <1>1, <1>2, <2>3, <2>4, <2>5, ProbeStep DEF tables, Exists
<1>7. CASE SaveType(g)
  <2>1. job[g].ch \in Row
    BY <1>2, <1>7 DEF SaveType, JobInv, Working
  <2>2. CASE Exists(i)
    <3> DEFINE j == [job[g] EXCEPT !.pc = "fetch"]
    <3>1. /\ j \in Job /\ j.pc = "fetch" /\ j.id = i /\ j.ch \in Row
          /\ job' = [job EXCEPT ![g] = j] /\ job'[g] = j
      BY <1>1, <1>7, <2>1, <2>2 DEF SaveType, Goto, Job, Working
    <3>2. JobInv(g)' /\ SyncInv(g)'
      BY <1>2, <3>1 DEF JobInv, SyncInv, Busy
    <3>3. /\ chan' = [chan EXCEPT ![i] = job[g].ch]
          /\ UNCHANGED <<withKey, models, probes>>
      BY <1>7, <2>2 DEF SaveType
    <3>4. /\ chan' \in [Id -> Row \cup {Absent}]
          /\ \A k \in Id : Exists(k)' <=> Exists(k)
      BY <1>2, <2>1, <2>2, <3>3, RowIsThere DEF Exists
    <3> HIDE DEF j
    <3> QED BY <1>1, <1>2, <3>1, <3>2, <3>3, <3>4, ProbeStep
  <2>3. CASE ~Exists(i)
    BY <1>3, <1>7, <2>3 DEF SaveType, tables
  <2> QED BY <2>2, <2>3
<1>8. ASSUME NEW names \in SUBSET ModelName, Begin(g, names),
             job[g].pc \in {"fetch", "list"}, UNCHANGED <<tables, probes>>
      PROVE  IInv'
  <2> DEFINE label == IF names = {} THEN "report" ELSE "check"
             j == [job[g] EXCEPT !.pc = label, !.names = names, !.todo = names,
                                 !.wiped = FALSE]
  <2>1. /\ j \in Job /\ j.pc = label /\ j.id = i /\ j.ch = job[g].ch
        /\ j.names = names /\ j.todo = names
        /\ job' = [job EXCEPT ![g] = j] /\ job'[g] = j
    BY <1>1, <1>8 DEF Begin, Job, Working
  <2>2. label \in {"report", "check"} /\ (label = "report" => names = {})
    OBVIOUS
  <2>3. job[g].ch \in Row
    BY <1>2, <1>8 DEF JobInv, Working
  <2> HIDE DEF label, j
  <2>4. JobInv(g)' /\ SyncInv(g)'
    BY <1>2, <2>1, <2>2, <2>3 DEF JobInv, SyncInv, Unwritten, Busy
  <2> QED BY <1>1, <1>2, <1>8, <2>1, <2>2, <2>4, ProbeStep DEF tables, Exists
<1>9. CASE FetchModels(g)
  BY <1>8, <1>9 DEF FetchModels
<1>10. CASE ListModels(g)
  BY <1>2, <1>8, <1>10 DEF ListModels
<1>11. CASE ProbeFails(g)
  BY <1>3, <1>11 DEF ProbeFails
<1>12. CASE CheckModel(g)
  <2> PICK n \in job[g].todo :
        job' = [job EXCEPT ![g].pc = IF n \in models[i] THEN "update" ELSE "insert",
                           ![g].name = n, ![g].todo = @ \ {n}]
    BY <1>12 DEF CheckModel
  <2> DEFINE label == IF n \in models[i] THEN "update" ELSE "insert"
             j == [job[g] EXCEPT !.pc = label, !.name = n, !.todo = @ \ {n}]
  <2>1. n \in ModelName /\ job[g].todo \in SUBSET ModelName
    BY <1>1 DEF Job
  <2>2. /\ j \in Job /\ j.pc = label /\ j.id = i /\ j.ch = job[g].ch
        /\ j.name = n /\ j.todo = job[g].todo \ {n}
        /\ j.names = job[g].names /\ j.wiped = job[g].wiped
        /\ job' = [job EXCEPT ![g] = j] /\ job'[g] = j
    BY <1>1, <2>1 DEF Job, Working
  <2>3. /\ label \in {"update", "insert"}
        /\ label = "update" => n \in models[i]
    OBVIOUS
  <2>4. job[g].pc = "check" /\ job[g].ch \in Row /\ UNCHANGED <<tables, probes>>
    BY <1>2, <1>12 DEF CheckModel, JobInv, Working
  <2> HIDE DEF label, j
  <2>5. JobInv(g)'
    BY <1>2, <2>1, <2>2, <2>3, <2>4 DEF JobInv, Busy
  <2>6. SyncInv(g)'
    BY <1>2, <2>2, <2>3, <2>4 DEF SyncInv, Unwritten, tables
  <2> QED BY <1>1, <1>2, <2>2, <2>3, <2>4, <2>5, <2>6, ProbeStep
          DEF tables, Exists
<1>13. ASSUME NextModel(g), job[g].pc \in {"update", "insert"},
              UNCHANGED <<chan, withKey, probes>>,
              models' \in [Id -> SUBSET ModelName],
              \A k \in Id : k # i => models'[k] = models[k],
              ~Exists(i) => models'[i] \subseteq models[i],
              models[i] \subseteq models'[i],
              job[g].pc = "insert" => job[g].name \in models'[i]
       PROVE  IInv'
  <2> DEFINE label == IF job[g].todo = {} THEN "clean" ELSE "check"
             j == [job[g] EXCEPT !.pc = label, !.name = "none"]
  <2>1. /\ j \in Job /\ j.pc = label /\ j.id = i /\ j.ch = job[g].ch
        /\ j.todo = job[g].todo
        /\ j.names = job[g].names /\ j.wiped = job[g].wiped
        /\ job' = [job EXCEPT ![g] = j] /\ job'[g] = j
    BY <1>1, <1>13 DEF NextModel, Job, Working
  <2>2. /\ label \in {"clean", "check"}
        /\ label = "clean" => job[g].todo = {}
    OBVIOUS
  <2>3. job[g].ch \in Row
    BY <1>2, <1>13 DEF JobInv, Working
  <2> HIDE DEF label, j
  <2>4. JobInv(g)'
    BY <1>2, <2>1, <2>2, <2>3 DEF JobInv, Busy
  <2>5. SyncInv(g)'
    BY <1>2, <1>13, <2>1, <2>2 DEF SyncInv, Unwritten
  <2> QED BY <1>1, <1>2, <1>13, <2>1, <2>2, <2>4, <2>5, ProbeStep DEF Exists
<1>14. CASE UpdateModel(g)
  BY <1>2, <1>13, <1>14 DEF UpdateModel, tables
<1>15. CASE InsertModel(g)
  <2>1. CASE Exists(i) /\ job[g].name \notin models[i]
    <3>1. /\ models' = [models EXCEPT ![i] = @ \cup {job[g].name}]
          /\ NextModel(g) /\ job[g].pc = "insert"
          /\ UNCHANGED <<chan, withKey, probes>>
      BY <1>15, <2>1 DEF InsertModel
    <3>2. job[g].name \in ModelName
      BY <1>2, <3>1 DEF JobInv
    <3> QED BY <1>2, <1>13, <2>1, <3>1, <3>2
  <2>2. CASE ~(Exists(i) /\ job[g].name \notin models[i])
    BY <1>3, <1>15, <2>2 DEF InsertModel, tables
  <2> QED BY <2>1, <2>2
<1>16. CASE DeleteStaleModels(g)
  <2> DEFINE j == [job[g] EXCEPT !.pc = "report"]
  <2>1. /\ j \in Job /\ j.pc = "report" /\ j.id = i /\ j.ch = job[g].ch
        /\ j.names = job[g].names /\ j.wiped = job[g].wiped
        /\ job' = [job EXCEPT ![g] = j] /\ job'[g] = j
    BY <1>1, <1>16 DEF DeleteStaleModels, Goto, Job, Working
  <2>2. /\ job[g].pc = "clean" /\ job[g].ch \in Row
        /\ models' = [models EXCEPT ![i] = @ \cap job[g].names]
        /\ UNCHANGED <<chan, withKey, probes>>
    BY <1>2, <1>16 DEF DeleteStaleModels, JobInv, Working
  <2>3. /\ models' \in [Id -> SUBSET ModelName]
        /\ models'[i] = models[i] \cap job[g].names
        /\ \A k \in Id : k # i => models'[k] = models[k]
    BY <1>2, <2>2
  <2>4. ~job[g].wiped => models'[i] = job[g].names
    BY <1>2, <2>2, <2>3 DEF SyncInv, Unwritten
  <2> HIDE DEF j
  <2>5. JobInv(g)' /\ SyncInv(g)'
    BY <1>2, <2>1, <2>2 DEF JobInv, SyncInv, Busy
  <2> QED BY <1>1, <1>2, <2>1, <2>2, <2>3, <2>4, <2>5, ProbeStep, ZenonT(30) DEF Exists
<1>17. ASSUME NEW end \in {"done", "failed"},
              probes' = [probes EXCEPT ![i] = end],
              job' = [job EXCEPT ![g] = NoJob], UNCHANGED tables
       PROVE  IInv'
  <2>1. /\ job'[g] = NoJob /\ NoJob \in Job /\ NoJob.pc = "idle"
        /\ \A h \in Goroutine : h # g => job'[h] = job[h]
        /\ probes'[i] = end
        /\ \A k \in Id : k # i => probes'[k] = probes[k]
    BY <1>1, <1>2, <1>17 DEF NoJob, Job, IInv, TypeOK
  <2>2. TypeOK'
    BY <1>1, <1>17, <2>1 DEF IInv, TypeOK, tables, health, upstream
  <2>3. \A h \in Goroutine : JobInv(h)' /\ SyncInv(h)'
    BY <1>17, <2>1 DEF IInv, JobInv, SyncInv, Unwritten, Busy, tables, Working
  <2>4. OneProbe'
    BY <1>1, <1>2, <1>17, <2>1 DEF IInv, OneProbe, Busy
  <2>5. SyncExact'
    BY <1>17, <2>1 DEF IInv, SyncExact, tables
  <2>6. CountInv' /\ StatusEarned' /\ NoOrphans' /\ \A a \in Admin : ReqInv(a)'
    BY <1>1, <1>17 DEF IInv, CountInv, StatusEarned, NoOrphans, ReqInv,
       Current, Exists, tables, health
  <2> QED BY <2>2, <2>3, <2>4, <2>5, <2>6 DEF IInv
<1>18. CASE Finish(g)
  BY <1>17, <1>18 DEF Finish
<1>19. CASE ReportFailure(g)
  BY <1>17, <1>19 DEF ReportFailure
<1> QED BY <1>4, <1>5, <1>6, <1>7, <1>9, <1>10, <1>11, <1>12, <1>14, <1>15,
           <1>16, <1>18, <1>19 DEF Probe

-----------------------------------------------------------------------------
(* The handlers. *)

\* A step of a handler that does not touch the probes nor any channel's models.
LEMMA HandlerStep ==
    ASSUME IInv, NEW a \in Admin,
           NEW r \in Request, req' = [req EXCEPT ![a] = r], ReqInv(a)',
           asked' \in 0..MaxRequests,
           chan' \in [Id -> Row \cup {Absent}],
           withKey' \in SUBSET Id,
           \A i \in Id : Exists(i)' \/ (i \notin withKey' /\ models[i] = {}),
           UNCHANGED <<models, probes, job, health, upstream>>
    PROVE  IInv'
<1>1. TypeOK'
  BY DEF IInv, TypeOK, health, upstream
<1>2. \A b \in Admin : ReqInv(b)'
  BY DEF IInv, ReqInv, TypeOK
<1>3. \A g \in Goroutine : JobInv(g)' /\ SyncInv(g)'
  BY DEF IInv, JobInv, SyncInv, Unwritten, Busy
<1>4. OneProbe' /\ SyncExact'
  BY DEF IInv, OneProbe, SyncExact, Busy
<1>5. CountInv' /\ StatusEarned' /\ NoOrphans'
  BY DEF IInv, CountInv, StatusEarned, Current, NoOrphans, health
<1> QED BY <1>1, <1>2, <1>3, <1>4, <1>5 DEF IInv

LEMMA NoRequestOK == NoRequest \in Request /\ NoRequest.pc = "idle"
                     /\ NoRequest.op = "none"
BY DEF NoRequest, Request

\* A handler that returns, or goes on to a label that needs nothing new.
LEMMA ReplyOrStep ==
    ASSUME IInv, NEW a \in Admin,
           \/ Reply(a)
           \/ /\ \E label \in {"addkey", "dropkeys", "delmodels", "delchannel",
                               "probe"} : Step(a, label)
              /\ req[a].id \in Id
    PROVE  \E r \in Request : req' = [req EXCEPT ![a] = r] /\ ReqInv(a)'
<1>1. req \in [Admin -> Request] /\ req[a] \in Request /\ ReqInv(a)
  BY DEF IInv, TypeOK
<1>2. CASE Reply(a)
  BY <1>1, <1>2, NoRequestOK DEF Reply, ReqInv
<1>3. ASSUME NEW label \in {"addkey", "dropkeys", "delmodels", "delchannel",
                            "probe"}, Step(a, label), req[a].id \in Id
      PROVE  \E r \in Request : req' = [req EXCEPT ![a] = r] /\ ReqInv(a)'
  <2> DEFINE r == [req[a] EXCEPT !.pc = label]
  <2>1. /\ r \in Request /\ r.pc = label /\ r.id = req[a].id
        /\ r.op = req[a].op /\ r.form = req[a].form
        /\ req' = [req EXCEPT ![a] = r] /\ req'[a] = r
    BY <1>1, <1>3 DEF Step, Request, Statements
  <2> HIDE DEF r
  <2> QED BY <1>1, <1>3, <2>1 DEF ReqInv
<1> QED BY <1>2, <1>3

LEMMA AcceptInv ==
    ASSUME IInv, NEW a \in Admin, Accept(a), UNCHANGED <<health, upstream>>
    PROVE  IInv'
<1>1. /\ req \in [Admin -> Request] /\ asked \in 0..MaxRequests
      /\ asked' = asked + 1 /\ asked < MaxRequests
      /\ UNCHANGED <<tables, probes, job>>
  BY DEF IInv, TypeOK, Accept
<1>2. asked' \in 0..MaxRequests
  BY <1>1, ChannelsAssumption
<1>3. \E r \in Request : req' = [req EXCEPT ![a] = r] /\ ReqInv(a)'
  <2> PICK i \in Id, op \in {"create", "update", "toggle", "resync", "caps",
                             "delete"} :
          \/ /\ op \in {"create", "update"}
             /\ \E t \in Type, d \in Addr, b \in BOOLEAN :
                   req' = [req EXCEPT ![a] =
                       [NoRequest EXCEPT
                           !.op = op, !.id = IF op = "create" THEN 0 ELSE i,
                           !.pc = IF op = "create" THEN op ELSE "get",
                           !.form = [type |-> t, addr |-> d,
                                     status |-> "active"],
                           !.rekey = (op = "update") /\ b]]
          \/ /\ op \notin {"create", "update"}
             /\ req' = [req EXCEPT ![a] =
                    [NoRequest EXCEPT
                        !.op = op, !.id = i,
                        !.pc = CASE op = "toggle" -> "get"
                                 [] op = "delete" -> "delkeys"
                                 [] op \in {"resync", "caps"} -> "probe"]]
    BY DEF Accept
  <2>1. CASE op \in {"create", "update"}
    <3> PICK t \in Type, d \in Addr, b \in BOOLEAN :
          req' = [req EXCEPT ![a] =
              [NoRequest EXCEPT
                  !.op = op, !.id = IF op = "create" THEN 0 ELSE i,
                  !.pc = IF op = "create" THEN op ELSE "get",
                  !.form = [type |-> t, addr |-> d, status |-> "active"],
                  !.rekey = (op = "update") /\ b]]
      BY <2>1
    <3> DEFINE form == [type |-> t, addr |-> d, status |-> "active"]
               rekey == (op = "update") /\ b
               r == [NoRequest EXCEPT
                        !.op = op, !.id = IF op = "create" THEN 0 ELSE i,
                        !.pc = IF op = "create" THEN op ELSE "get",
                        !.form = form, !.rekey = rekey]
    <3>1. form \in Row
      BY DEF Row, Status
    <3>2. rekey \in BOOLEAN
      OBVIOUS
    <3>3. req' = [req EXCEPT ![a] = r]
      OBVIOUS
    <3> HIDE DEF form, rekey
    <3>4. /\ r \in Request /\ r.op = op /\ r.form \in Row
          /\ r.op = "create" => r.pc = "create"
          /\ r.op = "update" => r.pc = "get" /\ r.id \in Id
      BY <2>1, <3>1, <3>2 DEF NoRequest, Request, Statements
    <3>5. req'[a] = r
      BY <1>1, <3>3
    <3> HIDE DEF r
    <3> QED BY <2>1, <3>3, <3>4, <3>5 DEF ReqInv
  <2>2. CASE op \notin {"create", "update"}
    <3> DEFINE label == CASE op = "toggle" -> "get"
                          [] op = "delete" -> "delkeys"
                          [] op \in {"resync", "caps"} -> "probe"
               r == [NoRequest EXCEPT !.op = op, !.id = i, !.pc = label]
    <3>1. /\ label \in {"get", "delkeys", "probe"}
          /\ label = "get" => op = "toggle"
      BY <2>2
    <3>2. req' = [req EXCEPT ![a] = r]
      BY <2>2
    <3> HIDE DEF label
    <3>3. r \in Request /\ r.op = op /\ r.pc = label /\ r.id = i
      BY <3>1 DEF NoRequest, Request, Statements
    <3>4. req'[a] = r
      BY <1>1, <3>2
    <3> HIDE DEF r
    <3> QED BY <2>2, <3>1, <3>2, <3>3, <3>4 DEF ReqInv
  <2> QED BY <2>1, <2>2
<1> QED BY <1>1, <1>2, <1>3, HandlerStep
        DEF IInv, TypeOK, NoOrphans, tables, Exists

\* Removing a channel's models marks its probe's list as wiped.
LEMMA DeleteModelsInv ==
    ASSUME IInv, NEW a \in Admin, DeleteModels(a), UNCHANGED <<asked, health, upstream>>
    PROVE  IInv'
<1> DEFINE i == req[a].id
<1>1. /\ job \in [Goroutine -> Job] /\ models \in [Id -> SUBSET ModelName]
      /\ i \in Id /\ Step(a, "delchannel")
      /\ models' = [models EXCEPT ![i] = {}]
      /\ job' = [g \in Goroutine |->
                    IF job[g].id = i THEN [job[g] EXCEPT !.wiped = TRUE]
                                     ELSE job[g]]
      /\ UNCHANGED <<chan, withKey, probes>>
  BY DEF IInv, TypeOK, DeleteModels, ReqInv
<1>2. PICK r \in Request : req' = [req EXCEPT ![a] = r] /\ ReqInv(a)'
  BY <1>1, ReplyOrStep
<1>3. \A g \in Goroutine :
        /\ job'[g] \in Job
        /\ job'[g].pc = job[g].pc /\ job'[g].id = job[g].id
        /\ job'[g].ch = job[g].ch /\ job'[g].name = job[g].name
        /\ job'[g].todo = job[g].todo /\ job'[g].names = job[g].names
        /\ job[g].id = i => job'[g].wiped
        /\ job[g].id # i => job'[g] = job[g]
  BY <1>1, ZenonT(30) DEF Job
<1>4. /\ job' \in [Goroutine -> Job] /\ models' \in [Id -> SUBSET ModelName]
      /\ models'[i] = {}
      /\ \A k \in Id : k # i => models'[k] = models[k]
  BY <1>1, <1>3
<1>5. TypeOK'
  BY <1>1, <1>2, <1>4 DEF IInv, TypeOK, health, upstream
<1>6. \A g \in Goroutine : JobInv(g)' /\ (Busy(g)' <=> Busy(g))
  BY <1>3 DEF IInv, JobInv, Busy
<1>7. \A b \in Admin : ReqInv(b)'
  BY <1>2 DEF IInv, ReqInv, TypeOK
<1>8. OneProbe'
  BY <1>1, <1>3, <1>6 DEF IInv, OneProbe
<1>9. \A g \in Goroutine :
         /\ SyncInv(g)'
         /\ job'[g].pc = "report" /\ job'[g].names # {} /\ ~job'[g].wiped
               => models'[job'[g].id] = job'[g].names
  <2> TAKE g \in Goroutine
  <2>1. CASE job[g].id = i
    BY <1>3, <2>1 DEF IInv, SyncInv
  <2>2. CASE job[g].id # i /\ Busy(g)
    <3>1. job'[g] = job[g] /\ models'[job[g].id] = models[job[g].id]
      BY <1>3, <1>4, <2>2 DEF IInv, JobInv
    <3> QED BY <3>1 DEF IInv, SyncInv, Unwritten, SyncExact
  <2>3. CASE ~Busy(g)
    BY <1>3, <2>3 DEF Busy, SyncInv
  <2> QED BY <2>1, <2>2, <2>3
<1>10. SyncExact'
  BY <1>9 DEF SyncExact
<1>11. CountInv' /\ StatusEarned' /\ NoOrphans'
  BY <1>1, <1>4 DEF IInv, CountInv, StatusEarned, Current, NoOrphans, Exists,
     health
<1> QED BY <1>5, <1>6, <1>7, <1>8, <1>9, <1>10, <1>11 DEF IInv

\* A new probe begins only where none is running.
LEMMA TriggerProbeInv ==
    ASSUME IInv, NEW a \in Admin, TriggerProbe(a), UNCHANGED <<asked, health, upstream>>
    PROVE  IInv'
<1> DEFINE i == req[a].id
           kind == IF req[a].op = "caps" THEN "caps" ELSE "full"
<1>1. /\ job \in [Goroutine -> Job]
      /\ probes \in [Id -> {"none", "running", "done", "failed"}]
      /\ i \in Id /\ StartProbe(i, kind) /\ UNCHANGED tables
  BY DEF IInv, TypeOK, TriggerProbe, ReqInv
<1>2. PICK r \in Request : req' = [req EXCEPT ![a] = r] /\ ReqInv(a)'
  BY ReplyOrStep DEF TriggerProbe
<1>3. \A b \in Admin : ReqInv(b)'
  BY <1>2 DEF IInv, ReqInv, TypeOK
<1>4. CountInv' /\ StatusEarned' /\ NoOrphans'
  BY <1>1 DEF IInv, CountInv, StatusEarned, Current, NoOrphans, Exists,
     health, tables
<1>5. CASE probes[i] = "running"
  <2>1. UNCHANGED <<probes, job>>
    BY <1>1, <1>5 DEF StartProbe
  <2>2. TypeOK'
    BY <1>1, <1>2, <2>1 DEF IInv, TypeOK, tables, health, upstream
  <2>3. \A g \in Goroutine : JobInv(g)' /\ SyncInv(g)'
    BY <1>1, <2>1 DEF IInv, JobInv, SyncInv, Unwritten, Busy, tables
  <2>4. OneProbe' /\ SyncExact'
    BY <1>1, <2>1 DEF IInv, OneProbe, SyncExact, Busy, tables
  <2> QED BY <1>3, <1>4, <2>2, <2>3, <2>4 DEF IInv
<1>6. CASE probes[i] # "running"
  <2> PICK g \in Goroutine :
        /\ job[g].pc = "idle"
        /\ job' = [job EXCEPT ![g] = [NoJob EXCEPT !.pc = "queued", !.id = i,
                                                   !.kind = kind]]
    BY <1>1, <1>6 DEF StartProbe
  <2> DEFINE j == [NoJob EXCEPT !.pc = "queued", !.id = i, !.kind = kind]
  <2>1. kind \in {"full", "caps"}
    OBVIOUS
  <2>2. /\ j \in Job /\ j.pc = "queued" /\ j.id = i
        /\ job'[g] = j
        /\ \A h \in Goroutine : h # g => job'[h] = job[h]
        /\ job' \in [Goroutine -> Job]
    BY <1>1, <2>1 DEF NoJob, Job, Working
  <2>3. probes' = [probes EXCEPT ![i] = "running"]
    BY <1>1, <1>6 DEF StartProbe
  <2> HIDE DEF j, kind
  <2>4. TypeOK'
    BY <1>1, <1>2, <2>2, <2>3 DEF IInv, TypeOK, tables, health, upstream
  <2>5. \A h \in Goroutine : JobInv(h)' /\ SyncInv(h)'
    BY <1>1, <2>2 DEF IInv, JobInv, SyncInv, Unwritten, Busy, tables, Working
  <2>6. OneProbe'
    BY <1>1, <1>6, <2>2, <2>3 DEF IInv, OneProbe, Busy
  <2>7. SyncExact'
    BY <1>1, <2>2 DEF IInv, SyncExact, tables
  <2> QED BY <1>3, <1>4, <2>4, <2>5, <2>6, <2>7 DEF IInv
<1> QED BY <1>5, <1>6

LEMMA HandleInv ==
    ASSUME IInv, NEW a \in Admin, Handle(a)
    PROVE  IInv'
<1> DEFINE i == req[a].id
<1>1. /\ req \in [Admin -> Request] /\ req[a] \in Request /\ ReqInv(a)
      /\ chan \in [Id -> Row \cup {Absent}]
      /\ withKey \in SUBSET Id /\ models \in [Id -> SUBSET ModelName]
      /\ asked \in 0..MaxRequests
      /\ NoOrphans
      /\ UNCHANGED <<health, upstream>>
  BY DEF IInv, TypeOK, Handle
<1>2. CASE Accept(a)
  BY <1>1, <1>2, AcceptInv
<1> SUFFICES ASSUME ~Accept(a) PROVE IInv'
  BY <1>2
<1>3. asked' = asked
  BY DEF Handle
<1>4. CASE CreateChannel(a)
  <2> PICK k \in Id : /\ FreeId(k)
                      /\ chan' = [chan EXCEPT ![k] = req[a].form]
                      /\ req' = [req EXCEPT ![a].pc = "addkey", ![a].id = k]
    BY <1>4 DEF CreateChannel
  <2> DEFINE r == [req[a] EXCEPT !.pc = "addkey", !.id = k]
  <2>1. /\ r \in Request /\ r.pc = "addkey" /\ r.id = k
        /\ r.op = req[a].op /\ r.form = req[a].form
        /\ req' = [req EXCEPT ![a] = r] /\ req'[a] = r
    BY <1>1 DEF Request, Statements
  <2>2. req[a].form \in Row /\ UNCHANGED <<withKey, models, probes, job>>
    BY <1>1, <1>4 DEF CreateChannel, ReqInv
  <2>3. /\ chan' \in [Id -> Row \cup {Absent}]
        /\ \A n \in Id : Exists(n) => Exists(n)'
    BY <1>1, <2>2, RowIsThere DEF Exists
  <2> HIDE DEF r
  <2>4. ReqInv(a)'
    BY <1>1, <2>1 DEF ReqInv
  <2> QED BY <1>1, <1>3, <2>1, <2>2, <2>3, <2>4, HandlerStep DEF NoOrphans
<1>5. CASE AddChannelKey(a)
  <2>1. i \in Id /\ UNCHANGED <<chan, models, probes, job>>
    BY <1>1, <1>5 DEF AddChannelKey, ReqInv
  <2>2. \E r \in Request : req' = [req EXCEPT ![a] = r] /\ ReqInv(a)'
    BY <1>5, <2>1, ReplyOrStep DEF AddChannelKey, ReprobeIfChanged
  <2>3. \/ withKey' = withKey
        \/ withKey' = withKey \cup {i} /\ Exists(i)
    BY <1>5 DEF AddChannelKey
  <2> QED BY <1>1, <1>3, <2>1, <2>2, <2>3, HandlerStep DEF NoOrphans, Exists
<1>6. CASE ReadChannel(a)
  <2>1. i \in Id /\ UNCHANGED <<tables, probes, job>>
    BY <1>1, <1>6 DEF ReadChannel, ReqInv
  <2>2. CASE Exists(i)
    <3> DEFINE label == IF req[a].op = "toggle" THEN "toggle" ELSE "edit"
               r == [req[a] EXCEPT !.was = chan[i], !.pc = label]
    <3>1. chan[i] \in Row
      BY <1>1, <2>1, <2>2 DEF Exists
    <3>2. /\ r \in Request /\ r.pc = label /\ r.id = i
          /\ r.op = req[a].op /\ r.form = req[a].form /\ r.was \in Row
      BY <1>1, <3>1 DEF Request, Statements
    <3>3. req' = [req EXCEPT ![a] = r] /\ req'[a] = r
      BY <1>1, <1>6, <2>2 DEF ReadChannel
    <3>4. /\ label \in {"toggle", "edit"}
          /\ label = "edit" => req[a].op = "update"
      BY <1>1, <1>6 DEF ReadChannel, ReqInv
    <3> HIDE DEF label, r
    <3>5. ReqInv(a)'
      BY <1>1, <2>1, <3>2, <3>3, <3>4 DEF ReqInv
    <3> QED BY <1>1, <1>3, <2>1, <3>2, <3>3, <3>5, HandlerStep
            DEF NoOrphans, Exists, tables
  <2>3. CASE ~Exists(i)
    <3>1. \E r \in Request : req' = [req EXCEPT ![a] = r] /\ ReqInv(a)'
      BY <1>6, <2>3, ReplyOrStep DEF ReadChannel
    <3> QED BY <1>1, <1>3, <2>1, <3>1, HandlerStep DEF NoOrphans, Exists, tables
  <2> QED BY <2>2, <2>3
<1>7. CASE ToggleChannel(a)
  <2>1. /\ i \in Id /\ UNCHANGED <<withKey, models, probes, job>>
        /\ \E s \in Status : SetChannelStatus(i, s)
    BY <1>1, <1>7 DEF ToggleChannel, ReqInv, Status
  <2>2. \E r \in Request : req' = [req EXCEPT ![a] = r] /\ ReqInv(a)'
    BY <1>7, ReplyOrStep DEF ToggleChannel
  <2>3. /\ chan' \in [Id -> Row \cup {Absent}]
        /\ \A n \in Id : Exists(n)' <=> Exists(n)
    BY <2>1, StatusOnly DEF IInv
  <2> QED BY <1>1, <1>3, <2>1, <2>2, <2>3, HandlerStep DEF NoOrphans
<1>8. CASE UpdateChannel(a)
  <2>1. /\ i \in Id /\ UNCHANGED <<withKey, models, probes, job>>
        /\ req[a].form \in Row /\ req[a].was \in Row
    BY <1>1, <1>8 DEF UpdateChannel, ReqInv
  <2>2. \E r \in Request : req' = [req EXCEPT ![a] = r] /\ ReqInv(a)'
    BY <1>8, <2>1, ReplyOrStep DEF UpdateChannel, ReprobeIfChanged
  <2>3. [req[a].form EXCEPT !.status = req[a].was.status] \in Row
    BY <2>1 DEF Row
  <2>4. /\ chan' \in [Id -> Row \cup {Absent}]
        /\ \A n \in Id : Exists(n)' <=> Exists(n)
    BY <1>1, <1>8, <2>1, <2>3, RowIsThere DEF UpdateChannel, Exists
  <2> QED BY <1>1, <1>3, <2>1, <2>2, <2>4, HandlerStep DEF NoOrphans
<1>9. CASE DeleteKeys(a)
  <2>1. i \in Id /\ withKey' = withKey \ {i} /\ UNCHANGED <<chan, models, probes, job>>
    BY <1>1, <1>9 DEF DeleteKeys, ReqInv
  <2>2. \E r \in Request : req' = [req EXCEPT ![a] = r] /\ ReqInv(a)'
    BY <1>9, <2>1, ReplyOrStep DEF DeleteKeys
  <2> QED BY <1>1, <1>3, <2>1, <2>2, HandlerStep DEF NoOrphans, Exists
<1>10. CASE DeleteChannel(a)
  <2>1. /\ i \in Id /\ UNCHANGED <<withKey, models, probes, job>>
        /\ chan' \in [Id -> Row \cup {Absent}]
        /\ \A n \in Id : Exists(n)' \/ ~Exists(n)
                            \/ (n \notin withKey /\ models[n] = {})
    BY <1>1, <1>10 DEF DeleteChannel, ReqInv, Exists
  <2>2. \E r \in Request : req' = [req EXCEPT ![a] = r] /\ ReqInv(a)'
    BY <1>10, ReplyOrStep DEF DeleteChannel
  <2> QED BY <1>1, <1>3, <2>1, <2>2, HandlerStep DEF NoOrphans
<1>11. CASE Abandon(a)
  <2>1. \E r \in Request : req' = [req EXCEPT ![a] = r] /\ ReqInv(a)'
    BY <1>11, ReplyOrStep DEF Abandon
  <2> QED BY <1>1, <1>3, <1>11, <2>1, HandlerStep
          DEF Abandon, NoOrphans, Exists, tables
<1>12. CASE DeleteModels(a)
  BY <1>1, <1>3, <1>12, DeleteModelsInv
<1>13. CASE TriggerProbe(a)
  BY <1>1, <1>3, <1>13, TriggerProbeInv
<1> QED BY <1>4, <1>5, <1>6, <1>7, <1>8, <1>9, <1>10, <1>11, <1>12, <1>13
        DEF Handle

-----------------------------------------------------------------------------
(* The theorems. *)

LEMMA InitInv == Init => IInv
<1> SUFFICES ASSUME Init PROVE IInv
  OBVIOUS
<1>1. 0 \in 0..MaxFailures /\ 0 < MaxFailures /\ 0 \in 0..MaxRequests
      /\ 0 \in 0..MaxFlips
  BY ChannelsAssumption
<1>2. NoJob \in Job /\ NoJob.pc = "idle"
  BY DEF NoJob, Job
<1>3. TypeOK
  BY <1>1, <1>2, NoRequestOK, ChannelsAssumption DEF Init, TypeOK
<1>4. \A g \in Goroutine : ~Busy(g) /\ JobInv(g) /\ SyncInv(g)
  BY <1>2 DEF Init, JobInv, SyncInv, Busy, Working
<1>5. \A a \in Admin : ReqInv(a)
  BY NoRequestOK DEF Init, ReqInv
<1>6. OneProbe /\ SyncExact
  BY <1>2, <1>4 DEF Init, OneProbe, SyncExact
<1>7. CountInv /\ StatusEarned /\ NoOrphans
  BY <1>1 DEF Init, CountInv, StatusEarned, NoOrphans, Exists
<1> QED BY <1>3, <1>4, <1>5, <1>6, <1>7 DEF IInv

LEMMA NextInv == IInv /\ [Next]_vars => IInv'
<1> SUFFICES ASSUME IInv, [Next]_vars PROVE IInv'
  OBVIOUS
<1>1. CASE CheckOnce
  BY <1>1, CheckOnceInv
<1>2. CASE \E g \in Goroutine : Probe(g)
  BY <1>2, ProbeInv
<1>3. CASE \E a \in Admin : Handle(a)
  BY <1>3, HandleInv
<1>4. ASSUME UNCHANGED <<tables, probes, job, req, asked, health>>,
             up' \in BOOLEAN, flips' \in 0..MaxFlips
      PROVE  IInv'
  <2>1. TypeOK'
    BY <1>4 DEF IInv, TypeOK, tables, health
  <2>2. \A g \in Goroutine : JobInv(g)' /\ SyncInv(g)'
    BY <1>4 DEF IInv, JobInv, SyncInv, Unwritten, Busy, tables
  <2>3. OneProbe' /\ SyncExact' /\ NoOrphans'
    BY <1>4 DEF IInv, OneProbe, SyncExact, NoOrphans, Exists, Busy, tables
  <2>4. CountInv' /\ StatusEarned' /\ \A a \in Admin : ReqInv(a)'
    BY <1>4 DEF IInv, CountInv, StatusEarned, Current, ReqInv, health
  <2> QED BY <2>1, <2>2, <2>3, <2>4 DEF IInv
<1>5. up \in BOOLEAN /\ flips \in 0..MaxFlips /\ MaxFlips \in Nat
  BY ChannelsAssumption DEF IInv, TypeOK
<1>6. CASE Flip
  BY <1>4, <1>5, <1>6 DEF Flip
<1>7. CASE UNCHANGED vars
  BY <1>4, <1>5, <1>7 DEF vars, upstream
<1> QED BY <1>1, <1>2, <1>3, <1>6, <1>7 DEF Next, Quiet

\* IInv, the types with what each label of the probes, of the handlers and of
\* the checker guarantees, holds in every reachable state of Channels.
THEOREM ChannelsInductive == Spec => []IInv
BY InitInv, NextInv, PTL DEF Spec

\* Every variable of Channels keeps its type (the tables and processes of
\* store/channels.go, channel/manager.go, channel/health.go, web/channels.go).
THEOREM ChannelsTypeCorrect == Spec => []TypeOK
<1>1. IInv => TypeOK
  BY DEF IInv
<1> QED BY <1>1, ChannelsInductive, PTL

\* A channel id has at most one probe, and Running says whether it has one.
THEOREM ProbesExclusive == Spec => []OneProbe
<1>1. IInv => OneProbe
  BY DEF IInv
<1> QED BY <1>1, ChannelsInductive, PTL

\* The checker writes down after MaxFailures lost pings in a row and active
\* after an answered one, whatever handlers and probes do meanwhile.
THEOREM StatusesEarned == Spec => []StatusEarned
<1>1. IInv => StatusEarned
  BY DEF IInv
<1> QED BY <1>1, ChannelsInductive, PTL

\* No key and no model is left without its channel.
THEOREM ChannelsOwnRows == Spec => []NoOrphans
<1>1. IInv => NoOrphans
  BY DEF IInv
<1> QED BY <1>1, ChannelsInductive, PTL

\* A probe that reports success leaves the list it fetched.
THEOREM LibraryIsFetchedList == Spec => []SyncExact
<1>1. IInv => SyncExact
  BY DEF IInv
<1> QED BY <1>1, ChannelsInductive, PTL
=============================================================================
