------------------------------ MODULE Channels ------------------------------
(***************************************************************************)
(* The life of a channel: the administration handlers that create, edit,   *)
(* toggle, probe and delete it, the probes that find out its protocol and  *)
(* its models, and the health checker that marks it down and active again. *)
(* All of them read rows and write them back later, statement by           *)
(* statement; each statement on the single database connection, each       *)
(* upstream call and each critical section of Manager.mu is a step.        *)
(***************************************************************************)
EXTENDS Integers, FiniteSets

CONSTANTS
    Id,          \* the row ids a channel can have
    Type,        \* protocol types, with "auto" (to be detected) and "anthropic"
    Addr,        \* values of base_url; name, weight and strategy are left out
    ModelName,   \* the model names upstreams list
    Admin,       \* the handlers that can run at the same time
    Goroutine,   \* the probe goroutines that can run at the same time
    InitChan,    \* table channels at start
    HealthCheck, \* health_check_enabled
    MaxFailures, \* health_check_max_failures
    MaxRequests, \* bound: the number of requests to the handlers
    MaxFlips     \* bound: how often the upstream goes down or comes back

Status == {"active", "down", "disabled"}
Row == [type : Type, addr : Addr, status : Status]
Absent == [type |-> "none", addr |-> "none", status |-> "none"]

ASSUME ChannelsAssumption ==
    /\ Id \subseteq Nat \ {0}
    /\ {"auto", "anthropic"} \subseteq Type /\ "none" \notin Type
    /\ InitChan \in [Id -> Row \cup {Absent}]
    /\ HealthCheck \in BOOLEAN
    /\ MaxFailures \in Nat \ {0}
    /\ MaxRequests \in Nat /\ MaxFlips \in Nat

VARIABLES
    chan,      \* table channels, Absent where there is no row
    withKey,   \* the channels that have a row in channel_keys
    models,    \* table models, the names per channel
    probes,    \* Manager.probes: none, running, done or failed, per id
    job,       \* the probe goroutines
    req,       \* the handlers
    asked,     \* requests made so far
    hpc,       \* the health checker: where it is,
    seen,      \*   the rows ListChannels returned,
    left,      \*   the channels of the round not yet dealt with,
    fails,     \*   HealthChecker.failCount, 0 where there is no entry
    up, flips, \* the upstreams answer, to a key that is not cooling; changes
    streak     \* history: pings of this id lost in a row, up to MaxFailures

tables == <<chan, withKey, models>>
health == <<hpc, seen, left, fails, streak>>
upstream == <<up, flips>>
vars == <<tables, probes, job, req, asked, health, upstream>>

-----------------------------------------------------------------------------
(* Types *)

Working == {"queued", "key", "detect", "save", "fetch", "list", "check",
            "update", "insert", "clean"}

\* ch is the row as read, with the detected type; todo is what SyncModels
\* still has to write, name what it is writing; wiped is history: a
\* DeleteChannel has removed the models since they were fetched.
Job == [pc : Working \cup {"idle", "report", "failing"}, id : Id \cup {0},
        kind : {"full", "caps"}, ch : Row \cup {Absent},
        names : SUBSET ModelName, todo : SUBSET ModelName,
        name : ModelName \cup {"none"}, wiped : BOOLEAN]

NoJob == [pc |-> "idle", id |-> 0, kind |-> "full", ch |-> Absent,
          names |-> {}, todo |-> {}, name |-> "none", wiped |-> FALSE]

Statements == {"create", "addkey", "get", "edit", "toggle", "dropkeys",
               "delkeys", "delmodels", "delchannel"}

\* was is the row the handler has read, form the row it was sent.
Request == [pc : Statements \cup {"idle", "probe"}, id : Id \cup {0},
            op : {"none", "create", "update", "toggle", "resync", "caps",
                  "delete"},
            form : Row \cup {Absent}, rekey : BOOLEAN, was : Row \cup {Absent}]

NoRequest == [pc |-> "idle", id |-> 0, op |-> "none", form |-> Absent,
              rekey |-> FALSE, was |-> Absent]

TypeOK ==
    /\ chan \in [Id -> Row \cup {Absent}]
    /\ withKey \in SUBSET Id
    /\ models \in [Id -> SUBSET ModelName]
    /\ probes \in [Id -> {"none", "running", "done", "failed"}]
    /\ job \in [Goroutine -> Job]
    /\ req \in [Admin -> Request]
    /\ asked \in 0..MaxRequests
    /\ hpc \in {"idle", "next", "models", "ping", "down", "restore"}
    /\ seen \in [Id -> Row \cup {Absent}]
    /\ left \in SUBSET Id
    /\ fails \in [Id -> 0..MaxFailures]
    /\ up \in BOOLEAN /\ flips \in 0..MaxFlips
    /\ streak \in [Id -> 0..MaxFailures]

Exists(i) == chan[i] # Absent

Init ==
    /\ chan = InitChan
    /\ withKey = {i \in Id : InitChan[i] # Absent}
    /\ models = [i \in Id |-> {}]
    /\ probes = [i \in Id |-> "none"]
    /\ job = [g \in Goroutine |-> NoJob]
    /\ req = [a \in Admin |-> NoRequest]
    /\ asked = 0
    /\ hpc = "idle" /\ left = {}
    /\ seen = [i \in Id |-> Absent]
    /\ fails = [i \in Id |-> 0]
    /\ up = TRUE /\ flips = 0
    /\ streak = [i \in Id |-> 0]

\* UPDATE channels SET status=? WHERE id=?
SetChannelStatus(i, s) ==
    chan' = IF Exists(i) THEN [chan EXCEPT ![i].status = s] ELSE chan

-----------------------------------------------------------------------------
(* The health checker: one goroutine, one channel after the other in id    *)
(* order, on the rows it has read at the start of the round.               *)

\* Mutant: only active channels are checked.
CheckedActiveOnly(row) == row.status = "active" /\ row.type # "auto"

Checked(row) == row.status \in {"active", "down"} /\ row.type # "auto"

Current(i) == i \in left /\ \A j \in left : i <= j

NextChannel(i) ==
    /\ left' = left \ {i}
    /\ seen' = [seen EXCEPT ![i] = Absent]
    /\ hpc' = IF left = {i} THEN "idle" ELSE "next"

ListChannels ==
    /\ HealthCheck /\ hpc = "idle"
    /\ \E i \in Id : Exists(i)
    /\ seen' = chan
    /\ left' = {i \in Id : Exists(i)}
    /\ hpc' = "next"
    /\ UNCHANGED <<tables, fails, streak>>

Skip(i) ==
    /\ hpc = "next" /\ Current(i)
    /\ ~Checked(seen[i])
    /\ fails' = [fails EXCEPT ![i] = 0]
    /\ NextChannel(i)
    /\ UNCHANGED <<tables, streak>>

\* Mutant: the channel is marked down one failure too late.
PingFailedLate(i) ==
    /\ fails' = [fails EXCEPT ![i] = @ + 1]
    /\ streak' = [streak EXCEPT ![i] = IF @ < MaxFailures THEN @ + 1 ELSE @]
    /\ IF fails[i] + 1 > MaxFailures
       THEN hpc' = "down" /\ UNCHANGED <<seen, left>>
       ELSE NextChannel(i)
    /\ UNCHANGED tables

PingFailed(i) ==
    /\ fails' = [fails EXCEPT ![i] = @ + 1]
    /\ streak' = [streak EXCEPT ![i] = IF @ < MaxFailures THEN @ + 1 ELSE @]
    /\ IF fails[i] + 1 >= MaxFailures
       THEN hpc' = "down" /\ UNCHANGED <<seen, left>>
       ELSE NextChannel(i)
    /\ UNCHANGED tables

\* SelectKey: a channel without keys counts as a failed ping.
PingSelectsKey(i) ==
    /\ hpc = "next" /\ Current(i)
    /\ Checked(seen[i])
    /\ IF i \in withKey
       THEN /\ hpc' = IF seen[i].type = "anthropic" THEN "models" ELSE "ping"
            /\ UNCHANGED <<tables, seen, left, fails, streak>>
       ELSE PingFailed(i)

\* pingAnthropic names one of the channel's models; without one it fails.
PingTakesModel(i) ==
    /\ hpc = "models" /\ Current(i)
    /\ IF models[i] # {}
       THEN /\ hpc' = "ping"
            /\ UNCHANGED <<tables, seen, left, fails, streak>>
       ELSE PingFailed(i)

PingLost(i) ==
    /\ hpc = "ping" /\ Current(i)
    /\ ~up
    /\ PingFailed(i)

\* Mutant: a success does not reset the count.
PingAnsweredUncounted(i) ==
    /\ hpc = "ping" /\ Current(i)
    /\ up
    /\ streak' = [streak EXCEPT ![i] = 0]
    /\ IF seen[i].status # "active"
       THEN hpc' = "restore" /\ UNCHANGED <<seen, left>>
       ELSE NextChannel(i)
    /\ UNCHANGED <<tables, fails>>

PingAnswered(i) ==
    /\ hpc = "ping" /\ Current(i)
    /\ up
    /\ fails' = [fails EXCEPT ![i] = 0]
    /\ streak' = [streak EXCEPT ![i] = 0]
    /\ IF seen[i].status # "active"
       THEN hpc' = "restore" /\ UNCHANGED <<seen, left>>
       ELSE NextChannel(i)
    /\ UNCHANGED tables

MarkDown(i) ==
    /\ hpc = "down" /\ Current(i)
    /\ SetChannelStatus(i, "down")
    /\ fails' = [fails EXCEPT ![i] = 0]
    /\ NextChannel(i)
    /\ UNCHANGED <<withKey, models, streak>>

Restore(i) ==
    /\ hpc = "restore" /\ Current(i)
    /\ SetChannelStatus(i, "active")
    /\ NextChannel(i)
    /\ UNCHANGED <<withKey, models, fails, streak>>

CheckOnce ==
    /\ \/ ListChannels
       \/ \E i \in Id :
              \/ Skip(i) \/ PingSelectsKey(i) \/ PingTakesModel(i)
              \/ PingLost(i) \/ PingAnswered(i)
              \/ MarkDown(i) \/ Restore(i)
    /\ UNCHANGED <<probes, job, req, asked, upstream>>

-----------------------------------------------------------------------------
(* The probes.                                                             *)

\* Mutant: a second probe of the channel is not ignored.
StartProbeAlways(i, kind) ==
    /\ probes' = [probes EXCEPT ![i] = "running"]
    /\ \E g \in Goroutine :
           /\ job[g].pc = "idle"
           /\ job' = [job EXCEPT ![g] =
                         [NoJob EXCEPT !.pc = "queued", !.id = i, !.kind = kind]]

\* StartProbe and StartCapabilitiesProbe, up to the go statement.
StartProbe(i, kind) ==
    IF probes[i] = "running" THEN UNCHANGED <<probes, job>>
    ELSE /\ probes' = [probes EXCEPT ![i] = "running"]
         /\ \E g \in Goroutine :
                /\ job[g].pc = "idle"
                /\ job' = [job EXCEPT ![g] =
                              [NoJob EXCEPT !.pc = "queued", !.id = i,
                                            !.kind = kind]]

Goto(g, label) == job' = [job EXCEPT ![g].pc = label]

GetChannel(g) ==
    LET i == job[g].id IN
    /\ job[g].pc = "queued"
    /\ IF Exists(i)
       THEN job' = [job EXCEPT ![g].pc = "key", ![g].ch = chan[i]]
       ELSE Goto(g, "failing")
    /\ UNCHANGED <<tables, probes>>

\* An identified channel is not detected again.
AfterKey(j) ==
    CASE j.kind = "caps" -> "list"
      [] j.kind = "full" /\ j.ch.type = "auto" -> "detect"
      [] j.kind = "full" /\ j.ch.type # "auto" -> "fetch"

SelectKey(g) ==
    /\ job[g].pc = "key"
    /\ Goto(g, IF job[g].id \in withKey THEN AfterKey(job[g]) ELSE "failing")
    /\ UNCHANGED <<tables, probes>>

Detect(g) ==
    /\ job[g].pc = "detect"
    /\ \E t \in Type \ {"auto"} :
           job' = [job EXCEPT ![g].pc = "save", ![g].ch.type = t]
    /\ UNCHANGED <<tables, probes>>

\* UpdateChannel with the row as read before the detection.
SaveType(g) ==
    LET i == job[g].id IN
    /\ job[g].pc = "save"
    /\ IF Exists(i)
       THEN chan' = [chan EXCEPT ![i] = job[g].ch] /\ Goto(g, "fetch")
       ELSE chan' = chan /\ Goto(g, "failing")
    /\ UNCHANGED <<withKey, models, probes>>

\* The list of the upstream, or in a capabilities probe the library's own;
\* then every capability is asked for or taken as a default, and SyncModels
\* of the store begins.  With an empty list it has nothing to do.
Begin(g, names) ==
    job' = [job EXCEPT ![g].pc = IF names = {} THEN "report" ELSE "check",
                       ![g].names = names, ![g].todo = names,
                       ![g].wiped = FALSE]

FetchModels(g) ==
    /\ job[g].pc = "fetch"
    /\ \E names \in SUBSET ModelName : Begin(g, names)
    /\ UNCHANGED <<tables, probes>>

ListModels(g) ==
    /\ job[g].pc = "list"
    /\ Begin(g, models[job[g].id])
    /\ UNCHANGED <<tables, probes>>

\* SELECT EXISTS, for the names in any order.
CheckModel(g) ==
    /\ job[g].pc = "check"
    /\ \E n \in job[g].todo :
           job' = [job EXCEPT
                      ![g].pc = IF n \in models[job[g].id] THEN "update"
                                                           ELSE "insert",
                      ![g].name = n, ![g].todo = @ \ {n}]
    /\ UNCHANGED <<tables, probes>>

NextModel(g) ==
    job' = [job EXCEPT ![g].pc = IF job[g].todo = {} THEN "clean" ELSE "check",
                       ![g].name = "none"]

\* UPDATE models: of capabilities and time, or of no row at all.
UpdateModel(g) ==
    /\ job[g].pc = "update"
    /\ NextModel(g)
    /\ UNCHANGED <<tables, probes>>

\* INSERT INTO models: under the foreign key and UNIQUE(channel_id, name).
InsertModel(g) ==
    LET i == job[g].id IN
    /\ job[g].pc = "insert"
    /\ IF Exists(i) /\ job[g].name \notin models[i]
       THEN /\ models' = [models EXCEPT ![i] = @ \cup {job[g].name}]
            /\ NextModel(g)
       ELSE models' = models /\ Goto(g, "failing")
    /\ UNCHANGED <<chan, withKey, probes>>

\* Mutant: models the upstream no longer offers are kept.
DeleteStaleModelsNever(g) ==
    /\ job[g].pc = "clean"
    /\ Goto(g, "report")
    /\ UNCHANGED <<tables, probes>>

\* DELETE FROM models ... name NOT IN (...)
DeleteStaleModels(g) ==
    LET i == job[g].id IN
    /\ job[g].pc = "clean"
    /\ models' = [models EXCEPT ![i] = @ \cap job[g].names]
    /\ Goto(g, "report")
    /\ UNCHANGED <<chan, withKey, probes>>

\* A statement or call fails, no key is usable, or ProbeTimeout is over.
ProbeFails(g) ==
    /\ job[g].pc \in Working
    /\ Goto(g, "failing")
    /\ UNCHANGED <<tables, probes>>

Finish(g) ==
    /\ job[g].pc = "report"
    /\ probes' = [probes EXCEPT ![job[g].id] = "done"]
    /\ job' = [job EXCEPT ![g] = NoJob]
    /\ UNCHANGED tables

\* Mutant: a failed probe leaves Running set.
ReportFailureUnset(g) ==
    /\ job[g].pc = "failing"
    /\ job' = [job EXCEPT ![g] = NoJob]
    /\ UNCHANGED <<tables, probes>>

ReportFailure(g) ==
    /\ job[g].pc = "failing"
    /\ probes' = [probes EXCEPT ![job[g].id] = "failed"]
    /\ job' = [job EXCEPT ![g] = NoJob]
    /\ UNCHANGED tables

Probe(g) ==
    /\ \/ GetChannel(g) \/ SelectKey(g) \/ Detect(g) \/ SaveType(g)
       \/ FetchModels(g) \/ ListModels(g)
       \/ CheckModel(g) \/ UpdateModel(g) \/ InsertModel(g)
       \/ DeleteStaleModels(g)
       \/ ProbeFails(g) \/ Finish(g) \/ ReportFailure(g)
    /\ UNCHANGED <<req, asked, health, upstream>>

-----------------------------------------------------------------------------
(* The handlers.  A handler whose client disconnects, or whose statement   *)
(* fails, returns where it is (Abandon).                                   *)

Accept(a) ==
    /\ req[a].pc = "idle" /\ asked < MaxRequests
    /\ asked' = asked + 1
    /\ \E i \in Id, op \in {"create", "update", "toggle", "resync", "caps",
                            "delete"} :
          \/ /\ op \in {"create", "update"}
             /\ \E t \in Type, d \in Addr, b \in BOOLEAN :
                   req' = [req EXCEPT ![a] =
                       [NoRequest EXCEPT
                           !.op = op, !.id = IF op = "create" THEN 0 ELSE i,
                           !.pc = IF op = "create" THEN op ELSE "get",
                           !.form = [type |-> t, addr |-> d,
                                     status |-> "active"],
                           !.rekey = (op = "update") /\ b]]
          \/ /\ op \notin {"create", "update"}
             /\ req' = [req EXCEPT ![a] =
                    [NoRequest EXCEPT
                        !.op = op, !.id = i,
                        !.pc = CASE op = "toggle" -> "get"
                                 [] op = "delete" -> "delkeys"
                                 [] op \in {"resync", "caps"} -> "probe"]]
    /\ UNCHANGED <<tables, probes, job>>

Step(a, label) == req' = [req EXCEPT ![a].pc = label]
Reply(a) == req' = [req EXCEPT ![a] = NoRequest]

\* The id SQLite gives a new row: one more than the largest in use.
FreeId(i) ==
    /\ \A j \in Id : Exists(j) => j < i
    /\ i = 1 \/ (i - 1 \in Id /\ Exists(i - 1))

CreateChannel(a) ==
    /\ req[a].pc = "create"
    /\ \E i \in Id :
          /\ FreeId(i)
          /\ chan' = [chan EXCEPT ![i] = req[a].form]
          /\ req' = [req EXCEPT ![a].pc = "addkey", ![a].id = i]
    /\ UNCHANGED <<withKey, models, probes, job>>

\* The last part of an edit.
ReprobeIfChanged(a) ==
    IF req[a].was.type # req[a].form.type \/ req[a].was.addr # req[a].form.addr
    THEN Step(a, "probe") ELSE Reply(a)

\* INSERT INTO channel_keys, under the foreign key, of the form's keys.
AddChannelKey(a) ==
    LET i == req[a].id IN
    /\ req[a].pc = "addkey"
    /\ IF Exists(i)
       THEN /\ withKey' = withKey \cup {i}
            /\ IF req[a].op = "create" THEN Step(a, "probe")
                                       ELSE ReprobeIfChanged(a)
       ELSE withKey' = withKey /\ Reply(a)
    /\ UNCHANGED <<chan, models, probes, job>>

ReadChannel(a) ==
    LET i == req[a].id IN
    /\ req[a].pc = "get"
    /\ IF Exists(i)
       THEN req' = [req EXCEPT ![a].was = chan[i],
                               ![a].pc = IF req[a].op = "toggle" THEN "toggle"
                                                                 ELSE "edit"]
       ELSE Reply(a)
    /\ UNCHANGED <<tables, probes, job>>

ToggleChannel(a) ==
    /\ req[a].pc = "toggle"
    /\ SetChannelStatus(req[a].id, IF req[a].was.status = "disabled"
                                   THEN "active" ELSE "disabled")
    /\ Reply(a)
    /\ UNCHANGED <<withKey, models, probes, job>>

\* UpdateChannel with the form and the status as read.
UpdateChannel(a) ==
    LET i == req[a].id IN
    /\ req[a].pc = "edit"
    /\ IF Exists(i)
       THEN /\ chan' = [chan EXCEPT ![i] =
                           [req[a].form EXCEPT !.status = req[a].was.status]]
            /\ IF req[a].rekey THEN Step(a, "dropkeys") ELSE ReprobeIfChanged(a)
       ELSE chan' = chan /\ Reply(a)
    /\ UNCHANGED <<withKey, models, probes, job>>

\* DELETE FROM channel_keys, of ReplaceChannelKeys and of DeleteChannel.
DeleteKeys(a) ==
    /\ req[a].pc \in {"dropkeys", "delkeys"}
    /\ withKey' = withKey \ {req[a].id}
    /\ Step(a, IF req[a].pc = "dropkeys" THEN "addkey" ELSE "delmodels")
    /\ UNCHANGED <<chan, models, probes, job>>

DeleteModels(a) ==
    LET i == req[a].id IN
    /\ req[a].pc = "delmodels"
    /\ models' = [models EXCEPT ![i] = {}]
    /\ job' = [g \in Goroutine |->
                  IF job[g].id = i THEN [job[g] EXCEPT !.wiped = TRUE]
                                   ELSE job[g]]
    /\ Step(a, "delchannel")
    /\ UNCHANGED <<chan, withKey, probes>>

\* Mutant: foreign keys are not enforced.
DeleteChannelUnchecked(a) ==
    LET i == req[a].id IN
    /\ req[a].pc = "delchannel"
    /\ chan' = [chan EXCEPT ![i] = Absent]
    /\ Reply(a)
    /\ UNCHANGED <<withKey, models, probes, job>>

\* DELETE FROM channels fails while a key or a model refers to the row.
DeleteChannel(a) ==
    LET i == req[a].id IN
    /\ req[a].pc = "delchannel"
    /\ chan' = IF i \in withKey \/ models[i] # {} THEN chan
               ELSE [chan EXCEPT ![i] = Absent]
    /\ Reply(a)
    /\ UNCHANGED <<withKey, models, probes, job>>

TriggerProbe(a) ==
    /\ req[a].pc = "probe"
    /\ StartProbe(req[a].id, IF req[a].op = "caps" THEN "caps" ELSE "full")
    /\ Reply(a)
    /\ UNCHANGED tables

Abandon(a) ==
    /\ req[a].pc \in Statements
    /\ Reply(a)
    /\ UNCHANGED <<tables, probes, job>>

Handle(a) ==
    /\ \/ /\ \/ CreateChannel(a) \/ AddChannelKey(a) \/ ReadChannel(a)
             \/ ToggleChannel(a) \/ UpdateChannel(a)
             \/ DeleteKeys(a) \/ DeleteModels(a) \/ DeleteChannel(a)
             \/ TriggerProbe(a) \/ Abandon(a)
          /\ UNCHANGED asked
       \/ Accept(a)
    /\ UNCHANGED <<health, upstream>>

-----------------------------------------------------------------------------
\* The upstream goes down, or comes back.
Flip ==
    /\ flips < MaxFlips
    /\ up' = ~up /\ flips' = flips + 1
    /\ UNCHANGED <<tables, probes, job, req, asked, health>>

\* No request, no probe and no channel to check: the system rests.
Quiet ==
    /\ asked = MaxRequests /\ flips = MaxFlips
    /\ \A a \in Admin : req[a].pc = "idle"
    /\ \A g \in Goroutine : job[g].pc = "idle"
    /\ hpc = "idle"
    /\ HealthCheck => \A i \in Id : ~Exists(i)
    /\ UNCHANGED vars

Next ==
    \/ CheckOnce
    \/ \E g \in Goroutine : Probe(g)
    \/ \E a \in Admin : Handle(a)
    \/ Flip
    \/ Quiet

Spec == Init /\ [][Next]_vars

FairSpec ==
    /\ Spec
    /\ WF_vars(CheckOnce)
    /\ \A g \in Goroutine : WF_vars(Probe(g))

-----------------------------------------------------------------------------
(* Safety.                                                                 *)

Busy(g) == job[g].pc # "idle"

\* A channel id has one probe at a time, and Running, which is all that keeps
\* a second one out and makes the page poll, says exactly whether there is
\* one (StartProbe, StartCapabilitiesProbe and each of their ends).
OneProbe ==
    /\ \A g, h \in Goroutine :
           Busy(g) /\ Busy(h) /\ job[g].id = job[h].id => g = h
    /\ \A i \in Id : probes[i] = "running"
                       <=> \E g \in Goroutine : Busy(g) /\ job[g].id = i

\* The checker marks a channel down after MaxFailures lost pings in a row,
\* not earlier, and active only after an answered one; its count never
\* runs ahead of what happened (CheckOnce, by channel id).
StatusEarned ==
    /\ \A i \in Id : fails[i] <= streak[i]
    /\ hpc = "down" => \E i \in left : Current(i) /\ streak[i] = MaxFailures
    /\ hpc = "restore" => \E i \in left : Current(i) /\ streak[i] = 0

\* No key and no model outlives its channel, although deletions, probes and
\* handlers cut each other short; the router joins models with channels and
\* a new channel can take the id (DeleteChannel, SyncModels, AddChannelKey).
NoOrphans == \A i \in Id : Exists(i) \/ (i \notin withKey /\ models[i] = {})

\* A probe that reports success leaves as the library exactly the list it
\* fetched, whatever it found there, unless the list was empty or a deletion
\* of the channel came in between (Store.SyncModels).
SyncExact ==
    \A g \in Goroutine :
        job[g].pc = "report" /\ job[g].names # {} /\ ~job[g].wiped
            => models[job[g].id] = job[g].names

-----------------------------------------------------------------------------
(* Liveness.                                                               *)

\* A probe ends, on every path of ProbeChannel and ProbeCapabilitiesOnly,
\* even when its channel is deleted or edited: the page stops polling and
\* the next probe is let in.
ProbesEnd ==
    \A i \in Id : probes[i] = "running" ~> probes[i] # "running"

Pingable(i) ==
    /\ Exists(i) /\ i \in withKey /\ up
    /\ chan[i].status # "disabled" /\ chan[i].type # "auto"
    /\ chan[i].type = "anthropic" => models[i] # {}

\* A channel that could be pinged with success from some time on, and is
\* neither disabled nor unidentified, is active in the end: no handler,
\* probe or stale round leaves it down (CheckOnce).
DownRecovers ==
    \A i \in Id : <>[]Pingable(i) => <>[](chan[i].status = "active")

-----------------------------------------------------------------------------
(* Claims of the repository that do not hold.                              *)

\* "disabled" stays until an administrator changes it: the health checker
\* skips disabled channels (health.go:52), and a probe updates "type and
\* model library" only (manager.go:135).
DisabledStays ==
    [][\A i \in Id : chan[i].status = "disabled" /\ Exists(i)' /\ req' = req
          => chan'[i].status = "disabled"]_vars
=============================================================================
