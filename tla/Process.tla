------------------------------ MODULE Process ------------------------------
(***************************************************************************)
(* The life of the process from main's first line: the steps of its start, *)
(* which a failure, a signal or a kill may end, the schema that a half-run *)
(* migration leaves behind, the supervisor that starts it again, and, once *)
(* it serves, the actions of Shutdown.                                     *)
(***************************************************************************)
EXTENDS Shutdown

CONSTANT MaxFaults      \* bound on failures that the database has no part in

ASSUME FaultsAssumption == MaxFaults \in Nat

VARIABLES
    stage,      \* how far main has come, or "down"
    rootCtx,    \* "none" before SubscribeForShutdown, then "open" or "done"
    signalled,  \* has the supervisor told the process to stop?
    schema,     \* of the database: "absent", "dirty" or "current"
    faults      \* the failures of the start so far

start == <<stage, rootCtx, signalled, schema, faults>>
life  == <<vars, start>>

ProcessInit ==
    /\ Init
    /\ stage = "booting" /\ rootCtx = "none"
    /\ signalled = FALSE
    /\ schema = "absent"
    /\ faults = 0

-----------------------------------------------------------------------------
(* Start-up                                                                 *)

Reaches(from, to) ==
    /\ stage = from /\ stage' = to
    /\ UNCHANGED vars

\* os.Exit(1)
Dies(from) ==
    /\ Reaches(from, "down")
    /\ rootCtx' = "none"
    /\ UNCHANGED <<signalled, schema>>

Fault == faults < MaxFaults /\ faults' = faults + 1

\* A step that fails with the database, or for a reason of its own.
OutageOrFault == (~database /\ UNCHANGED faults) \/ Fault

\* As a bug would have it: the signals are asked for when main waits for them.
SubscribeLater ==
    /\ Reaches("booting", "subscribed")
    /\ UNCHANGED <<rootCtx, signalled, schema, faults>>

SubscribeForShutdown ==
    /\ Reaches("booting", "subscribed")
    /\ rootCtx' = "open"
    /\ UNCHANGED <<signalled, schema, faults>>

LoadConfig ==
    /\ Reaches("subscribed", "configured")
    /\ UNCHANGED <<rootCtx, signalled, schema, faults>>

\* The file cannot be read, is not YAML, or fails the validation.
LoadConfigFails == Dies("subscribed") /\ Fault

\* migrate.Up marks the version dirty, runs the file, and removes the mark.
MigrationBegins ==
    /\ Reaches("configured", "migrating")
    /\ database /\ schema = "absent"
    /\ schema' = "dirty"
    /\ UNCHANGED <<rootCtx, signalled, faults>>

MigrationEnds ==
    /\ Reaches("migrating", "migrated")
    /\ database
    /\ schema' = "current"
    /\ UNCHANGED <<rootCtx, signalled, faults>>

MigrationFails == Dies("migrating") /\ OutageOrFault

\* As a bug would have it: the error for a dirty version is ignored, too.
NothingOrDirty ==
    /\ Reaches("configured", "migrated")
    /\ database /\ schema # "absent"
    /\ UNCHANGED <<rootCtx, signalled, schema, faults>>

\* ErrNoChange
NothingToMigrate ==
    /\ Reaches("configured", "migrated")
    /\ database /\ schema = "current"
    /\ UNCHANGED <<rootCtx, signalled, schema, faults>>

\* No connection, or ErrDirty
MigrationRefused ==
    /\ Dies("configured")
    /\ ~database \/ schema = "dirty"
    /\ UNCHANGED faults

\* db.New and its ping
Connect ==
    /\ Reaches("migrated", "connected")
    /\ database
    /\ UNCHANGED <<rootCtx, signalled, schema, faults>>

ConnectFails == Dies("migrated") /\ OutageOrFault

\* NewService has loaded the table; the runner and the server are started,
\* and the failures of the start are not counted any more.
Serve ==
    /\ Reaches("connected", "serving")
    /\ database
    /\ faults' = 0
    /\ UNCHANGED <<rootCtx, signalled, schema>>

LoadSubscriptionsFails == Dies("connected") /\ OutageOrFault

StartStep ==
    \/ SubscribeForShutdown
    \/ LoadConfig
    \/ MigrationBegins \/ MigrationEnds \/ NothingToMigrate
    \/ Connect \/ Serve

StartFails ==
    \/ LoadConfigFails
    \/ MigrationFails \/ MigrationRefused
    \/ ConnectFails \/ LoadSubscriptionsFails

-----------------------------------------------------------------------------
(* The supervisor                                                           *)

\* SIGINT or SIGTERM: kills a process that has not asked for it, and is kept
\* by the context of one that has.
SignalArrives ==
    /\ ~signalled
    /\ stage # "down" /\ phase = "waiting"
    /\ signalled' = TRUE
    /\ stage'   = IF rootCtx = "none" THEN "down" ELSE stage
    /\ rootCtx' = IF rootCtx = "none" THEN "none" ELSE "done"
    /\ UNCHANGED <<vars, schema, faults>>

\* SIGKILL, or the machine stops.
Kill ==
    /\ \E s \in {"booting", "subscribed", "configured", "migrating", "migrated",
                 "connected"} : Dies(s)
    /\ Fault

\* A process that ended during its start is started again, unless it has
\* been told to stop.
Respawn ==
    /\ Reaches("down", "booting")
    /\ ~signalled
    /\ UNCHANGED <<rootCtx, signalled, schema, faults>>

Stopped == stage = "down" /\ signalled

-----------------------------------------------------------------------------
(* The process that serves                                                  *)

Serving(Action) == stage = "serving" /\ Action /\ UNCHANGED start

\* <-rootCtx.Done()
Wakes == phase = "waiting" /\ rootCtx = "done"

Served ==
    \/ Wakes /\ Signal
    \/ Drained \/ ShutdownReturns \/ Exit
    \/ SecondSignal \/ Listen \/ ListenFails
    \/ Poll
    \/ \E h \in Requests : Handler(h)
    \/ \E j \in Jobs : Job(j)
    \/ ~Wakes /\ Tick
    \/ Exited

\* Without a process only a dirty schema or a signal leaves nothing to do.
ProcessNext ==
    \/ StartStep \/ StartFails
    \/ SignalArrives \/ Kill \/ Respawn
    \/ DatabaseChanges /\ UNCHANGED start
    \/ Serving(Served)
    \/ Stopped /\ UNCHANGED life

ProcessSpec == ProcessInit /\ [][ProcessNext]_life

\* As Fairness of Shutdown, and main's goroutine and the supervisor go on: a
\* step of the start ends or fails. The code sets no timeout on those that ask
\* the database, so one that neither answers nor refuses is left out here.
ProcessFairness ==
    /\ WF_life(StartStep \/ MigrationFails \/ MigrationRefused
                \/ ConnectFails \/ LoadSubscriptionsFails)
    /\ WF_life(Respawn)
    /\ WF_life(Serving(Wakes /\ Signal)) /\ WF_life(Serving(Listen \/ ListenFails))
    /\ WF_life(Serving(~Wakes /\ Tick))
    /\ WF_life(Serving(polled = PollEvery /\ Poll))
    /\ WF_life(Serving(Drained)) /\ WF_life(Serving(ShutdownReturns))
    /\ WF_life(Serving(Exit))
    /\ \A h \in Requests : WF_life(Serving(Answer(h) \/ GiveUp(h)))
    /\ \A j \in Jobs : /\ WF_life(Serving(cancelled /\ JobUnanswered(j)))
                       /\ WF_life(Serving(JobDeleted(j) \/ JobUndeleted(j)))

FairProcessSpec == ProcessSpec /\ ProcessFairness

-----------------------------------------------------------------------------
(* Properties                                                               *)

\* Every variable has its type; a process that serves has a current schema
\* and a context that catches signals, and before it serves the variables of
\* the end have their first values.
ProcessTypeOK ==
    /\ stage \in {"down", "booting", "subscribed", "configured", "migrating",
                  "migrated", "connected", "serving"}
    /\ rootCtx \in {"none", "open", "done"}
    /\ rootCtx = "none" <=> stage \in {"down", "booting"}
    /\ signalled \in BOOLEAN
    /\ schema \in {"absent", "dirty", "current"}
    /\ stage \in {"migrated", "connected", "serving"} => schema = "current"
    /\ faults \in 0..MaxFaults
    /\ stage # "serving" => phase = "waiting" /\ listener = "new"
    /\ phase # "waiting" => signalled \/ killed

\* A signal never ends a migration that is under way, which would leave the
\* schema dirty and every later start refused: the process asks for signals
\* before it migrates. Only the database or a fault does.
MigrationOutlivesSignals ==
    [][stage = "migrating" /\ stage' = "down" =>
           ~database \/ faults' > faults]_life

\* A process that is told to stop ends and stays so, whenever in its start or
\* its service the signal comes, whatever its handlers and jobs do and whether
\* the database answers or is down, as long as no step of the start that asks
\* it hangs for ever.
SignalStops == signalled ~> [](stage = "down" \/ phase = "exited")

\* When the database stays up, a process becomes ready in the balancer's eyes,
\* whatever failed in earlier starts, unless a signal ends it, its address is
\* taken, or a migration has been cut in the middle.
BecomesReady ==
    <>[]database => <>(routing \/ signalled \/ killed) \/ <>[](schema = "dirty")
=============================================================================
