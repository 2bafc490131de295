--------------------------- MODULE WebhookIntake ---------------------------
(***************************************************************************)
(* From the billing provider's events to entitlements: the handler of      *)
(* POST /v1/webhook/lemonsqueezy with everything it calls (the price       *)
(* lookup, UpsertSubscription, OnSubscriptionChange, NotifyPlanUpdated),   *)
(* run by several goroutines, and the process dying and coming back with   *)
(* nothing but the table. The calls into the entitlement service are       *)
(* single steps here, which EntitlementService justifies.                  *)
(*                                                                         *)
(* The provider is external: it keeps an event until a request for it is   *)
(* answered 200, and may deliver it again. Overlap and InOrder say what it *)
(* is assumed to do; the code enforces neither.                            *)
(***************************************************************************)
EXTENDS SubscriptionStore, Sequences

CONSTANTS
    PlanIds,        \* the plans
    NoPlan,         \* the empty plan id
    NoUser,         \* the empty user id
    NoProduct,      \* product id 0
    Owner,          \* the user each subscription names in its custom data
    PlanFor,        \* ResolvePlanFromProduct under the configuration
    DefaultPlan,    \* default_plan, or NoPlan
    Endpoints,      \* the sequence of outgoing webhook endpoints
    Handlers,       \* the goroutines that serve webhook requests
    Shapes,         \* "ok" and perhaps "malformed": what is sent
    Overlap,        \* may two requests about one user run at once?
    InOrder,        \* is an event sent only when the user's earlier ones are settled?
    Ticks,          \* the seconds that may pass between two events
    MaxEvents,      \* bound on the events of the provider
    MaxFaults,      \* bound on failures and crashes
    Nothing         \* no message

ASSUME IntakeAssumption ==
    /\ NoPlan \notin PlanIds
    /\ Owner \in [Subs -> Users]
    /\ PlanFor \in [Products -> PlanIds \cup {NoPlan}]
    /\ NoProduct \in Products => PlanFor[NoProduct] = NoPlan
    /\ DefaultPlan \in PlanIds \cup {NoPlan}
    /\ Endpoints \in Seq(STRING)
    /\ Shapes \subseteq {"ok", "malformed"}
    /\ Overlap \in BOOLEAN /\ InOrder \in BOOLEAN
    /\ Ticks \subseteq Nat /\ MaxEvents \in Nat /\ MaxFaults \in Nat
    /\ Nothing \notin [active : PlanIds \cup {NoPlan}, prev : PlanIds \cup {NoPlan}]

VARIABLES
    events,     \* what the provider has to say, in its order
    unacked,    \* the events it has no 200 for yet
    table,      \* subscriptions_lemonsqueezy
    up,         \* is the process running?
    assigned,   \* the plan the entitlement service holds for each user
    pc,         \* where each handler is
    req,        \* the event of its request
    prev,       \* its local prevPlan
    active,     \* its local activePlan
    sent,       \* the endpoints it has enqueued a message for
    told,       \* the last message enqueued for each user and endpoint
    faults      \* the failures and crashes so far

provider == <<events, unacked>>
local    == <<req, prev, active, sent>>
vars     == <<provider, table, up, assigned, pc, local, told, faults>>

Event == [sub : Subs, status : Statuses, product : Products, at : Nat, shape : Shapes]
Plans == PlanIds \cup {NoPlan}
Message == [active : Plans, prev : Plans]
EndpointNumbers == DOMAIN Endpoints

-----------------------------------------------------------------------------
RowFor(event) ==
    [user |-> Owner[event.sub], product |-> event.product,
     status |-> event.status, updated |-> event.at]

UserOf(n) == Owner[events[n].sub]

Busy(h) == pc[h] # "idle"

UserPlan(u) == IF assigned[u] = NoPlan THEN DefaultPlan ELSE assigned[u]

\* The plans a restart may load for a user from the rows of the table.
LoadedPlans(rows, u) ==
    LET subs == ActiveUserSubscriptions(rows, u)
    IN  IF subs = {} THEN {NoPlan} ELSE {PlanFor[rows[s].product] : s \in subs}

\* activateUser, deactivateUser or, for product 0, neither.
Changed(u, product, isActive) ==
    IF isActive /\ product = NoProduct
    THEN assigned
    ELSE [v \in Users |-> CASE v = u -> IF isActive THEN PlanFor[product] ELSE NoPlan
                            [] v # u /\ u = NoUser -> NoPlan
                            [] v # u /\ u # NoUser -> assigned[v]]

Goes(h, from, to) == pc[h] = from /\ pc' = [pc EXCEPT ![h] = to]

\* The request is answered and its goroutine ends, with its local variables.
Ends(h, from) ==
    /\ Goes(h, from, "idle")
    /\ req'    = [req EXCEPT ![h] = 0]
    /\ prev'   = [prev EXCEPT ![h] = NoPlan]
    /\ active' = [active EXCEPT ![h] = NoPlan]
    /\ sent'   = [sent EXCEPT ![h] = 0]

\* A 500, or no answer: the event stays with the provider, which retries it.
Fails(h, from) ==
    /\ Ends(h, from)
    /\ UNCHANGED <<provider, table, up, assigned, told>>

-----------------------------------------------------------------------------
Init ==
    /\ events = <<>> /\ unacked = {}
    /\ table = EmptyTable
    /\ up = TRUE
    /\ assigned = [u \in Users |-> NoPlan]
    /\ pc     = [h \in Handlers |-> "idle"]
    /\ req    = [h \in Handlers |-> 0]
    /\ prev   = [h \in Handlers |-> NoPlan]
    /\ active = [h \in Handlers |-> NoPlan]
    /\ sent   = [h \in Handlers |-> 0]
    /\ told   = [u \in Users |-> [e \in EndpointNumbers |-> Nothing]]
    /\ faults = 0

LastChange == IF events = <<>> THEN 0 ELSE events[Len(events)].at

\* The provider changes a subscription; updated_at has only whole seconds.
Emit ==
    /\ Len(events) < MaxEvents
    /\ \E s \in Subs, status \in Statuses, p \in Products, tick \in Ticks, shape \in Shapes :
          events' = Append(events, [sub |-> s, status |-> status, product |-> p,
                                    at |-> LastChange + tick, shape |-> shape])
    /\ unacked' = unacked \cup {Len(events) + 1}
    /\ UNCHANGED <<table, up, assigned, pc, local, told, faults>>

MayDeliver(n) ==
    /\ n \in unacked
    /\ ~Overlap => \A h \in Handlers : Busy(h) => UserOf(req[h]) # UserOf(n)
    /\ InOrder => \A m \in unacked : UserOf(m) = UserOf(n) => n <= m

Deliver(h, n) ==
    /\ up
    /\ MayDeliver(n)
    /\ Goes(h, "idle", "received")
    /\ req' = [req EXCEPT ![h] = n]
    /\ UNCHANGED <<provider, table, up, assigned, prev, active, sent, told, faults>>

\* 400: no valid signature, another event name, a body that does not parse or
\* has no price id. The retries meet the same answer, so the provider stops.
Reject(h) ==
    /\ Ends(h, "received")
    /\ events[req[h]].shape = "malformed"
    /\ unacked' = unacked \ {req[h]}
    /\ UNCHANGED <<events, table, up, assigned, told, faults>>

FetchPrice(h) ==
    /\ Goes(h, "received", "priced")
    /\ events[req[h]].shape = "ok"
    /\ UNCHANGED <<provider, table, up, assigned, local, told, faults>>

Conflicts(h) ==
    LET event == events[req[h]]
    IN  ConflictsOnUserActive(table, event.sub, RowFor(event))

Store(h) ==
    /\ Goes(h, "priced", "stored")
    /\ ~Conflicts(h)
    /\ table' = Upsert(table, events[req[h]].sub, RowFor(events[req[h]]))
    /\ UNCHANGED <<provider, up, assigned, local, told, faults>>

\* 500: the unique index refuses a second subscription that grants access.
StoreConflicts(h) ==
    /\ Fails(h, "priced")
    /\ Conflicts(h)
    /\ UNCHANGED faults

ReadPrevPlan(h) ==
    /\ Goes(h, "stored", "asked")
    /\ prev' = [prev EXCEPT ![h] = UserPlan(UserOf(req[h]))]
    /\ UNCHANGED <<provider, table, up, assigned, req, active, sent, told, faults>>

Apply(h) ==
    /\ Goes(h, "asked", "applied")
    /\ LET event == events[req[h]]
       IN  assigned' = Changed(Owner[event.sub], event.product, IsActive(event.status))
    /\ UNCHANGED <<provider, table, up, local, told, faults>>

ReadActivePlan(h) ==
    /\ Goes(h, "applied", "notifying")
    /\ active' = [active EXCEPT ![h] = UserPlan(UserOf(req[h]))]
    /\ sent' = [sent EXCEPT ![h] = 0]
    /\ UNCHANGED <<provider, table, up, assigned, req, prev, told, faults>>

Tell(h) ==
    told' = [told EXCEPT ![UserOf(req[h])][sent[h] + 1] =
                [active |-> active[h], prev |-> prev[h]]]

\* As a bug would have it: the loop runs once more than there are endpoints.
EnqueueOnceMore(h) ==
    /\ Goes(h, "notifying", "notifying")
    /\ sent[h] <= Len(Endpoints)
    /\ sent' = [sent EXCEPT ![h] = @ + 1]
    /\ UNCHANGED <<provider, table, up, assigned, req, prev, active, told, faults>>

\* One turn of the loop of NotifyPlanUpdated: a message per endpoint.
Enqueue(h) ==
    /\ Goes(h, "notifying", "notifying")
    /\ sent[h] < Len(Endpoints)
    /\ sent' = [sent EXCEPT ![h] = @ + 1]
    /\ Tell(h)
    /\ UNCHANGED <<provider, table, up, assigned, req, prev, active, faults>>

\* 200, once every endpoint has its message.
Acknowledge(h) ==
    /\ Ends(h, "notifying")
    /\ sent[h] = Len(Endpoints)
    /\ unacked' = unacked \ {req[h]}
    /\ UNCHANGED <<events, table, up, assigned, told, faults>>

-----------------------------------------------------------------------------
(* What can go wrong, MaxFaults times: the price API fails, the database    *)
(* reports an error at the upsert or at a message (whether or not it did    *)
(* the work: the request's context may be cancelled in the middle), the     *)
(* provider has given up waiting for the answer, the process dies.          *)

Fault == faults < MaxFaults /\ faults' = faults + 1

PriceFails(h) == Fails(h, "received") /\ events[req[h]].shape = "ok" /\ Fault

StoreFails(h) == Fails(h, "priced") /\ Fault

StoredButFails(h) ==
    /\ Ends(h, "priced")
    /\ ~Conflicts(h)
    /\ table' = Upsert(table, events[req[h]].sub, RowFor(events[req[h]]))
    /\ UNCHANGED <<provider, up, assigned, told>>
    /\ Fault

\* As a bug would have it: the loop goes on after an endpoint's failure.
EnqueueFailureIgnored(h) ==
    /\ Goes(h, "notifying", "notifying")
    /\ sent[h] < Len(Endpoints)
    /\ sent' = [sent EXCEPT ![h] = @ + 1]
    /\ UNCHANGED <<provider, table, up, assigned, req, prev, active, told>>
    /\ Fault

EnqueueFails(h) ==
    /\ Ends(h, "notifying")
    /\ sent[h] < Len(Endpoints)
    /\ Tell(h) \/ UNCHANGED told
    /\ UNCHANGED <<provider, table, up, assigned>>
    /\ Fault

AnswerLost(h) == Fails(h, "notifying") /\ sent[h] = Len(Endpoints) /\ Fault

\* Requests and the entitlement service's memory are gone.
Crash ==
    /\ Fault
    /\ up
    /\ up' = FALSE
    /\ assigned' = [u \in Users |-> NoPlan]
    /\ pc'     = [h \in Handlers |-> "idle"]
    /\ req'    = [h \in Handlers |-> 0]
    /\ prev'   = [h \in Handlers |-> NoPlan]
    /\ active' = [h \in Handlers |-> NoPlan]
    /\ sent'   = [h \in Handlers |-> 0]
    /\ UNCHANGED <<provider, table, told>>

\* NewService loads the table before the server takes requests.
Restart ==
    /\ ~up
    /\ up' = TRUE
    /\ assigned' \in {a \in [Users -> Plans] : \A u \in Users : a[u] \in LoadedPlans(table, u)}
    /\ UNCHANGED <<provider, table, pc, local, told, faults>>

Step(h) == \/ Reject(h) \/ FetchPrice(h) \/ Store(h) \/ StoreConflicts(h)
           \/ ReadPrevPlan(h) \/ Apply(h) \/ ReadActivePlan(h)
           \/ Enqueue(h) \/ Acknowledge(h)

HandlerFault(h) == \/ PriceFails(h) \/ StoreFails(h) \/ StoredButFails(h)
                   \/ EnqueueFails(h) \/ AnswerLost(h)

DeliverSome(n) == \E h \in Handlers : Deliver(h, n)

\* All MaxEvents events are settled: the only state in which nothing is left
\* to do, so that TLC reports every other one as a deadlock.
AllSettled ==
    /\ up /\ unacked = {} /\ Len(events) = MaxEvents
    /\ \A h \in Handlers : ~Busy(h)
    /\ UNCHANGED vars

Next ==
    \/ Emit
    \/ \E n \in 1..MaxEvents : DeliverSome(n)
    \/ \E h \in Handlers : Step(h) \/ HandlerFault(h)
    \/ Crash
    \/ Restart
    \/ AllSettled

Spec == Init /\ [][Next]_vars

\* Requests run, the supervisor restarts the process, and the provider sends
\* an event again as long as it can: it gives up after more failures than
\* MaxFaults.
Fairness ==
    /\ \A h \in Handlers : WF_vars(Step(h))
    /\ \A n \in 1..MaxEvents : SF_vars(DeliverSome(n))
    /\ WF_vars(Restart)

FairSpec == Spec /\ Fairness

-----------------------------------------------------------------------------
(* Properties                                                              *)

TypeOK ==
    /\ events \in Seq(Event) /\ Len(events) <= MaxEvents
    /\ unacked \subseteq DOMAIN events
    /\ table \in Tables
    /\ up \in BOOLEAN
    /\ assigned \in [Users -> Plans]
    /\ pc \in [Handlers -> {"idle", "received", "priced", "stored", "asked",
                            "applied", "notifying"}]
    /\ req \in [Handlers -> {0} \cup DOMAIN events]
    /\ \A h \in Handlers : Busy(h) => req[h] # 0
    /\ prev \in [Handlers -> Plans] /\ active \in [Handlers -> Plans]
    /\ sent \in [Handlers -> 0..Len(Endpoints)]
    /\ told \in [Users -> [EndpointNumbers -> Message \cup {Nothing}]]
    /\ faults \in 0..MaxFaults

InHand(u) == \E h \in Handlers : Busy(h) /\ UserOf(req[h]) = u

Settled(u) == up /\ ~InHand(u) /\ \A n \in unacked : UserOf(n) # u

Storing(u)  == \E h \in Handlers : pc[h] \in {"stored", "asked"} /\ UserOf(req[h]) = u
Applying(u) == \E h \in Handlers : pc[h] \in {"applied", "notifying"} /\ UserOf(req[h]) = u

\* The table holds the row of an event that has no 200 yet: its request may
\* have died or failed after the upsert.
HalfDone(u) ==
    \E n \in unacked : /\ UserOf(n) = u /\ events[n].shape = "ok"
                       /\ table[events[n].sub] = RowFor(events[n])

\* The table has changed and the entitlements not yet: a request is between
\* the two, or its retry is still to come.
Behind(u) == Storing(u) \/ (HalfDone(u) /\ ~Applying(u))

\* The database and the entitlement service agree about every user for whom
\* no change is half done: what the service enforces is what a restart would
\* load. So a crash, a failure the database only pretended, a retry or a
\* reordered event leaves memory and table apart no longer than its event is
\* outstanding, when one request of a user runs at a time.
StoreMemoryAgreement ==
    \A u \in Users : up /\ ~Behind(u) => assigned[u] \in LoadedPlans(table, u)

EventsOf(u) == {n \in DOMAIN events : UserOf(n) = u}

\* What the user's subscription entitles to, as the provider last said.
ProviderPlan(u) ==
    IF EventsOf(u) = {} THEN NoPlan
    ELSE LET last == events[CHOOSE n \in EventsOf(u) : \A m \in EventsOf(u) : m <= n]
         IN  IF IsActive(last.status) THEN PlanFor[last.product] ELSE NoPlan

\* "with your billing provider as the source of truth" (README): once the
\* provider has no event of a user outstanding, the user is on the plan of
\* the last one, whatever failed or crashed on the way.
EntitlementsFollowProvider ==
    \A u \in Users : Settled(u) => assigned[u] = ProviderPlan(u)

\* Once all events of a user are answered, every endpoint's last message names
\* the user's current plan, also when an earlier request died or failed
\* between two endpoints, after it had changed the plan.
LastToldIsCurrent ==
    \A u \in Users : Settled(u) /\ EventsOf(u) # {} =>
        \A e \in EndpointNumbers :
            told[u][e] # Nothing /\ told[u][e].active = UserPlan(u)

\* A user never has two subscriptions that grant access, however the requests
\* that store them interleave.
OneGrantingSubscription ==
    \A s, t \in Subs :
        (/\ table[s] # NoRow /\ IsActive(table[s].status)
         /\ table[t] # NoRow /\ IsActive(table[t].status)
         /\ table[s].user = table[t].user) => s = t

\* The plan a restart loads (GetActiveUserPlans) is that of the subscription
\* GET /v1/users shows (GetSubscriptionByUserID) if that one grants access,
\* and none if it does not: the two queries choose alike.
RestartLoadsTheShown ==
    [][Restart =>
        \A u \in Users :
            \A s \in SubscriptionByUser(table, u) :
                assigned'[u] = IF IsActive(table[s].status)
                               THEN PlanFor[table[s].product] ELSE NoPlan]_vars

\* "Plan assigned to users without a subscription" (README, default_plan): a
\* user with a stored subscription that grants a plan is not left on the
\* default one.
SubscribersHaveTheirPlan ==
    \A u \in Users : Settled(u) =>
        \A s \in GrantingRows(table, u) :
            PlanFor[table[s].product] # NoPlan => assigned[u] # NoPlan

\* Every event is settled in the end: the provider's retries reach a process
\* that runs, and no request hangs.
EveryEventSettles ==
    \A n \in 1..MaxEvents : n \in unacked ~> n \notin unacked

=============================================================================
