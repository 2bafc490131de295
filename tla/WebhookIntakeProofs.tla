------------------------- MODULE WebhookIntakeProofs -------------------------
(***************************************************************************)
(* Table and entitlements agree, for any number of subscriptions, events,  *)
(* handlers, failures and crashes and in whatever order the events of a    *)
(* user arrive, if                                                         *)
(*   - one request about a user runs at a time,                            *)
(*   - a user has one subscription and every subscription names its user,  *)
(*   - events carry a product id.                                          *)
(* Each of these is needed: the runs and hazards of the README show what   *)
(* happens without it. With events in order, memory follows the provider;  *)
(* and in any order the endpoints are last told of what memory holds.      *)
(***************************************************************************)
EXTENDS WebhookIntake, TLAPS

SerialUse ==
    /\ ~Overlap
    /\ \A s, t \in Subs : Owner[s] = Owner[t] => s = t
    /\ NoUser \notin Users
    /\ NoProduct \notin Products

\* Requests run only in a running process, and one per user.
OnePerUser ==
    /\ \A h \in Handlers : Busy(h) => up
    /\ \A g, h \in Handlers :
          Busy(g) /\ Busy(h) /\ UserOf(req[g]) = UserOf(req[h]) => g = h

\* A row belongs to the user of its subscription.
RowsOwned == \A s \in Subs : table[s] # NoRow => table[s].user = Owner[s]

\* What a request has stored is there until it has been applied.
StoredIsThere ==
    \A h \in Handlers :
        pc[h] \in {"stored", "asked"} =>
            table[events[req[h]].sub] = RowFor(events[req[h]])

\* The provider holds the event of every request in hand, and a request that
\* got past Reject has a well-formed one.
Accepted ==
    \A h \in Handlers :
        Busy(h) => /\ req[h] \in unacked
                   /\ pc[h] # "received" => events[req[h]].shape = "ok"

Linked == /\ OnePerUser /\ RowsOwned /\ StoredIsThere /\ Accepted
          /\ StoreMemoryAgreement

IInv == TypeOK /\ Linked

-----------------------------------------------------------------------------
LEMMA EventTypes ==
    ASSUME TypeOK, NEW n \in DOMAIN events
    PROVE  /\ events[n] \in Event
           /\ events[n].sub \in Subs /\ events[n].product \in Products
           /\ events[n].status \in Statuses /\ events[n].at \in Nat
           /\ UserOf(n) \in Users
           /\ RowFor(events[n]) \in Rows
<1>1. events[n] \in Event
    BY DEF TypeOK
<1>2. /\ events[n].sub \in Subs /\ events[n].product \in Products
      /\ events[n].status \in Statuses /\ events[n].at \in Nat
    BY <1>1 DEF Event
<1>3. UserOf(n) \in Users
    BY <1>2, IntakeAssumption DEF UserOf
<1> QED BY <1>1, <1>2, <1>3 DEF RowFor, Rows, UserOf

LEMMA BusyRequest ==
    ASSUME TypeOK, NEW h \in Handlers, Busy(h)
    PROVE  req[h] \in DOMAIN events
BY DEF TypeOK

LEMMA InitIInv == Init => IInv
<1> SUFFICES ASSUME Init PROVE IInv
    OBVIOUS
<1>1. TypeOK
    BY IntakeAssumption
       DEF Init, TypeOK, Tables, EmptyTable, Plans, Message, EndpointNumbers, Busy
<1>2. OnePerUser /\ RowsOwned /\ StoredIsThere /\ Accepted
    BY DEF Init, OnePerUser, RowsOwned, StoredIsThere, Accepted, Busy, EmptyTable
<1>3. \A u \in Users : LoadedPlans(table, u) = {NoPlan}
    BY DEF Init, LoadedPlans, ActiveUserSubscriptions, Newest, GrantingRows, RowsOf, EmptyTable
<1>4. StoreMemoryAgreement
    BY <1>3 DEF Init, StoreMemoryAgreement
<1> QED BY <1>1, <1>2, <1>4 DEF IInv, Linked

-----------------------------------------------------------------------------
(* What a restart loads for a user depends on the user's rows only, and on  *)
(* the product of the one row there is.                                     *)

LEMMA RowOwner ==
    ASSUME NEW t \in Tables, NEW s \in Subs, NEW u \in Users
    PROVE  s \in RowsOf(t, u) <=> t[s] # NoRow /\ t[s].user = u
BY DEF RowsOf

LEMMA OtherUsersLoadTheSame ==
    ASSUME NEW t \in Tables, NEW s \in Subs, NEW row \in Rows, NEW u \in Users,
           row.user # u, t[s] # NoRow => t[s].user # u
    PROVE  LoadedPlans(Upsert(t, s, row), u) = LoadedPlans(t, u)
<1> DEFINE t2 == Upsert(t, s, row)
<1>1. /\ \A r \in Subs : r # s => t2[r] = t[r]
      /\ t2[s] = row
      /\ row # NoRow
    BY StoreAssumption DEF Upsert, Tables
<1>2. s \notin RowsOf(t2, u) /\ s \notin RowsOf(t, u)
    BY <1>1 DEF RowsOf
<1>3. \A r \in Subs \ {s} : r \in RowsOf(t2, u) <=> r \in RowsOf(t, u)
    BY <1>1 DEF RowsOf
<1>4. RowsOf(t2, u) = RowsOf(t, u)
    BY <1>2, <1>3 DEF RowsOf
<1>5. \A r \in RowsOf(t, u) : t2[r] = t[r]
    BY <1>1, <1>2 DEF RowsOf
<1> HIDE DEF t2
<1>6. GrantingRows(t2, u) = GrantingRows(t, u)
    BY <1>4, <1>5 DEF GrantingRows
<1>7. \A r \in GrantingRows(t, u) : t2[r] = t[r]
    BY <1>5 DEF GrantingRows
<1>8. ActiveUserSubscriptions(t2, u) = ActiveUserSubscriptions(t, u)
    BY <1>6, <1>7 DEF ActiveUserSubscriptions, Newest
<1>9. \A r \in ActiveUserSubscriptions(t, u) : t2[r] = t[r]
    BY <1>7 DEF ActiveUserSubscriptions, Newest
<1>10. {PlanFor[t2[r].product] : r \in ActiveUserSubscriptions(t, u)}
        = {PlanFor[t[r].product] : r \in ActiveUserSubscriptions(t, u)}
    BY <1>9
<1>11. LoadedPlans(t2, u) = LoadedPlans(t, u)
    BY <1>8, <1>10 DEF LoadedPlans
<1> QED BY <1>11 DEF t2

LEMMA TheOneRowIsLoaded ==
    ASSUME NEW t \in Tables, NEW s \in Subs, NEW u \in Users, RowsOf(t, u) = {s}
    PROVE  IF IsActive(t[s].status)
           THEN PlanFor[t[s].product] \in LoadedPlans(t, u)
           ELSE NoPlan \in LoadedPlans(t, u)
<1>1. CASE IsActive(t[s].status)
    <2>1. GrantingRows(t, u) = {s}
        BY <1>1 DEF GrantingRows, IsActive
    <2>2. t[s].updated <= t[s].updated
        BY DEF RowsOf, Tables, Rows
    <2>3. ActiveUserSubscriptions(t, u) = {s}
        BY <2>1, <2>2 DEF ActiveUserSubscriptions, Newest
    <2> QED BY <1>1, <2>3 DEF LoadedPlans
<1>2. CASE ~IsActive(t[s].status)
    <2>1. GrantingRows(t, u) = {}
        BY <1>2 DEF GrantingRows, IsActive
    <2>2. ActiveUserSubscriptions(t, u) = {}
        BY <2>1 DEF ActiveUserSubscriptions, Newest
    <2> QED BY <1>2, <2>2 DEF LoadedPlans
<1> QED BY <1>1, <1>2

-----------------------------------------------------------------------------
(* Type correctness, one step per action.                                   *)

LEMMA RequestSub ==
    ASSUME TypeOK, NEW h \in Handlers, Busy(h)
    PROVE  /\ req[h] \in DOMAIN events
           /\ events[req[h]].sub \in Subs
           /\ events[req[h]].product \in Products
           /\ UserOf(req[h]) \in Users
           /\ UserOf(req[h]) = Owner[events[req[h]].sub]
           /\ RowFor(events[req[h]]) \in Rows
           /\ RowFor(events[req[h]]).user = UserOf(req[h])
BY BusyRequest, EventTypes DEF UserOf, RowFor

LEMMA PlanTypes ==
    ASSUME TypeOK, NEW u \in Users
    PROVE  UserPlan(u) \in Plans
BY IntakeAssumption DEF TypeOK, UserPlan, Plans

LEMMA EndsTypes ==
    ASSUME TypeOK, NEW h \in Handlers, NEW from, Ends(h, from),
           UNCHANGED <<events, up, assigned>>, table' \in Tables,
           unacked' \subseteq unacked, faults' \in 0..MaxFaults,
           told' \in [Users -> [EndpointNumbers -> Message \cup {Nothing}]]
    PROVE  TypeOK'
<1>1. /\ pc' = [pc EXCEPT ![h] = "idle"] /\ req' = [req EXCEPT ![h] = 0]
      /\ prev' = [prev EXCEPT ![h] = NoPlan] /\ active' = [active EXCEPT ![h] = NoPlan]
      /\ sent' = [sent EXCEPT ![h] = 0]
    BY DEF Ends, Goes
<1> QED BY <1>1, IntakeAssumption DEF TypeOK, Plans, Busy, Message, EndpointNumbers

LEMMA TellTypes ==
    ASSUME TypeOK, NEW h \in Handlers, Busy(h), Tell(h)
    PROVE  told' \in [Users -> [EndpointNumbers -> Message \cup {Nothing}]]
<1>1. [active |-> active[h], prev |-> prev[h]] \in Message
    BY DEF TypeOK, Message
<1> QED BY <1>1, RequestSub DEF Tell, TypeOK

LEMMA EmitTypes == TypeOK /\ Emit => TypeOK'
<1> SUFFICES ASSUME TypeOK, Emit PROVE TypeOK'
    OBVIOUS
<1>1. LastChange \in Nat
    <2>1. CASE events = <<>>
        BY <2>1 DEF LastChange
    <2>2. CASE events # <<>>
        <3>1. Len(events) \in DOMAIN events
            BY <2>2 DEF TypeOK
        <3> QED BY <2>2, <3>1, EventTypes DEF LastChange
    <2> QED BY <2>1, <2>2
<1>2. PICK e \in Event : events' = Append(events, e)
    BY <1>1, IntakeAssumption DEF Emit, Event
<1>3. /\ events' \in Seq(Event) /\ Len(events') <= MaxEvents
      /\ DOMAIN events \subseteq DOMAIN events'
      /\ Len(events) + 1 \in DOMAIN events'
    BY <1>2, IntakeAssumption DEF TypeOK, Emit
<1>4. unacked' \subseteq DOMAIN events'
    BY <1>3 DEF TypeOK, Emit
<1>5. req' \in [Handlers -> {0} \cup DOMAIN events']
    BY <1>3 DEF TypeOK, Emit, local
<1> QED BY <1>3, <1>4, <1>5 DEF TypeOK, Emit, local, Busy

LEMMA DeliverTypes ==
    ASSUME TypeOK, NEW h \in Handlers, NEW n \in 1..MaxEvents, Deliver(h, n)
    PROVE  TypeOK'
<1>1. n \in DOMAIN events /\ n # 0
    BY DEF TypeOK, Deliver, MayDeliver
<1> QED BY <1>1 DEF TypeOK, Deliver, Goes, provider, Busy

LEMMA StepTypes ==
    ASSUME TypeOK, NEW h \in Handlers, Step(h)
    PROVE  TypeOK'
<1>1. CASE Reject(h)
    BY <1>1, EndsTypes DEF Reject, TypeOK
<1>2. CASE FetchPrice(h)
    BY <1>2 DEF FetchPrice, TypeOK, Goes, provider, local, Busy
<1>3. CASE Store(h)
    <2>1. Busy(h)
        BY <1>3 DEF Store, Goes, Busy
    <2>2. table' \in Tables
        BY <1>3, <2>1, RequestSub DEF Store, TypeOK, Tables, Upsert
    <2> QED BY <1>3, <2>2 DEF Store, TypeOK, Goes, provider, local, Busy
<1>4. CASE StoreConflicts(h)
    BY <1>4, EndsTypes DEF StoreConflicts, Fails, provider, TypeOK
<1>5. CASE ReadPrevPlan(h)
    <2>1. UserPlan(UserOf(req[h])) \in Plans
        BY <1>5, RequestSub, PlanTypes DEF ReadPrevPlan, Goes, Busy
    <2> QED BY <1>5, <2>1 DEF ReadPrevPlan, TypeOK, Goes, provider, Busy
<1>6. CASE Apply(h)
    <2>1. events[req[h]].product \in Products
        BY <1>6, RequestSub DEF Apply, Goes, Busy
    <2>2. assigned' \in [Users -> Plans]
        BY <1>6, <2>1, IntakeAssumption DEF Apply, Changed, TypeOK, Plans
    <2> QED BY <1>6, <2>2 DEF Apply, TypeOK, Goes, provider, local, Busy
<1>7. CASE ReadActivePlan(h)
    <2>1. UserPlan(UserOf(req[h])) \in Plans
        BY <1>7, RequestSub, PlanTypes DEF ReadActivePlan, Goes, Busy
    <2> QED BY <1>7, <2>1 DEF ReadActivePlan, TypeOK, Goes, provider, Busy
<1>8. CASE Enqueue(h)
    <2>1. sent[h] + 1 \in 0..Len(Endpoints)
        BY <1>8 DEF Enqueue, TypeOK
    <2>2. told' \in [Users -> [EndpointNumbers -> Message \cup {Nothing}]]
        BY <1>8, TellTypes DEF Enqueue, Goes, Busy
    <2> QED BY <1>8, <2>1, <2>2 DEF Enqueue, TypeOK, Goes, provider, Busy
<1>9. CASE Acknowledge(h)
    BY <1>9, EndsTypes DEF Acknowledge, TypeOK
<1> QED BY <1>1, <1>2, <1>3, <1>4, <1>5, <1>6, <1>7, <1>8, <1>9 DEF Step

LEMMA FaultTypes ==
    ASSUME TypeOK, Fault
    PROVE  faults' \in 0..MaxFaults
BY IntakeAssumption DEF TypeOK, Fault

LEMMA HandlerFaultTypes ==
    ASSUME TypeOK, NEW h \in Handlers, HandlerFault(h)
    PROVE  TypeOK'
<1>1. faults' \in 0..MaxFaults
    BY FaultTypes DEF HandlerFault, PriceFails, StoreFails, StoredButFails, EnqueueFails, AnswerLost
<1>2. CASE PriceFails(h) \/ StoreFails(h) \/ AnswerLost(h)
    <2>1. \E from \in {"received", "priced", "notifying"} : Fails(h, from)
        BY <1>2 DEF PriceFails, StoreFails, AnswerLost
    <2> QED BY <2>1, <1>1, EndsTypes DEF Fails, provider, TypeOK
<1>3. CASE StoredButFails(h)
    <2>1. table' \in Tables
        BY <1>3, RequestSub DEF StoredButFails, Ends, Goes, Busy, TypeOK, Tables, Upsert
    <2>2. Ends(h, "priced") /\ UNCHANGED <<events, unacked, up, assigned, told>>
        BY <1>3 DEF StoredButFails, provider
    <2> QED BY <2>1, <2>2, <1>1, EndsTypes DEF TypeOK
<1>4. CASE EnqueueFails(h)
    <2>1. Ends(h, "notifying") /\ UNCHANGED <<events, unacked, table, up, assigned>>
        BY <1>4 DEF EnqueueFails, provider
    <2>2. told' \in [Users -> [EndpointNumbers -> Message \cup {Nothing}]]
        BY <1>4, <2>1, TellTypes DEF EnqueueFails, Ends, Goes, Busy, TypeOK
    <2> QED BY <2>1, <2>2, <1>1, EndsTypes DEF TypeOK
<1> QED BY <1>2, <1>3, <1>4 DEF HandlerFault

LEMMA CrashTypes == TypeOK /\ Crash => TypeOK'
<1> SUFFICES ASSUME TypeOK, Crash PROVE TypeOK'
    OBVIOUS
<1>1. faults' \in 0..MaxFaults
    BY FaultTypes DEF Crash
<1>2. UNCHANGED <<events, unacked, table, told>>
    BY DEF Crash, provider
<1>3. \A h \in Handlers : ~Busy(h)'
    BY DEF Crash, Busy
<1>4. sent' \in [Handlers -> 0..Len(Endpoints)]
    BY IntakeAssumption DEF Crash
<1> QED BY <1>1, <1>2, <1>3, <1>4 DEF TypeOK, Crash, Plans

LEMMA RestartTypes == TypeOK /\ Restart => TypeOK'
BY DEF TypeOK, Restart, provider, local, Busy

LEMMA StepsKeepTypes == TypeOK /\ [Next]_vars => TypeOK'
<1> SUFFICES ASSUME TypeOK, [Next]_vars PROVE TypeOK'
    OBVIOUS
<1>1. CASE UNCHANGED vars \/ AllSettled
    BY <1>1 DEF AllSettled, TypeOK, vars, provider, local, Busy
<1> QED BY <1>1, EmitTypes, DeliverTypes, StepTypes, HandlerFaultTypes, CrashTypes, RestartTypes
        DEF Next, DeliverSome

\* Every variable has its type, whatever fails, crashes or is redelivered.
THEOREM TypeCorrect == Spec => []TypeOK
<1>1. Init => TypeOK
    BY InitIInv DEF IInv
<1> QED BY <1>1, StepsKeepTypes, PTL DEF Spec
-----------------------------------------------------------------------------
(* The agreement of table and entitlements.                                 *)

Between == {"stored", "asked"}
Applied == {"applied", "notifying"}

\* Whether a user is behind depends on the events, the table and on where the
\* user's own request is.
LEMMA SameBehind ==
    ASSUME NEW u \in Users, UNCHANGED <<events, table, unacked>>,
           \A g \in Handlers :
               pc'[g] \in Between \cup Applied \/ pc[g] \in Between \cup Applied
                   => /\ req'[g] = req[g]
                      /\ pc'[g] \in Between <=> pc[g] \in Between
                      /\ pc'[g] \in Applied <=> pc[g] \in Applied
    PROVE  Behind(u)' <=> Behind(u)
<1>1. Storing(u)' <=> Storing(u)
    BY DEF Storing, UserOf, Between, Applied
<1>2. Applying(u)' <=> Applying(u)
    BY DEF Applying, UserOf, Between, Applied
<1>3. HalfDone(u)' <=> HalfDone(u)
    BY DEF HalfDone, UserOf, RowFor
<1> QED BY <1>1, <1>2, <1>3 DEF Behind

\* A step of requests that changes neither table nor entitlements and leaves
\* no user behind who was not.
LEMMA QuietStep ==
    ASSUME IInv, UNCHANGED <<events, table, up, assigned>>,
           \A g \in Handlers :
               Busy(g)' => /\ Busy(g) /\ req'[g] = req[g] /\ req[g] \in unacked'
                           /\ pc[g] = "received" /\ pc'[g] # "received"
                                  => events[req[g]].shape = "ok",
           \A g \in Handlers : pc'[g] = "received" => pc[g] = "received",
           \A g \in Handlers : pc'[g] \in Between => pc[g] \in Between,
           \A u \in Users : Behind(u) => Behind(u)'
    PROVE  Linked'
<1>1. OnePerUser'
    BY DEF IInv, Linked, OnePerUser, UserOf
<1>2. RowsOwned'
    BY DEF IInv, Linked, RowsOwned
<1>3. StoredIsThere'
    <2>1. \A g \in Handlers : pc'[g] \in Between => req'[g] = req[g]
        BY DEF Busy, Between
    <2> QED BY <2>1 DEF IInv, Linked, StoredIsThere, RowFor, Between
<1>4. Accepted'
    BY DEF IInv, Linked, Accepted
<1>5. StoreMemoryAgreement'
    BY DEF IInv, Linked, StoreMemoryAgreement
<1> QED BY <1>1, <1>2, <1>3, <1>4, <1>5 DEF Linked

LEMMA MovesQuietly ==
    ASSUME IInv, NEW h \in Handlers, NEW from, NEW to, Goes(h, from, to),
           from # "idle", to # "received",
           from = "received" => events[req[h]].shape = "ok",
           from \in Between <=> to \in Between, from \in Applied <=> to \in Applied,
           req' = req, UNCHANGED <<events, unacked, table, up, assigned>>
    PROVE  Linked'
<1>1. /\ pc[h] = from /\ pc'[h] = to
      /\ \A g \in Handlers \ {h} : pc'[g] = pc[g]
    BY DEF IInv, TypeOK, Goes
<1>2. \A g \in Handlers :
          Busy(g)' => /\ Busy(g) /\ req'[g] = req[g] /\ req[g] \in unacked'
                      /\ pc[g] = "received" /\ pc'[g] # "received"
                             => events[req[g]].shape = "ok"
    BY <1>1 DEF IInv, Linked, Accepted, Busy
<1>3. \A g \in Handlers : pc'[g] = "received" => pc[g] = "received"
    BY <1>1
<1>4. \A g \in Handlers : pc'[g] \in Between => pc[g] \in Between
    BY <1>1
<1>5. \A u \in Users : Behind(u) => Behind(u)'
    BY <1>1, SameBehind
<1> QED BY <1>2, <1>3, <1>4, <1>5, QuietStep

\* A request that ends outside the stretch from Store to Apply: answered 200
\* after Apply, 400 for a malformed event, or with its event still held.
LEMMA EndsQuietly ==
    ASSUME IInv, NEW h \in Handlers, NEW from, Ends(h, from),
           from \in {"received", "priced", "notifying"},
           \/ unacked' = unacked
           \/ /\ unacked' = unacked \ {req[h]}
              /\ from = "notifying" \/ events[req[h]].shape = "malformed",
           UNCHANGED <<events, table, up, assigned>>
    PROVE  Linked'
<1> DEFINE user == UserOf(req[h])
<1>1. /\ pc[h] = from /\ pc'[h] = "idle"
      /\ \A g \in Handlers \ {h} : pc'[g] = pc[g] /\ req'[g] = req[g]
    BY DEF IInv, TypeOK, Ends, Goes
<1>2. Busy(h) /\ \A g \in Handlers \ {h} : Busy(g) => UserOf(req[g]) # user
    BY <1>1 DEF IInv, Linked, OnePerUser, Busy
<1>3. \A g \in Handlers :
          Busy(g)' => /\ Busy(g) /\ req'[g] = req[g] /\ req[g] \in unacked'
                      /\ pc[g] = "received" /\ pc'[g] # "received"
                             => events[req[g]].shape = "ok"
    BY <1>1, <1>2 DEF IInv, Linked, Accepted, Busy
<1>4. /\ \A g \in Handlers : pc'[g] = "received" => pc[g] = "received"
      /\ \A g \in Handlers : pc'[g] \in Between => pc[g] \in Between
    BY <1>1 DEF Between
<1>5. ASSUME NEW u \in Users, Behind(u)
      PROVE  Behind(u)'
    <2>1. CASE u # user
        <3>1. Storing(u)' <=> Storing(u)
            BY <1>1, <2>1 DEF Storing, UserOf
        <3>2. Applying(u)' <=> Applying(u)
            BY <1>1, <2>1 DEF Applying, UserOf
        <3>3. HalfDone(u) => HalfDone(u)'
            BY <2>1 DEF HalfDone, UserOf, RowFor
        <3> QED BY <1>5, <3>1, <3>2, <3>3 DEF Behind
    <2>2. CASE u = user
        <3>1. ~Storing(u)
            BY <1>1, <1>2, <2>2 DEF Storing, Busy
        <3>2. HalfDone(u) /\ ~Applying(u)
            BY <1>5, <3>1 DEF Behind
        <3>3. from # "notifying"
            BY <1>1, <2>2, <3>2 DEF Applying
        <3>4. HalfDone(u)'
            BY <3>2, <3>3 DEF HalfDone, UserOf, RowFor
        <3>5. ~Applying(u)'
            BY <1>1, <1>2, <2>2 DEF Applying, Busy, UserOf
        <3> QED BY <3>4, <3>5 DEF Behind
    <2> QED BY <2>1, <2>2
<1> QED BY <1>3, <1>4, <1>5, QuietStep

LEMMA EmitLinked == IInv /\ Emit => Linked'
<1> SUFFICES ASSUME IInv, Emit PROVE Linked'
    OBVIOUS
<1>1. \A n \in DOMAIN events : n \in DOMAIN events' /\ events'[n] = events[n]
    BY DEF Emit, IInv, TypeOK
<1>2. \A h \in Handlers : Busy(h) => events'[req[h]] = events[req[h]]
    BY <1>1, BusyRequest DEF IInv
<1>3. UNCHANGED <<table, up, assigned, pc, req>> /\ unacked \subseteq unacked'
    BY DEF Emit, local
<1>4. OnePerUser'
    BY <1>2, <1>3 DEF IInv, Linked, OnePerUser, Busy, UserOf
<1>5. RowsOwned'
    BY <1>3 DEF IInv, Linked, RowsOwned
<1>6. StoredIsThere'
    BY <1>2, <1>3 DEF IInv, Linked, StoredIsThere, Busy, RowFor
<1>7. Accepted'
    BY <1>2, <1>3 DEF IInv, Linked, Accepted, Busy
<1>8. ASSUME NEW u \in Users, Behind(u)
      PROVE  Behind(u)'
    <2>1. Storing(u)' <=> Storing(u)
        BY <1>2, <1>3 DEF Storing, UserOf, Busy
    <2>2. Applying(u)' <=> Applying(u)
        BY <1>2, <1>3 DEF Applying, UserOf, Busy
    <2>3. \A n \in unacked : n \in unacked' /\ events'[n] = events[n]
        BY <1>1, <1>3 DEF IInv, TypeOK
    <2>4. HalfDone(u) => HalfDone(u)'
        BY <1>3, <2>3 DEF HalfDone, UserOf, RowFor
    <2> QED BY <1>8, <2>1, <2>2, <2>4 DEF Behind
<1>9. StoreMemoryAgreement'
    BY <1>3, <1>8 DEF IInv, Linked, StoreMemoryAgreement
<1> QED BY <1>4, <1>5, <1>6, <1>7, <1>9 DEF Linked

LEMMA DeliverLinked ==
    ASSUME SerialUse, IInv, NEW h \in Handlers, NEW n \in 1..MaxEvents, Deliver(h, n)
    PROVE  Linked'
<1>1. /\ pc[h] = "idle" /\ pc' = [pc EXCEPT ![h] = "received"]
      /\ req' = [req EXCEPT ![h] = n] /\ n \in unacked
      /\ up /\ UNCHANGED <<events, unacked, table, up, assigned>>
    BY DEF Deliver, Goes, provider, MayDeliver
<1>2. \A g \in Handlers : Busy(g) => UserOf(req[g]) # UserOf(n)
    BY DEF Deliver, MayDeliver, SerialUse
<1>3. /\ \A g \in Handlers \ {h} : pc'[g] = pc[g] /\ req'[g] = req[g]
      /\ pc'[h] = "received" /\ req'[h] = n
    BY <1>1 DEF IInv, TypeOK
<1>4. OnePerUser'
    BY <1>1, <1>2, <1>3 DEF IInv, Linked, OnePerUser, Busy, UserOf
<1>5. RowsOwned'
    BY <1>1 DEF IInv, Linked, RowsOwned
<1>6. StoredIsThere'
    BY <1>1, <1>3 DEF IInv, Linked, StoredIsThere, RowFor
<1>7. Accepted'
    BY <1>1, <1>3 DEF IInv, Linked, Accepted, Busy
<1>8. \A u \in Users : Behind(u)' <=> Behind(u)
    BY <1>1, <1>3, SameBehind DEF Between, Applied
<1>9. StoreMemoryAgreement'
    BY <1>1, <1>8 DEF IInv, Linked, StoreMemoryAgreement
<1> QED BY <1>4, <1>5, <1>6, <1>7, <1>9 DEF Linked

\* The upsert, whether the request goes on or ends with an error.
LEMMA WriteLinked ==
    ASSUME SerialUse, IInv, NEW h \in Handlers, pc[h] = "priced",
           table' = Upsert(table, events[req[h]].sub, RowFor(events[req[h]])),
           \A g \in Handlers \ {h} : pc'[g] = pc[g] /\ req'[g] = req[g],
           \/ pc'[h] = "stored" /\ req'[h] = req[h]
           \/ pc'[h] = "idle",
           UNCHANGED <<events, unacked, up, assigned>>
    PROVE  Linked'
<1> DEFINE event == events[req[h]]
           sub == event.sub
           row == RowFor(event)
           user == UserOf(req[h])
<1>1. Busy(h) /\ \A g \in Handlers \ {h} : Busy(g) => UserOf(req[g]) # user
    BY DEF IInv, Linked, OnePerUser, Busy
<1>2. /\ sub \in Subs /\ user \in Users /\ user = Owner[sub]
      /\ row \in Rows /\ row.user = user
      /\ req[h] \in unacked /\ event.shape = "ok"
    BY <1>1, RequestSub DEF IInv, Linked, Accepted
<1>3. /\ table \in Tables /\ table'[sub] = row
      /\ \A s \in Subs \ {sub} : table'[s] = table[s]
    BY <1>2 DEF IInv, TypeOK, Tables, Upsert
<1>4. \A g \in Handlers : Busy(g)' => Busy(g) /\ req'[g] = req[g]
    BY <1>1 DEF Busy
<1>5. OnePerUser'
    BY <1>4 DEF IInv, Linked, OnePerUser, UserOf
<1>6. RowsOwned'
    BY <1>2, <1>3 DEF IInv, Linked, RowsOwned
<1>7. StoredIsThere'
    <2> SUFFICES ASSUME NEW g \in Handlers, pc'[g] \in {"stored", "asked"}
                 PROVE  table'[events[req[g]].sub] = RowFor(events[req[g]])
        BY <1>4 DEF StoredIsThere, RowFor, Busy
    <2>1. CASE g = h
        BY <2>1, <1>3
    <2>2. CASE g # h
        <3>1. Busy(g) /\ pc[g] \in {"stored", "asked"}
            BY <2>2 DEF Busy
        <3>2. events[req[g]].sub \in Subs /\ events[req[g]].sub # sub
            BY <2>2, <3>1, <1>1, RequestSub DEF IInv, UserOf
        <3>3. table[events[req[g]].sub] = RowFor(events[req[g]])
            BY <3>1 DEF IInv, Linked, StoredIsThere
        <3> QED BY <3>2, <3>3, <1>3
    <2> QED BY <2>1, <2>2
<1>8. Accepted'
    BY <1>2, <1>4 DEF IInv, Linked, Accepted, Busy
<1>9. ASSUME NEW u \in Users, u = user
      PROVE  Behind(u)'
    <2>1. CASE pc'[h] = "stored" /\ req'[h] = req[h]
        <3>1. Storing(u)'
            BY <1>9, <2>1 DEF Storing, UserOf
        <3> QED BY <3>1 DEF Behind
    <2>2. CASE pc'[h] = "idle"
        <3>1. HalfDone(u)'
            BY <1>2, <1>3, <1>9 DEF HalfDone, UserOf, RowFor
        <3>2. ~Applying(u)'
            BY <2>2, <1>1, <1>9 DEF Applying, UserOf, Busy
        <3> QED BY <3>1, <3>2 DEF Behind
    <2> QED BY <2>1, <2>2
<1>10. StoreMemoryAgreement'
    <2> SUFFICES ASSUME NEW u \in Users, up, ~Behind(u)'
                 PROVE  assigned[u] \in LoadedPlans(table', u)
        BY DEF StoreMemoryAgreement
    <2>1. u # user
        BY <1>9
    <2>2. Storing(u)' <=> Storing(u)
        BY <2>1, <1>4 DEF Storing, UserOf, Busy
    <2>3. Applying(u)' <=> Applying(u)
        BY <2>1, <1>4 DEF Applying, UserOf, Busy
    <2>4. HalfDone(u) => HalfDone(u)'
        <3> SUFFICES ASSUME NEW n \in unacked, UserOf(n) = u, events[n].shape = "ok",
                            table[events[n].sub] = RowFor(events[n])
                     PROVE  table'[events[n].sub] = RowFor(events[n])
            BY DEF HalfDone, UserOf, RowFor
        <3>1. events[n].sub \in Subs /\ events[n].sub # sub
            BY <2>1, EventTypes DEF IInv, TypeOK, UserOf
        <3> QED BY <3>1, <1>3
    <2>5. ~Behind(u)
        BY <2>2, <2>3, <2>4 DEF Behind
    <2>6. table[sub] # NoRow => table[sub].user # u
        BY <2>1, <1>2 DEF IInv, Linked, RowsOwned
    <2>7. LoadedPlans(table', u) = LoadedPlans(table, u)
        BY <2>1, <2>6, <1>2, <1>3, OtherUsersLoadTheSame
    <2> QED BY <2>5, <2>7 DEF IInv, Linked, StoreMemoryAgreement
<1> QED BY <1>5, <1>6, <1>7, <1>8, <1>10 DEF Linked

LEMMA StoreLinked ==
    ASSUME SerialUse, IInv, NEW h \in Handlers, Store(h)
    PROVE  Linked'
<1>1. /\ pc[h] = "priced" /\ pc'[h] = "stored" /\ req' = req
      /\ \A g \in Handlers \ {h} : pc'[g] = pc[g]
    BY DEF Store, Goes, local, IInv, TypeOK
<1>2. /\ table' = Upsert(table, events[req[h]].sub, RowFor(events[req[h]]))
      /\ UNCHANGED <<events, unacked, up, assigned>>
    BY DEF Store, provider
<1> QED BY <1>1, <1>2, WriteLinked

LEMMA StoredButFailsLinked ==
    ASSUME SerialUse, IInv, NEW h \in Handlers, StoredButFails(h)
    PROVE  Linked'
<1>1. /\ pc[h] = "priced" /\ pc'[h] = "idle"
      /\ \A g \in Handlers \ {h} : pc'[g] = pc[g] /\ req'[g] = req[g]
    BY DEF StoredButFails, Ends, Goes, IInv, TypeOK
<1>2. /\ table' = Upsert(table, events[req[h]].sub, RowFor(events[req[h]]))
      /\ UNCHANGED <<events, unacked, up, assigned>>
    BY DEF StoredButFails, provider
<1> QED BY <1>1, <1>2, WriteLinked

LEMMA ApplyLinked ==
    ASSUME SerialUse, IInv, NEW h \in Handlers, Apply(h)
    PROVE  Linked'
<1> DEFINE event == events[req[h]]
           sub == event.sub
           user == UserOf(req[h])
<1>1. /\ pc[h] = "asked" /\ pc' = [pc EXCEPT ![h] = "applied"]
      /\ assigned' = Changed(user, event.product, IsActive(event.status))
      /\ req' = req /\ UNCHANGED <<events, unacked, table, up>>
    BY DEF Apply, Goes, provider, local, UserOf
<1>2. Busy(h)
    BY <1>1 DEF Busy
<1>3. /\ sub \in Subs /\ user \in Users /\ user = Owner[sub]
      /\ event.product \in Products
    BY <1>2, RequestSub DEF IInv
<1>4. pc'[h] = "applied" /\ \A g \in Handlers \ {h} : pc'[g] = pc[g]
    BY <1>1 DEF IInv, TypeOK
<1>5. /\ \A g \in Handlers : Busy(g)' => Busy(g)
      /\ \A g \in Handlers : pc'[g] \in Between => g # h /\ pc[g] \in Between
    BY <1>2, <1>4 DEF Busy, Between
<1>6. OnePerUser'
    BY <1>1, <1>5 DEF IInv, Linked, OnePerUser, UserOf
<1>7. RowsOwned'
    BY <1>1 DEF IInv, Linked, RowsOwned
<1>8. StoredIsThere'
    BY <1>1, <1>5 DEF IInv, Linked, StoredIsThere, Between, RowFor
<1>9. Accepted'
    BY <1>1, <1>4 DEF IInv, Linked, Accepted, Busy
<1>10. table[sub] = RowFor(event) /\ table[sub] # NoRow
    BY <1>1, <1>2, StoreAssumption, RequestSub DEF IInv, Linked, StoredIsThere
<1>11. RowsOf(table, user) = {sub}
    <2>1. sub \in RowsOf(table, user)
        BY <1>3, <1>10 DEF RowsOf, RowFor
    <2>2. \A s \in RowsOf(table, user) : s = sub
        BY <1>3 DEF IInv, Linked, RowsOwned, RowsOf, SerialUse
    <2> QED BY <2>1, <2>2
<1>12. /\ table \in Tables
       /\ table[sub].status = event.status
       /\ table[sub].product = event.product
    BY <1>10 DEF IInv, TypeOK, RowFor
<1>13. event.product # NoProduct /\ user # NoUser
    BY <1>3 DEF SerialUse
<1>14. assigned'[user] = IF IsActive(event.status) THEN PlanFor[event.product] ELSE NoPlan
    BY <1>1, <1>3, <1>13 DEF Changed
<1>15. \A v \in Users \ {user} : assigned'[v] = assigned[v]
    BY <1>1, <1>3, <1>13 DEF Changed
<1>16. assigned'[user] \in LoadedPlans(table, user)
    BY <1>3, <1>11, <1>12, <1>14, TheOneRowIsLoaded
<1>17. StoreMemoryAgreement'
    <2> SUFFICES ASSUME NEW u \in Users, up, ~Behind(u)'
                 PROVE  assigned'[u] \in LoadedPlans(table, u)
        BY <1>1 DEF StoreMemoryAgreement
    <2>1. CASE u = user
        BY <2>1, <1>16
    <2>2. CASE u # user
        <3>1. Storing(u)' <=> Storing(u)
            BY <2>2, <1>1, <1>4 DEF Storing, UserOf
        <3>2. Applying(u)' <=> Applying(u)
            BY <2>2, <1>1, <1>4 DEF Applying, UserOf
        <3>3. HalfDone(u)' <=> HalfDone(u)
            BY <1>1 DEF HalfDone, UserOf, RowFor
        <3>4. ~Behind(u)
            BY <3>1, <3>2, <3>3 DEF Behind
        <3> QED BY <2>2, <3>4, <1>15 DEF IInv, Linked, StoreMemoryAgreement
    <2> QED BY <2>1, <2>2
<1> QED BY <1>6, <1>7, <1>8, <1>9, <1>17 DEF Linked

LEMMA CrashLinked == IInv /\ Crash => Linked'
<1> SUFFICES ASSUME IInv, Crash PROVE Linked'
    OBVIOUS
<1>1. \A h \in Handlers : pc'[h] = "idle"
    BY DEF Crash
<1>2. OnePerUser' /\ StoredIsThere' /\ Accepted'
    BY <1>1 DEF OnePerUser, StoredIsThere, Accepted, Busy
<1>3. RowsOwned' /\ StoreMemoryAgreement'
    BY DEF Crash, IInv, Linked, RowsOwned, StoreMemoryAgreement
<1> QED BY <1>2, <1>3 DEF Linked

LEMMA RestartLinked == IInv /\ Restart => Linked'
<1> SUFFICES ASSUME IInv, Restart PROVE Linked'
    OBVIOUS
<1>1. /\ ~up /\ up' /\ UNCHANGED <<events, unacked, table, pc, req>>
      /\ \A u \in Users : assigned'[u] \in LoadedPlans(table, u)
    BY DEF Restart, provider, local
<1>2. \A h \in Handlers : ~Busy(h) /\ pc'[h] = pc[h]
    BY <1>1 DEF IInv, Linked, OnePerUser
<1>3. OnePerUser' /\ StoredIsThere' /\ Accepted'
    BY <1>2 DEF OnePerUser, StoredIsThere, Accepted, Busy
<1>4. RowsOwned' /\ StoreMemoryAgreement'
    BY <1>1 DEF IInv, Linked, RowsOwned, StoreMemoryAgreement
<1> QED BY <1>3, <1>4 DEF Linked

LEMMA StepLinked ==
    ASSUME SerialUse, IInv, NEW h \in Handlers, Step(h)
    PROVE  Linked'
<1>1. CASE Reject(h)
    BY <1>1, EndsQuietly DEF Reject
<1>2. CASE FetchPrice(h)
    BY <1>2, MovesQuietly DEF FetchPrice, provider, local, Between, Applied
<1>3. CASE StoreConflicts(h)
    BY <1>3, EndsQuietly DEF StoreConflicts, Fails, provider
<1>4. CASE ReadPrevPlan(h)
    BY <1>4, MovesQuietly DEF ReadPrevPlan, provider, Between, Applied
<1>5. CASE ReadActivePlan(h)
    BY <1>5, MovesQuietly DEF ReadActivePlan, provider, Between, Applied
<1>6. CASE Enqueue(h)
    BY <1>6, MovesQuietly DEF Enqueue, provider, Between, Applied
<1>7. CASE Acknowledge(h)
    BY <1>7, EndsQuietly DEF Acknowledge
<1> QED BY <1>1, <1>2, <1>3, <1>4, <1>5, <1>6, <1>7, StoreLinked, ApplyLinked DEF Step

LEMMA HandlerFaultLinked ==
    ASSUME SerialUse, IInv, NEW h \in Handlers, HandlerFault(h)
    PROVE  Linked'
<1>1. CASE StoredButFails(h)
    BY <1>1, StoredButFailsLinked
<1>2. CASE ~StoredButFails(h)
    <2>1. PICK from \in {"received", "priced", "notifying"} :
              Ends(h, from) /\ UNCHANGED <<events, unacked, table, up, assigned>>
        BY <1>2 DEF HandlerFault, PriceFails, StoreFails, EnqueueFails, AnswerLost, Fails, provider
    <2> QED BY <2>1, EndsQuietly
<1> QED BY <1>1, <1>2

LEMMA StepsKeepIInv ==
    ASSUME SerialUse
    PROVE  IInv /\ [Next]_vars => IInv'
<1> SUFFICES ASSUME IInv, [Next]_vars PROVE IInv'
    OBVIOUS
<1>1. TypeOK'
    BY StepsKeepTypes DEF IInv
<1>2. CASE UNCHANGED vars \/ AllSettled
    <2>1. UNCHANGED <<events, unacked, table, up, assigned, pc, req>>
        BY <1>2 DEF AllSettled, vars, provider, local
    <2>2. \A u \in Users : Behind(u)' <=> Behind(u)
        BY <2>1, SameBehind
    <2>3. \A g \in Handlers : Busy(g)' => Busy(g) /\ req'[g] = req[g] /\ req[g] \in unacked'
        BY <2>1 DEF Busy, IInv, Linked, Accepted
    <2>4. Linked'
        BY <2>1, <2>2, <2>3, QuietStep
    <2> QED BY <1>1, <2>4 DEF IInv
<1>3. CASE Next /\ ~AllSettled
    <2>1. Linked'
        BY <1>3, EmitLinked, DeliverLinked, StepLinked, HandlerFaultLinked, CrashLinked,
           RestartLinked
           DEF Next, DeliverSome
    <2> QED BY <1>1, <2>1 DEF IInv
<1> QED BY <1>2, <1>3

\* What the service enforces is what a restart would load: for every number of
\* events, handlers, failures and crashes and every order of the events, as
\* long as one request of a user runs at a time and a user has one subscription.
THEOREM TableAndMemoryAgree ==
    ASSUME SerialUse
    PROVE  Spec => []StoreMemoryAgreement
<1>1. IInv /\ [Next]_vars => IInv'
    BY StepsKeepIInv
<1>2. IInv => StoreMemoryAgreement
    BY DEF IInv, Linked
<1> QED BY <1>1, <1>2, InitIInv, PTL DEF Spec

-----------------------------------------------------------------------------
(* One subscription that grants access per user, with requests overlapping  *)
(* as they like and whoever owns the subscriptions.                         *)

LEMMA StoreKeepsOneGranting ==
    ASSUME TypeOK, OneGrantingSubscription, NEW h \in Handlers,
           Store(h) \/ StoredButFails(h)
    PROVE  OneGrantingSubscription'
<1> DEFINE sub == events[req[h]].sub
           row == RowFor(events[req[h]])
<1>1. Busy(h) /\ table' = Upsert(table, sub, row) /\ ~ConflictsOnUserActive(table, sub, row)
    BY DEF Store, StoredButFails, Ends, Goes, Busy, Conflicts
<1>2. table \in Tables /\ sub \in Subs
    BY <1>1, RequestSub DEF TypeOK
<1> HIDE DEF sub, row
<1>3. table'[sub] = row /\ \A s \in Subs \ {sub} : table'[s] = table[s]
    BY <1>1, <1>2 DEF Tables, Upsert
<1>4. IsActive(row.status) =>
          ~ \E t \in Subs \ {sub} : /\ table[t] # NoRow /\ table[t].user = row.user
                                   /\ IsActive(table[t].status)
    BY <1>1 DEF ConflictsOnUserActive, RowsOf, IsActive
<1> QED BY <1>3, <1>4 DEF OneGrantingSubscription

\* No interleaving of requests, however late or repeated their events, gives a
\* user two stored subscriptions that grant access.
THEOREM OneGranting == Spec => []OneGrantingSubscription
<1>1. Init => OneGrantingSubscription
    BY DEF Init, OneGrantingSubscription, EmptyTable
<1>2. TypeOK /\ OneGrantingSubscription /\ [Next]_vars => OneGrantingSubscription'
    <2> SUFFICES ASSUME TypeOK, OneGrantingSubscription, [Next]_vars
                 PROVE  OneGrantingSubscription'
        OBVIOUS
    <2>1. CASE UNCHANGED table
        BY <2>1 DEF OneGrantingSubscription
    <2>2. CASE \E h \in Handlers : Store(h) \/ StoredButFails(h)
        BY <2>2, StoreKeepsOneGranting
    <2>3. CASE UNCHANGED table \/ \E h \in Handlers : Store(h) \/ StoredButFails(h)
        BY <2>1, <2>2, <2>3
    <2>4. ASSUME NEW h \in Handlers, Step(h) \/ HandlerFault(h)
          PROVE  UNCHANGED table \/ Store(h) \/ StoredButFails(h)
        BY <2>4 DEF Step, HandlerFault, Reject, FetchPrice, StoreConflicts, ReadPrevPlan,
           Apply, ReadActivePlan, Enqueue, Acknowledge, PriceFails, StoreFails, EnqueueFails,
           AnswerLost, Fails
    <2>5. UNCHANGED table \/ \E h \in Handlers : Store(h) \/ StoredButFails(h)
        BY <2>4 DEF Next, Emit, DeliverSome, Deliver, Crash, Restart, AllSettled, vars
    <2> QED BY <2>3, <2>5
<1> QED BY <1>1, <1>2, TypeCorrect, PTL DEF Spec
-----------------------------------------------------------------------------
(* The two queries of the table, which the code writes down separately.     *)

\* With one granting subscription per user, the row that is shown decides
\* what may be loaded.
LEMMA ShownIsLoaded ==
    ASSUME TypeOK, OneGrantingSubscription, NEW u \in Users,
           NEW s \in SubscriptionByUser(table, u)
    PROVE  LoadedPlans(table, u) =
               {IF IsActive(table[s].status) THEN PlanFor[table[s].product] ELSE NoPlan}
<1>1. /\ s \in RowsOf(table, u)
      /\ GrantingRows(table, u) # {} => s \in GrantingRows(table, u)
    BY DEF SubscriptionByUser, Newest, GrantingRows, RowsOf
<1>2. CASE IsActive(table[s].status)
    <2>1. GrantingRows(table, u) = {s}
        BY <1>1, <1>2 DEF GrantingRows, RowsOf, IsActive, OneGrantingSubscription
    <2>2. table[s].updated \in Nat
        BY <1>1 DEF TypeOK, Tables, Rows, RowsOf
    <2>3. ActiveUserSubscriptions(table, u) = {s}
        BY <2>1, <2>2 DEF ActiveUserSubscriptions, Newest
    <2> QED BY <1>2, <2>3 DEF LoadedPlans
<1>3. CASE ~IsActive(table[s].status)
    <2>1. GrantingRows(table, u) = {}
        BY <1>1, <1>3 DEF GrantingRows, IsActive
    <2>2. ActiveUserSubscriptions(table, u) = {}
        BY <2>1 DEF ActiveUserSubscriptions, Newest
    <2> QED BY <1>3, <2>2 DEF LoadedPlans
<1> QED BY <1>2, <1>3

\* A restart puts every user with a subscription on the plan of the one that
\* GET /v1/users shows, whatever events came before, in whatever order.
THEOREM RestartLoadsShown == Spec => RestartLoadsTheShown
<1>1. TypeOK /\ OneGrantingSubscription /\ [Next]_vars =>
          [Restart =>
              \A u \in Users : \A s \in SubscriptionByUser(table, u) :
                  assigned'[u] = IF IsActive(table[s].status)
                                 THEN PlanFor[table[s].product] ELSE NoPlan]_vars
    <2> SUFFICES ASSUME TypeOK, OneGrantingSubscription, Restart,
                        NEW u \in Users, NEW s \in SubscriptionByUser(table, u)
                 PROVE  assigned'[u] = IF IsActive(table[s].status)
                                       THEN PlanFor[table[s].product] ELSE NoPlan
        OBVIOUS
    <2>1. assigned'[u] \in LoadedPlans(table, u)
        BY DEF Restart
    <2> QED BY <2>1, ShownIsLoaded
<1> QED BY <1>1, TypeCorrect, OneGranting, PTL DEF Spec, RestartLoadsTheShown

-----------------------------------------------------------------------------
(* The provider as the source of truth. The events of a user are settled in *)
(* order, so there is a first one that is not; what the table and the       *)
(* memory hold of the user is what that event says, or the one before it.   *)

OrderedUse == SerialUse /\ InOrder /\ Shapes = {"ok"}

\* What is held after the n-th event, and before the first.
PlanSaid(n) ==
    IF n = 0 THEN NoPlan
    ELSE IF IsActive(events[n].status) THEN PlanFor[events[n].product] ELSE NoPlan

RowSaid(n) == IF n = 0 THEN NoRow ELSE RowFor(events[n])

\* The n-th event is the last of the user's that is settled or the first that
\* is not.
Current(u, n) ==
    /\ n \in {0} \cup EventsOf(u)
    /\ \A m \in EventsOf(u) : /\ m < n => m \notin unacked
                              /\ m > n => m \in unacked

SettledInOrder ==
    \A u \in Users : \A m, n \in EventsOf(u) :
        m < n /\ m \in unacked => n \in unacked

TableSays == \A s \in Subs : \E n : Current(Owner[s], n) /\ table[s] = RowSaid(n)

MemorySays ==
    up => \A u \in Users : \E n : Current(u, n) /\ assigned[u] = PlanSaid(n)

RequestsSay ==
    \A h \in Handlers :
        /\ Busy(h) => Current(UserOf(req[h]), req[h])
        /\ pc[h] \in Between \cup Applied => table[events[req[h]].sub] = RowFor(events[req[h]])
        /\ pc[h] \in Applied => assigned[UserOf(req[h])] = PlanSaid(req[h])

OrderInv == SettledInOrder /\ TableSays /\ MemorySays /\ RequestsSay

LEMMA EventNumbers ==
    ASSUME TypeOK
    PROVE  /\ Len(events) \in Nat /\ DOMAIN events = 1..Len(events)
           /\ \A u : EventsOf(u) \subseteq 1..Len(events)
BY DEF TypeOK, EventsOf

LEMMA InitOrder == Init => OrderInv
<1> SUFFICES ASSUME Init PROVE OrderInv
    OBVIOUS
<1>1. \A u : EventsOf(u) = {} /\ Current(u, 0)
    BY DEF Init, EventsOf, Current
<1>2. /\ \A h \in Handlers : pc[h] = "idle"
      /\ \A s \in Subs : table[s] = NoRow
      /\ \A u \in Users : assigned[u] = NoPlan
    BY DEF Init, EmptyTable
<1> QED BY <1>1, <1>2
        DEF OrderInv, SettledInOrder, TableSays, MemorySays, RequestsSay, PlanSaid, RowSaid,
            Busy, Between, Applied

\* What the predicates are built from, as long as the provider's list stays.
LEMMA SameEvents ==
    ASSUME UNCHANGED <<events, unacked>>
    PROVE  /\ \A u, n : Current(u, n)' <=> Current(u, n)
           /\ \A n : PlanSaid(n)' = PlanSaid(n) /\ RowSaid(n)' = RowSaid(n)
           /\ \A n : UserOf(n)' = UserOf(n)
           /\ SettledInOrder' <=> SettledInOrder
BY DEF Current, EventsOf, UserOf, PlanSaid, RowSaid, RowFor, SettledInOrder

\* A step of requests that changes no store, or the end of them all.
LEMMA QuietOrder ==
    ASSUME OrderInv, UNCHANGED <<events, unacked, table>>,
           up' => up /\ assigned' = assigned,
           \A g \in Handlers :
               \/ ~Busy(g)'
               \/ /\ Busy(g) /\ req'[g] = req[g] /\ assigned' = assigned
                  /\ pc'[g] \in Between \cup Applied => pc[g] \in Between \cup Applied
                  /\ pc'[g] \in Applied => pc[g] \in Applied
    PROVE  OrderInv'
<1>1. SettledInOrder' /\ TableSays'
    BY SameEvents DEF OrderInv, TableSays
<1>2. MemorySays'
    BY SameEvents DEF OrderInv, MemorySays
<1>3. ASSUME NEW g \in Handlers
      PROVE  /\ Busy(g)' => Current(UserOf(req[g]), req[g])'
             /\ pc'[g] \in Between \cup Applied =>
                    table'[events'[req'[g]].sub] = RowFor(events[req[g]])'
             /\ pc'[g] \in Applied => assigned'[UserOf(req[g])'] = PlanSaid(req[g])'
    <2>1. CASE ~Busy(g)'
        BY <2>1 DEF Busy, Between, Applied
    <2>2. CASE Busy(g)'
        BY <2>2, SameEvents DEF OrderInv, RequestsSay, UserOf, RowFor, PlanSaid
    <2> QED BY <2>1, <2>2
<1> QED BY <1>1, <1>2, <1>3 DEF OrderInv, RequestsSay

\* A new event leaves what the earlier ones say, and which is current.
LEMMA EmitCurrent ==
    ASSUME TypeOK, Emit
    PROVE  \A u, n : Current(u, n) => /\ Current(u, n)'
                                   /\ PlanSaid(n)' = PlanSaid(n) /\ RowSaid(n)' = RowSaid(n)
<1> DEFINE new == Len(events) + 1
<1>1. /\ Len(events) \in Nat /\ DOMAIN events = 1..Len(events)
      /\ DOMAIN events' = 1..new
      /\ \A n \in 1..Len(events) : events'[n] = events[n]
      /\ unacked' = unacked \cup {new} /\ unacked \subseteq 1..Len(events)
      /\ UNCHANGED <<table, up, assigned, pc, req>>
    BY DEF Emit, TypeOK, local
<1>2. \A n \in 1..Len(events) : /\ UserOf(n)' = UserOf(n) /\ PlanSaid(n)' = PlanSaid(n)
                               /\ RowSaid(n)' = RowSaid(n)
    BY <1>1 DEF UserOf, PlanSaid, RowSaid, RowFor
<1>3. PlanSaid(0)' = PlanSaid(0) /\ RowSaid(0)' = RowSaid(0)
    BY DEF PlanSaid, RowSaid
<1>4. \A u : /\ EventsOf(u) \subseteq EventsOf(u)'
             /\ EventsOf(u)' \subseteq EventsOf(u) \cup {new}
             /\ EventsOf(u) \subseteq 1..Len(events)
    BY <1>1, <1>2 DEF EventsOf
<1>5. ASSUME NEW u, NEW n, Current(u, n)
      PROVE  Current(u, n)'
    <2>1. n \in {0} \cup EventsOf(u)' /\ n \in 0..Len(events)
        BY <1>1, <1>4, <1>5 DEF Current
    <2>2. ASSUME NEW m \in EventsOf(u)'
          PROVE  (m < n => m \notin unacked') /\ (m > n => m \in unacked')
        <3>1. CASE m = new
            BY <1>1, <2>1, <3>1
        <3>2. CASE m \in EventsOf(u)
            BY <1>1, <1>4, <1>5, <3>2 DEF Current
        <3> QED BY <1>4, <3>1, <3>2
    <2> QED BY <2>1, <2>2 DEF Current
<1>6. \A u, n : Current(u, n) => /\ PlanSaid(n)' = PlanSaid(n)
                                 /\ RowSaid(n)' = RowSaid(n)
    BY <1>2, <1>3, <1>4 DEF Current
<1> QED BY <1>5, <1>6

LEMMA EmitOrder ==
    ASSUME TypeOK, OrderInv, Emit
    PROVE  OrderInv'
<1> DEFINE new == Len(events) + 1
<1>1. /\ Len(events) \in Nat /\ DOMAIN events = 1..Len(events)
      /\ DOMAIN events' = 1..new
      /\ \A n \in 1..Len(events) : events'[n] = events[n]
      /\ unacked' = unacked \cup {new} /\ unacked \subseteq 1..Len(events)
      /\ UNCHANGED <<table, up, assigned, pc, req>>
    BY DEF Emit, TypeOK, local
<1>2. \A n \in 1..Len(events) : /\ UserOf(n)' = UserOf(n) /\ PlanSaid(n)' = PlanSaid(n)
                               /\ RowSaid(n)' = RowSaid(n)
    BY <1>1 DEF UserOf, PlanSaid, RowSaid, RowFor
<1>3. PlanSaid(0)' = PlanSaid(0) /\ RowSaid(0)' = RowSaid(0)
    BY DEF PlanSaid, RowSaid
<1>4. \A u : /\ EventsOf(u) \subseteq EventsOf(u)'
             /\ EventsOf(u)' \subseteq EventsOf(u) \cup {new}
             /\ EventsOf(u) \subseteq 1..Len(events)
    BY <1>1, <1>2 DEF EventsOf
<1>7. TableSays' /\ MemorySays'
    BY <1>1, EmitCurrent DEF OrderInv, TableSays, MemorySays
<1>8. SettledInOrder'
    <2> SUFFICES ASSUME NEW u \in Users, NEW m \in EventsOf(u)', NEW n \in EventsOf(u)',
                        m < n, m \in unacked'
                 PROVE  n \in unacked'
        BY DEF SettledInOrder
    <2>1. CASE n = new
        BY <1>1, <2>1
    <2>2. CASE n # new
        <3>1. n \in EventsOf(u) /\ n \in 1..Len(events)
            BY <1>4, <2>2
        <3>2. m # new
            BY <1>1, <3>1
        <3>3. m \in EventsOf(u) /\ m \in unacked
            BY <1>1, <1>4, <3>2
        <3> QED BY <1>1, <3>1, <3>3 DEF OrderInv, SettledInOrder
    <2> QED BY <2>1, <2>2
<1>9. RequestsSay'
    <2>1. \A h \in Handlers : Busy(h) => req[h] \in 1..Len(events)
        BY <1>1, BusyRequest
    <2>2. \A h \in Handlers : Busy(h)' <=> Busy(h)
        BY <1>1 DEF Busy
    <2>3. \A n \in 1..Len(events) : RowFor(events[n])' = RowFor(events[n])
        BY <1>1 DEF RowFor
    <2>4. \A h \in Handlers : pc[h] \in Between \cup Applied => Busy(h)
        BY DEF Busy, Between, Applied
    <2> QED BY <1>1, <1>2, EmitCurrent, <2>1, <2>2, <2>3, <2>4 DEF OrderInv, RequestsSay, Busy
<1> QED BY <1>7, <1>8, <1>9 DEF OrderInv

LEMMA DeliverOrder ==
    ASSUME OrderedUse, TypeOK, OrderInv, NEW h \in Handlers, NEW n \in Nat, Deliver(h, n)
    PROVE  OrderInv'
<1>1. /\ n \in unacked /\ \A m \in unacked : UserOf(m) = UserOf(n) => n <= m
      /\ UNCHANGED <<events, unacked, table, up, assigned>>
    BY DEF Deliver, MayDeliver, OrderedUse, provider
<1>2. /\ pc'[h] = "received" /\ req'[h] = n
      /\ \A g \in Handlers \ {h} : pc'[g] = pc[g] /\ req'[g] = req[g]
    BY DEF Deliver, Goes, TypeOK
<1>3. n \in EventsOf(UserOf(n)) /\ UserOf(n) \in Users
    BY <1>1, EventTypes DEF EventsOf, TypeOK
<1>4. Current(UserOf(n), n)
    <2> SUFFICES ASSUME NEW m \in EventsOf(UserOf(n))
                 PROVE  (m < n => m \notin unacked) /\ (m > n => m \in unacked)
        BY <1>3 DEF Current
    <2>1. m \in Nat /\ UserOf(m) = UserOf(n)
        BY EventNumbers DEF EventsOf
    <2> QED BY <1>1, <1>3, <2>1 DEF OrderInv, SettledInOrder
<1>5. SettledInOrder' /\ TableSays' /\ MemorySays'
    BY <1>1, SameEvents DEF OrderInv, TableSays, MemorySays
<1>6. ASSUME NEW g \in Handlers
      PROVE  /\ Busy(g)' => Current(UserOf(req[g]), req[g])'
             /\ pc'[g] \in Between \cup Applied =>
                    table'[events'[req'[g]].sub] = RowFor(events[req[g]])'
             /\ pc'[g] \in Applied => assigned'[UserOf(req[g])'] = PlanSaid(req[g])'
    <2>1. CASE g = h
        <3>1. Current(UserOf(req[g]), req[g])'
            BY <1>1, <1>2, <1>4, <2>1, SameEvents DEF UserOf
        <3> QED BY <1>2, <2>1, <3>1 DEF Between, Applied
    <2>2. CASE g # h
        BY <1>1, <1>2, <2>2, SameEvents
           DEF OrderInv, RequestsSay, UserOf, RowFor, PlanSaid, Busy
    <2> QED BY <2>1, <2>2
<1> QED BY <1>5, <1>6 DEF OrderInv, RequestsSay

\* Other requests are about other users, and so about other subscriptions.
LEMMA OtherRequests ==
    ASSUME SerialUse, IInv, NEW g \in Handlers, NEW h \in Handlers, g # h, Busy(g), Busy(h)
    PROVE  /\ UserOf(req[g]) # UserOf(req[h])
           /\ events[req[g]].sub # events[req[h]].sub
BY RequestSub DEF IInv, Linked, OnePerUser

LEMMA WriteOrder ==
    ASSUME OrderedUse, IInv, OrderInv, NEW h \in Handlers, Store(h) \/ StoredButFails(h)
    PROVE  OrderInv'
<1> DEFINE sub == events[req[h]].sub
<1>1. /\ pc[h] = "priced" /\ table' = Upsert(table, sub, RowFor(events[req[h]]))
      /\ UNCHANGED <<events, unacked, up, assigned>>
      /\ \A g \in Handlers \ {h} : pc'[g] = pc[g] /\ req'[g] = req[g]
      /\ pc'[h] = "idle" \/ (pc'[h] = "stored" /\ req'[h] = req[h])
    BY DEF Store, StoredButFails, Ends, Goes, IInv, TypeOK, provider, local
<1>2. /\ Busy(h) /\ sub \in Subs /\ Owner[sub] = UserOf(req[h])
      /\ req[h] \in DOMAIN events
    BY <1>1, RequestSub DEF IInv, Busy
<1>3. req[h] # 0 /\ Current(Owner[sub], req[h])
    BY <1>2 DEF OrderInv, RequestsSay, IInv, TypeOK
<1>4. /\ table'[sub] = RowSaid(req[h])
      /\ \A s \in Subs \ {sub} : table'[s] = table[s]
    BY <1>1, <1>2, <1>3 DEF IInv, TypeOK, Tables, Upsert, RowSaid
<1>5. SettledInOrder' /\ MemorySays'
    BY <1>1, SameEvents DEF OrderInv, MemorySays
<1>6. TableSays'
    <2> SUFFICES ASSUME NEW s \in Subs
                 PROVE  \E n : Current(Owner[s], n) /\ table'[s] = RowSaid(n)
        BY <1>1, SameEvents DEF TableSays
    <2>1. CASE s = sub
        BY <1>3, <1>4, <2>1
    <2>2. CASE s # sub
        BY <1>4, <2>2 DEF OrderInv, TableSays
    <2> QED BY <2>1, <2>2
<1>7. ASSUME NEW g \in Handlers
      PROVE  /\ Busy(g)' => Current(UserOf(req[g]), req[g])'
             /\ pc'[g] \in Between \cup Applied =>
                    table'[events'[req'[g]].sub] = RowFor(events[req[g]])'
             /\ pc'[g] \in Applied => assigned'[UserOf(req[g])'] = PlanSaid(req[g])'
    <2>1. CASE g = h
        <3>1. CASE pc'[h] = "idle"
            BY <2>1, <3>1 DEF Busy, Between, Applied
        <3>2. CASE pc'[h] = "stored" /\ req'[h] = req[h]
            <4>1. Current(UserOf(req[g]), req[g])'
                BY <1>1, <1>2, <1>3, <2>1, <3>2, SameEvents DEF UserOf
            <4>2. table'[events'[req'[g]].sub] = RowFor(events[req[g]])'
                BY <1>1, <1>3, <1>4, <2>1, <3>2 DEF RowSaid, RowFor
            <4> QED BY <2>1, <3>2, <4>1, <4>2 DEF Applied
        <3> QED BY <1>1, <3>1, <3>2
    <2>2. CASE g # h
        <3>1. Busy(g)' => /\ Busy(g) /\ events[req[g]].sub \in Subs \ {sub}
                          /\ req'[g] = req[g]
            BY <1>1, <1>2, <2>2, OtherRequests, RequestSub DEF Busy, OrderedUse, IInv
        <3>2. pc'[g] \in Between \cup Applied => Busy(g)'
            BY DEF Busy, Between, Applied
        <3>3. Busy(g)' => Current(UserOf(req[g]), req[g])'
            BY <1>1, <3>1, SameEvents DEF OrderInv, RequestsSay, UserOf
        <3>4. ASSUME pc'[g] \in Between \cup Applied
              PROVE  table'[events'[req'[g]].sub] = RowFor(events[req[g]])'
            <4>1. /\ pc'[g] = pc[g] /\ req'[g] = req[g] /\ events' = events
                  /\ events[req[g]].sub \in Subs \ {sub}
                BY <1>1, <2>2, <3>1, <3>2, <3>4
            <4>2. table[events[req[g]].sub] = RowFor(events[req[g]])
                BY <3>4, <4>1 DEF OrderInv, RequestsSay
            <4>3. table'[events[req[g]].sub] = table[events[req[g]].sub]
                BY <1>4, <4>1
            <4> QED BY <4>1, <4>2, <4>3 DEF RowFor
        <3>5. pc'[g] \in Applied => assigned'[UserOf(req[g])'] = PlanSaid(req[g])'
            BY <1>1, <2>2, <3>1, <3>2 DEF OrderInv, RequestsSay, UserOf, PlanSaid
        <3> QED BY <3>3, <3>4, <3>5
    <2> QED BY <2>1, <2>2
<1> QED BY <1>5, <1>6, <1>7 DEF OrderInv, RequestsSay

\* Apply gives the user what the event says, and nobody else anything.
LEMMA ApplyAssigns ==
    ASSUME SerialUse, TypeOK, NEW h \in Handlers, Apply(h)
    PROVE  /\ assigned'[UserOf(req[h])] = PlanSaid(req[h])
           /\ \A v \in Users \ {UserOf(req[h])} : assigned'[v] = assigned[v]
<1> DEFINE event == events[req[h]]
<1>1. /\ Busy(h) /\ req[h] # 0
      /\ assigned' = Changed(UserOf(req[h]), event.product, IsActive(event.status))
    BY DEF Apply, Goes, Busy, TypeOK, UserOf
<1>2. /\ UserOf(req[h]) \in Users /\ UserOf(req[h]) # NoUser
      /\ event.product # NoProduct
    BY <1>1, RequestSub DEF SerialUse
<1> QED BY <1>1, <1>2 DEF Changed, PlanSaid

LEMMA ApplyOrder ==
    ASSUME OrderedUse, IInv, OrderInv, NEW h \in Handlers, Apply(h)
    PROVE  OrderInv'
<1> DEFINE user == UserOf(req[h])
<1>1. /\ pc[h] = "asked" /\ pc'[h] = "applied"
      /\ \A g \in Handlers \ {h} : pc'[g] = pc[g]
      /\ UNCHANGED <<events, unacked, table, up, req>>
    BY DEF Apply, Goes, IInv, TypeOK, provider, local
<1>2. Busy(h) /\ Current(user, req[h])
    BY <1>1 DEF OrderInv, RequestsSay, Busy
<1>3. /\ assigned'[user] = PlanSaid(req[h])
      /\ \A v \in Users \ {user} : assigned'[v] = assigned[v]
    BY ApplyAssigns DEF OrderedUse, IInv
<1>4. SettledInOrder' /\ TableSays'
    BY <1>1, SameEvents DEF OrderInv, TableSays
<1>5. MemorySays'
    <2> SUFFICES ASSUME up, NEW u \in Users
                 PROVE  \E n : Current(u, n) /\ assigned'[u] = PlanSaid(n)
        BY <1>1, SameEvents DEF MemorySays
    <2>1. CASE u = user
        BY <1>2, <1>3, <2>1
    <2>2. CASE u # user
        BY <1>3, <2>2 DEF OrderInv, MemorySays
    <2> QED BY <2>1, <2>2
<1>6. ASSUME NEW g \in Handlers
      PROVE  /\ Busy(g)' => Current(UserOf(req[g]), req[g])'
             /\ pc'[g] \in Between \cup Applied =>
                    table'[events'[req'[g]].sub] = RowFor(events[req[g]])'
             /\ pc'[g] \in Applied => assigned'[UserOf(req[g])'] = PlanSaid(req[g])'
    <2>1. Busy(g)' => Busy(g)
        BY <1>1 DEF Busy
    <2>2. pc'[g] \in Between \cup Applied => pc[g] \in Between \cup Applied
        BY <1>1 DEF Between
    <2>3. pc'[g] \in Applied => assigned'[UserOf(req[g])] = PlanSaid(req[g])
        <3>1. CASE g = h
            BY <1>3, <3>1
        <3>2. CASE g # h /\ pc'[g] \in Applied
            <4>1. Busy(g) /\ pc[g] \in Applied
                BY <1>1, <3>2 DEF Busy, Applied
            <4>2. UserOf(req[g]) \in Users \ {user}
                BY <1>2, <3>2, <4>1, OtherRequests, RequestSub DEF OrderedUse, IInv
            <4> QED BY <1>3, <4>1, <4>2 DEF OrderInv, RequestsSay
        <3> QED BY <3>1, <3>2
    <2> QED BY <1>1, <2>1, <2>2, <2>3, SameEvents
            DEF OrderInv, RequestsSay, UserOf, RowFor, PlanSaid
<1> QED BY <1>4, <1>5, <1>6 DEF OrderInv, RequestsSay

\* The answer to a request settles its event, which stays the current one.
LEMMA AcknowledgeCurrent ==
    ASSUME IInv, OrderInv, NEW h \in Handlers, Acknowledge(h),
           NEW last, last = req[h], NEW user, user = UserOf(req[h])
    PROVE  /\ Busy(h) /\ user \in Users /\ last # 0
           /\ events[last].sub \in Subs /\ Owner[events[last].sub] = user
           /\ table[events[last].sub] = RowSaid(last) /\ assigned[user] = PlanSaid(last)
           /\ Current(user, last) /\ Current(user, last)'
           /\ \A u, n : u # user /\ Current(u, n) => Current(u, n)'
           /\ \A n : PlanSaid(n)' = PlanSaid(n) /\ RowSaid(n)' = RowSaid(n)
           /\ UNCHANGED <<events, table, up, assigned>>
<1>1. /\ pc[h] = "notifying" /\ pc'[h] = "idle"
      /\ \A g \in Handlers \ {h} : pc'[g] = pc[g] /\ req'[g] = req[g]
      /\ unacked' = unacked \ {last}
      /\ UNCHANGED <<events, table, up, assigned>>
    BY DEF Acknowledge, Ends, Goes, IInv, TypeOK
<1>2. /\ Busy(h) /\ Current(user, last) /\ last # 0
      /\ table[events[last].sub] = RowSaid(last) /\ assigned[user] = PlanSaid(last)
      /\ user \in Users /\ events[last].sub \in Subs /\ Owner[events[last].sub] = user
    BY <1>1, RequestSub
       DEF OrderInv, RequestsSay, Busy, Applied, RowSaid, IInv, TypeOK
<1>3. /\ \A u : EventsOf(u)' = EventsOf(u)
      /\ \A n : UserOf(n)' = UserOf(n) /\ PlanSaid(n)' = PlanSaid(n)
                /\ RowSaid(n)' = RowSaid(n) /\ RowFor(events[n])' = RowFor(events[n])
    BY <1>1 DEF EventsOf, UserOf, PlanSaid, RowSaid, RowFor
<1>4. \A u : u # user => last \notin EventsOf(u)
    BY DEF EventsOf
<1>5. \A u : EventsOf(u) \subseteq Nat
    BY EventNumbers DEF IInv
<1>6. Current(user, last)'
    <2>1. last \in EventsOf(user) /\ last \in Nat
        BY <1>2, <1>5 DEF Current
    <2> QED BY <1>1, <1>2, <1>3, <1>5, <2>1 DEF Current
<1>7. \A u, n : u # user /\ Current(u, n) => Current(u, n)'
    BY <1>1, <1>3, <1>4 DEF Current
<1> QED BY <1>1, <1>2, <1>3, <1>6, <1>7

LEMMA AcknowledgeOrder ==
    ASSUME OrderedUse, IInv, OrderInv, NEW h \in Handlers, Acknowledge(h)
    PROVE  OrderInv'
<1> SUFFICES ASSUME NEW last, last = req[h], NEW user, user = UserOf(req[h])
             PROVE  OrderInv'
    OBVIOUS
<1>1. /\ pc[h] = "notifying" /\ pc'[h] = "idle"
      /\ \A g \in Handlers \ {h} : pc'[g] = pc[g] /\ req'[g] = req[g]
      /\ unacked' = unacked \ {last}
      /\ UNCHANGED <<events, table, up, assigned>>
    BY DEF Acknowledge, Ends, Goes, IInv, TypeOK
<1>2. /\ Busy(h) /\ Current(user, last) /\ last # 0
      /\ table[events[last].sub] = RowSaid(last) /\ assigned[user] = PlanSaid(last)
      /\ user \in Users /\ events[last].sub \in Subs /\ Owner[events[last].sub] = user
    BY AcknowledgeCurrent
<1>3. /\ \A u : EventsOf(u)' = EventsOf(u)
      /\ \A n : UserOf(n)' = UserOf(n) /\ PlanSaid(n)' = PlanSaid(n)
                /\ RowSaid(n)' = RowSaid(n) /\ RowFor(events[n])' = RowFor(events[n])
    BY <1>1 DEF EventsOf, UserOf, PlanSaid, RowSaid, RowFor
<1>4. \A u : u # user => last \notin EventsOf(u)
    BY DEF EventsOf
<1>6. Current(user, last)' /\ \A u, n : u # user /\ Current(u, n) => Current(u, n)'
    BY AcknowledgeCurrent
<1>8. SettledInOrder'
    <2> SUFFICES ASSUME NEW u \in Users, NEW m \in EventsOf(u), NEW n \in EventsOf(u),
                        m < n, m \in unacked, m # last
                 PROVE  n \in unacked \ {last}
        BY <1>1, <1>3 DEF SettledInOrder
    <2>1. n \in unacked
        BY DEF OrderInv, SettledInOrder
    <2>2. ASSUME n = last PROVE FALSE
        <3>1. u = user
            BY <1>4, <2>2
        <3> QED BY <1>2, <2>2, <3>1 DEF Current
    <2> QED BY <2>1, <2>2
<1>9. TableSays'
    <2> SUFFICES ASSUME NEW s \in Subs
                 PROVE  \E n : Current(Owner[s], n)' /\ table[s] = RowSaid(n)
        BY <1>1, <1>3 DEF TableSays
    <2>1. CASE Owner[s] = user
        <3>1. s = events[last].sub
            BY <1>2, <2>1 DEF OrderedUse, SerialUse
        <3> QED BY <1>2, <1>6, <2>1, <3>1
    <2>2. CASE Owner[s] # user
        BY <1>6, <2>2 DEF OrderInv, TableSays
    <2> QED BY <2>1, <2>2
<1>10. MemorySays'
    <2> SUFFICES ASSUME up, NEW u \in Users
                 PROVE  \E n : Current(u, n)' /\ assigned[u] = PlanSaid(n)
        BY <1>1, <1>3 DEF MemorySays
    <2> QED BY <1>2, <1>6 DEF OrderInv, MemorySays
<1>11. RequestsSay'
    <2> SUFFICES ASSUME NEW g \in Handlers, Busy(g)'
                 PROVE  /\ Current(UserOf(req[g]), req[g])'
                        /\ pc'[g] \in Between \cup Applied =>
                               table'[events'[req'[g]].sub] = RowFor(events[req[g]])'
                        /\ pc'[g] \in Applied =>
                               assigned'[UserOf(req[g])'] = PlanSaid(req[g])'
        BY DEF RequestsSay, Busy, Between, Applied
    <2>1. g # h /\ Busy(g) /\ pc'[g] = pc[g] /\ req'[g] = req[g]
        BY <1>1 DEF Busy
    <2>2. UserOf(req[g]) # user
        BY <1>2, <2>1, OtherRequests DEF OrderedUse
    <2>3. Current(UserOf(req[g]), req[g])'
        BY <1>1, <1>3, <1>6, <2>1, <2>2 DEF OrderInv, RequestsSay, UserOf
    <2> QED BY <1>1, <2>1, <2>3 DEF OrderInv, RequestsSay, UserOf, PlanSaid, RowFor
<1> QED BY <1>8, <1>9, <1>10, <1>11 DEF OrderInv

\* What the table says of a user is what a restart loads.
LEMMA LoadedIsSaid ==
    ASSUME OrderedUse, IInv, NEW u \in Users, NEW plan \in LoadedPlans(table, u),
           NEW n, Current(u, n), \A s \in Subs : Owner[s] = u => table[s] = RowSaid(n)
    PROVE  plan = PlanSaid(n)
<1>1. CASE \E s \in Subs : Owner[s] = u
    <2>1. PICK s \in Subs : Owner[s] = u
        BY <1>1
    <2>2. Current(u, n) /\ table[s] = RowSaid(n)
        BY <2>1
    <2>3. RowsOf(table, u) \subseteq {s}
        BY <2>1 DEF RowsOf, IInv, Linked, RowsOwned, OrderedUse, SerialUse
    <2>4. CASE n = 0
        <3>1. RowsOf(table, u) = {}
            BY <2>2, <2>3, <2>4 DEF RowSaid, RowsOf
        <3>2. ActiveUserSubscriptions(table, u) = {}
            BY <3>1 DEF ActiveUserSubscriptions, Newest, GrantingRows
        <3> QED BY <2>2, <2>4, <3>2 DEF LoadedPlans, PlanSaid
    <2>5. CASE n # 0
        <3>1. n \in DOMAIN events /\ UserOf(n) = u
            BY <2>2, <2>5 DEF Current, EventsOf
        <3>2. table[s] = RowFor(events[n]) /\ RowFor(events[n]) \in Rows
            BY <2>2, <2>5, <3>1, EventTypes DEF RowSaid, IInv
        <3>3. /\ table[s] # NoRow /\ table[s].user = u
              /\ table[s].status = events[n].status /\ table[s].product = events[n].product
            BY <3>1, <3>2, StoreAssumption DEF RowFor, UserOf
        <3>4. RowsOf(table, u) = {s}
            BY <2>3, <3>3 DEF RowsOf
        <3>5. CASE IsActive(events[n].status)
            <4>1. GrantingRows(table, u) = {s}
                BY <3>3, <3>4, <3>5 DEF GrantingRows, IsActive
            <4>2. ActiveUserSubscriptions(table, u) \subseteq {s}
                BY <4>1 DEF ActiveUserSubscriptions, Newest
            <4>3. table[s].updated \in Nat
                BY <3>2 DEF Rows
            <4>4. ActiveUserSubscriptions(table, u) = {s}
                BY <4>1, <4>2, <4>3 DEF ActiveUserSubscriptions, Newest
            <4> QED BY <2>2, <2>5, <3>3, <3>5, <4>4 DEF LoadedPlans, PlanSaid
        <3>6. CASE ~IsActive(events[n].status)
            <4>1. GrantingRows(table, u) = {}
                BY <3>3, <3>4, <3>6 DEF GrantingRows, IsActive
            <4>2. ActiveUserSubscriptions(table, u) = {}
                BY <4>1 DEF ActiveUserSubscriptions, Newest
            <4> QED BY <2>2, <2>5, <3>6, <4>2 DEF LoadedPlans, PlanSaid
        <3> QED BY <3>5, <3>6
    <2> QED BY <2>4, <2>5
<1>2. CASE ~ \E s \in Subs : Owner[s] = u
    <2>1. RowsOf(table, u) = {}
        BY <1>2 DEF RowsOf, IInv, Linked, RowsOwned
    <2>2. ActiveUserSubscriptions(table, u) = {}
        BY <2>1 DEF ActiveUserSubscriptions, Newest, GrantingRows
    <2>3. EventsOf(u) = {}
        BY <1>2, EventTypes DEF EventsOf, UserOf, IInv
    <2> QED BY <2>2, <2>3 DEF Current, LoadedPlans, PlanSaid
<1> QED BY <1>1, <1>2

LEMMA RestartOrder ==
    ASSUME OrderedUse, IInv, OrderInv, Restart
    PROVE  OrderInv'
<1>1. /\ ~up /\ UNCHANGED <<events, unacked, table, pc, req>>
      /\ \A u \in Users : assigned'[u] \in LoadedPlans(table, u)
    BY DEF Restart, provider, local
<1>2. \A h \in Handlers : ~Busy(h) /\ pc'[h] = "idle"
    BY <1>1 DEF IInv, Linked, OnePerUser, Busy
<1>3. SettledInOrder' /\ TableSays'
    BY <1>1, SameEvents DEF OrderInv, TableSays
<1>4. MemorySays'
    <2> SUFFICES ASSUME NEW u \in Users
                 PROVE  \E n : Current(u, n) /\ assigned'[u] = PlanSaid(n)
        BY <1>1, SameEvents DEF MemorySays
    <2>1. CASE \E s \in Subs : Owner[s] = u
        <3>1. PICK s \in Subs : Owner[s] = u
            BY <2>1
        <3>2. PICK n : Current(u, n) /\ table[s] = RowSaid(n)
            BY <3>1 DEF OrderInv, TableSays
        <3>3. \A t \in Subs : Owner[t] = u => table[t] = RowSaid(n)
            BY <3>1, <3>2 DEF OrderedUse, SerialUse
        <3> QED BY <1>1, <3>2, <3>3, LoadedIsSaid
    <2>2. CASE ~ \E s \in Subs : Owner[s] = u
        <3>1. EventsOf(u) = {}
            BY <2>2, EventTypes DEF EventsOf, UserOf, IInv
        <3>2. Current(u, 0)
            BY <3>1 DEF Current
        <3> QED BY <1>1, <2>2, <3>2, LoadedIsSaid
    <2> QED BY <2>1, <2>2
<1>5. RequestsSay'
    BY <1>2 DEF RequestsSay, Busy, Between, Applied
<1> QED BY <1>3, <1>4, <1>5 DEF OrderInv

LEMMA StepsKeepOrder ==
    ASSUME OrderedUse
    PROVE  IInv /\ OrderInv /\ [Next]_vars => OrderInv'
<1> SUFFICES ASSUME IInv, OrderInv, [Next]_vars PROVE OrderInv'
    OBVIOUS
<1> DEFINE Kept(g) == \/ ~Busy(g)'
                      \/ /\ Busy(g) /\ req'[g] = req[g] /\ assigned' = assigned
                         /\ pc'[g] \in Between \cup Applied => pc[g] \in Between \cup Applied
                         /\ pc'[g] \in Applied => pc[g] \in Applied
<1>1. CASE UNCHANGED vars \/ AllSettled
    <2>1. UNCHANGED <<events, unacked, table, up, assigned, pc, req>>
        BY <1>1 DEF AllSettled, vars, provider, local
    <2>2. \A g \in Handlers : Kept(g)
        BY <2>1 DEF Busy
    <2>3. up' => up /\ assigned' = assigned
        BY <2>1
    <2> QED BY <2>1, <2>2, <2>3, QuietOrder
<1>2. CASE Emit
    BY <1>2, EmitOrder DEF IInv
<1>3. ASSUME NEW n \in 1..MaxEvents, DeliverSome(n) PROVE OrderInv'
    <2>1. n \in Nat
        BY IntakeAssumption
    <2> QED BY <1>3, <2>1, DeliverOrder DEF DeliverSome, IInv
<1>4. ASSUME NEW h \in Handlers, Step(h) PROVE OrderInv'
    <2>1. ~Reject(h)
        <3>1. Reject(h) => Busy(h)
            BY DEF Reject, Ends, Goes, Busy
        <3>2. Busy(h) => events[req[h]] \in Event
            BY RequestSub, EventTypes DEF IInv
        <3> QED BY <3>1, <3>2 DEF Reject, Event, OrderedUse
    <2>2. CASE FetchPrice(h) \/ ReadPrevPlan(h) \/ ReadActivePlan(h) \/ Enqueue(h)
        <3>1. UNCHANGED <<events, unacked, table, up, assigned, req>>
            BY <2>2 DEF FetchPrice, ReadPrevPlan, ReadActivePlan, Enqueue, provider, local
        <3>2. /\ \A g \in Handlers \ {h} : pc'[g] = pc[g]
              /\ \/ pc[h] = "received" /\ pc'[h] = "priced"
                 \/ pc[h] = "stored" /\ pc'[h] = "asked"
                 \/ pc[h] \in {"applied", "notifying"} /\ pc'[h] = "notifying"
            BY <2>2 DEF FetchPrice, ReadPrevPlan, ReadActivePlan, Enqueue, Goes, IInv, TypeOK
        <3>3. ASSUME NEW g \in Handlers PROVE Kept(g)
            <4>1. CASE g = h
                BY <3>1, <3>2, <4>1 DEF Busy, Between, Applied
            <4>2. CASE g # h
                BY <3>1, <3>2, <4>2 DEF Busy
            <4> QED BY <4>1, <4>2
        <3>4. up' => up /\ assigned' = assigned
            BY <3>1
        <3> HIDE DEF Kept
        <3>5. \A g \in Handlers : Kept(g)
            BY <3>3
        <3> USE DEF Kept
        <3> QED BY <3>1, <3>4, <3>5, QuietOrder
    <2>3. CASE StoreConflicts(h)
        <3>1. UNCHANGED <<events, unacked, table, up, assigned>>
            BY <2>3 DEF StoreConflicts, Fails, provider
        <3>2. Ends(h, "priced")
            BY <2>3 DEF StoreConflicts, Fails
        <3>3. \A g \in Handlers : Kept(g)
            BY <3>1, <3>2 DEF Ends, Goes, Busy, IInv, TypeOK
        <3>4. up' => up /\ assigned' = assigned
            BY <3>1
        <3> QED BY <3>1, <3>3, <3>4, QuietOrder
    <2> QED BY <1>4, <2>1, <2>2, <2>3, WriteOrder, ApplyOrder, AcknowledgeOrder DEF Step
<1>5. ASSUME NEW h \in Handlers, HandlerFault(h) PROVE OrderInv'
    <2>1. CASE StoredButFails(h)
        BY <2>1, WriteOrder
    <2>2. CASE ~StoredButFails(h)
        <3>1. PICK from : Ends(h, from) /\ UNCHANGED <<events, unacked, table, up, assigned>>
            BY <1>5, <2>2 DEF HandlerFault, PriceFails, StoreFails, EnqueueFails, AnswerLost,
                             Fails, provider
        <3>2. \A g \in Handlers : Kept(g)
            BY <3>1 DEF Ends, Goes, Busy, IInv, TypeOK
        <3> QED BY <3>1, <3>2, QuietOrder
    <2> QED BY <2>1, <2>2
<1>6. CASE Crash
    <2>1. UNCHANGED <<events, unacked, table>> /\ ~up' /\ \A g \in Handlers : ~Busy(g)'
        BY <1>6 DEF Crash, provider, Busy
    <2> QED BY <2>1, QuietOrder
<1>7. CASE Restart
    BY <1>7, RestartOrder
<1> QED BY <1>1, <1>2, <1>3, <1>4, <1>5, <1>6, <1>7 DEF Next

LEMMA LastIsFollowed == IInv /\ OrderInv => EntitlementsFollowProvider
<1> SUFFICES ASSUME IInv, OrderInv, NEW u \in Users, Settled(u)
             PROVE  assigned[u] = ProviderPlan(u)
    BY DEF EntitlementsFollowProvider
<1>1. PICK n : Current(u, n) /\ assigned[u] = PlanSaid(n)
    BY DEF Settled, OrderInv, MemorySays
<1>2. \A m \in EventsOf(u) : m \notin unacked /\ m \in Nat /\ m > 0
    BY EventNumbers DEF Settled, EventsOf, IInv
<1>3. n \in {0} \cup EventsOf(u) /\ \A m \in EventsOf(u) : m <= n
    BY <1>1, <1>2 DEF Current
<1>4. CASE EventsOf(u) = {}
    BY <1>1, <1>3, <1>4 DEF ProviderPlan, PlanSaid
<1>5. CASE EventsOf(u) # {}
    <2>1. n \in EventsOf(u) /\ n # 0
        BY <1>2, <1>3, <1>5
    <2>2. \A k \in EventsOf(u) : (\A m \in EventsOf(u) : m <= k) => k = n
        BY <1>2, <1>3, <2>1
    <2>3. n = CHOOSE k \in EventsOf(u) : \A m \in EventsOf(u) : m <= k
        BY <1>3, <2>1, <2>2
    <2> QED BY <1>1, <1>5, <2>1, <2>3 DEF ProviderPlan, PlanSaid
<1> QED BY <1>4, <1>5

\* Once the provider has nothing outstanding for a user, the user is on the
\* plan of its last event, whatever failed or crashed on the way, if events
\* of a user come in order and one at a time.
THEOREM ProviderIsFollowed ==
    ASSUME OrderedUse
    PROVE  Spec => []EntitlementsFollowProvider
<1>1. IInv /\ [Next]_vars => IInv'
    BY StepsKeepIInv DEF OrderedUse
<1>2. IInv /\ OrderInv /\ [Next]_vars => OrderInv'
    BY StepsKeepOrder
<1> QED BY <1>1, <1>2, InitIInv, InitOrder, LastIsFollowed, PTL DEF Spec

-----------------------------------------------------------------------------
(* The last message of every endpoint. A user with nothing outstanding has  *)
(* been told of the plan that a restart would load; a request that is       *)
(* telling is telling of the plan the user is on.                           *)

WellFormedUse == SerialUse /\ Shapes = {"ok"}

Effective(plan) == IF plan = NoPlan THEN DefaultPlan ELSE plan

\* The last message of each of the first n endpoints names the plan.
Informed(u, n, plan) ==
    \A e \in 1..n : told[u][e] # Nothing /\ told[u][e].active = plan

TellingIsCurrent ==
    \A h \in Handlers : pc[h] = "notifying" =>
        /\ active[h] = UserPlan(UserOf(req[h]))
        /\ Informed(UserOf(req[h]), sent[h], active[h])

Answered(u) == EventsOf(u) # {} /\ \A n \in unacked : UserOf(n) # u

AnsweredIsInformed ==
    \A u \in Users : Answered(u) =>
        \A plan \in LoadedPlans(table, u) : Informed(u, Len(Endpoints), Effective(plan))

TellInv == TellingIsCurrent /\ AnsweredIsInformed

LEMMA EndpointsAreNumbered ==
    Len(Endpoints) \in Nat /\ EndpointNumbers = 1..Len(Endpoints)
BY IntakeAssumption DEF EndpointNumbers

\* With one subscription there is one plan to load.
LEMMA OneLoadedPlan ==
    ASSUME SerialUse, IInv, NEW u \in Users,
           NEW p \in LoadedPlans(table, u), NEW q \in LoadedPlans(table, u)
    PROVE  p = q
<1>1. \A s, t \in RowsOf(table, u) : s = t
    BY DEF RowsOf, IInv, Linked, RowsOwned, SerialUse
<1>2. ActiveUserSubscriptions(table, u) \subseteq RowsOf(table, u)
    BY DEF ActiveUserSubscriptions, Newest, GrantingRows
<1> QED BY <1>1, <1>2 DEF LoadedPlans

LEMMA InitTell == Init => TellInv
<1> SUFFICES ASSUME Init PROVE TellInv
    OBVIOUS
<1>1. \A u : EventsOf(u) = {}
    BY DEF Init, EventsOf
<1>2. \A h \in Handlers : pc[h] = "idle"
    BY DEF Init
<1> QED BY <1>1, <1>2 DEF TellInv, TellingIsCurrent, AnsweredIsInformed, Answered

\* Steps that change nothing an endpoint has been told of the user.
LEMMA SameAnswered ==
    ASSUME UNCHANGED <<events, unacked, table, told>>, AnsweredIsInformed
    PROVE  AnsweredIsInformed'
BY DEF AnsweredIsInformed, Answered, EventsOf, UserOf, Informed, Effective

\* A request that goes on telling its user, who stays on the plan.
StillTelling(g) ==
    /\ pc[g] = "notifying" /\ req'[g] = req[g] /\ active'[g] = active[g] /\ sent'[g] = sent[g]
    /\ UserOf(req[g])' = UserOf(req[g]) /\ UserPlan(UserOf(req[g]))' = UserPlan(UserOf(req[g]))
    /\ told'[UserOf(req[g])] = told[UserOf(req[g])]

LEMMA SameTelling ==
    ASSUME TellingIsCurrent,
           \A g \in Handlers : pc'[g] = "notifying" => StillTelling(g)
    PROVE  TellingIsCurrent'
<1> SUFFICES ASSUME NEW g \in Handlers, pc'[g] = "notifying"
             PROVE  /\ active'[g] = UserPlan(UserOf(req[g]))'
                    /\ Informed(UserOf(req[g]), sent[g], active[g])'
    BY DEF TellingIsCurrent
<1>1. StillTelling(g)
    OBVIOUS
<1>2. /\ active[g] = UserPlan(UserOf(req[g]))
      /\ Informed(UserOf(req[g]), sent[g], active[g])
    BY <1>1 DEF TellingIsCurrent, StillTelling
<1>3. active'[g] = UserPlan(UserOf(req[g]))'
    BY <1>1, <1>2 DEF StillTelling
<1>4. Informed(UserOf(req[g]), sent[g], active[g])'
    BY <1>1, <1>2 DEF StillTelling, Informed
<1> QED BY <1>3, <1>4

\* A request that is not telling, before and after its step.
LEMMA QuietTell ==
    ASSUME TellInv, NEW h \in Handlers, pc'[h] # "notifying",
           UNCHANGED <<events, unacked, table, assigned, told>>,
           \A g \in Handlers \ {h} :
               pc'[g] = pc[g] /\ req'[g] = req[g] /\ active'[g] = active[g] /\ sent'[g] = sent[g]
    PROVE  TellInv'
<1>1. \A g \in Handlers : pc'[g] = "notifying" => StillTelling(g)
    BY DEF StillTelling, UserOf, UserPlan
<1> QED BY <1>1, SameTelling, SameAnswered DEF TellInv

LEMMA WorkIsUnanswered ==
    ASSUME IInv, NEW h \in Handlers, Busy(h)
    PROVE  ~Answered(UserOf(req[h]))
BY DEF IInv, Linked, Accepted, Answered

LEMMA EmitTell ==
    ASSUME IInv, TellInv, Emit
    PROVE  TellInv'
<1> DEFINE new == Len(events) + 1
<1>1. /\ Len(events) \in Nat /\ DOMAIN events = 1..Len(events)
      /\ DOMAIN events' = 1..new
      /\ \A n \in 1..Len(events) : events'[n] = events[n]
      /\ unacked' = unacked \cup {new} /\ unacked \subseteq 1..Len(events)
      /\ UNCHANGED <<table, assigned, told, pc, req, active, sent>>
    BY DEF Emit, IInv, TypeOK, local
<1>2. \A n \in 1..Len(events) : UserOf(n)' = UserOf(n)
    BY <1>1 DEF UserOf
<1>3. \A g \in Handlers : pc'[g] = "notifying" => StillTelling(g)
    <2>1. \A g \in Handlers : Busy(g) => req[g] \in 1..Len(events)
        BY <1>1, BusyRequest DEF IInv
    <2> QED BY <1>1, <1>2, <2>1 DEF StillTelling, UserPlan, Busy
<1>4. ASSUME NEW u \in Users, Answered(u)'
      PROVE  Answered(u)
    <2>1. PICK n \in EventsOf(u)' : TRUE
        BY <1>4 DEF Answered
    <2>2. n \in 1..new /\ UserOf(n)' = u
        BY <1>1, <2>1 DEF EventsOf
    <2>3. n # new
        BY <1>1, <1>4, <2>2 DEF Answered
    <2>4. n \in EventsOf(u)
        BY <1>1, <1>2, <2>2, <2>3 DEF EventsOf
    <2> QED BY <1>1, <1>2, <1>4, <2>4 DEF Answered
<1>5. AnsweredIsInformed'
    BY <1>1, <1>4 DEF TellInv, AnsweredIsInformed, Informed
<1> QED BY <1>3, <1>5, SameTelling DEF TellInv

LEMMA WriteTell ==
    ASSUME WellFormedUse, IInv, TellInv, NEW h \in Handlers, Store(h) \/ StoredButFails(h)
    PROVE  TellInv'
<1> SUFFICES ASSUME NEW sub, sub = events[req[h]].sub, NEW row, row = RowFor(events[req[h]]),
                    NEW user, user = UserOf(req[h])
             PROVE  TellInv'
    OBVIOUS
<1>1. /\ pc[h] = "priced" /\ table' = Upsert(table, sub, row)
      /\ UNCHANGED <<events, unacked, assigned, told>>
      /\ pc'[h] # "notifying"
      /\ \A g \in Handlers \ {h} :
             pc'[g] = pc[g] /\ req'[g] = req[g] /\ active'[g] = active[g] /\ sent'[g] = sent[g]
    BY DEF Store, StoredButFails, Ends, Goes, IInv, TypeOK, provider, local
<1>2. /\ sub \in Subs /\ row \in Rows /\ row.user = user /\ Owner[sub] = user
      /\ ~Answered(user)
    BY <1>1, RequestSub, WorkIsUnanswered DEF IInv, Busy
<1>3. \A g \in Handlers : pc'[g] = "notifying" => StillTelling(g)
    BY <1>1 DEF StillTelling, UserOf, UserPlan
<1>4. \A u \in Users : Answered(u)' <=> Answered(u)
    BY <1>1 DEF Answered, EventsOf, UserOf
<1>5. ASSUME NEW u \in Users, u # user
      PROVE  LoadedPlans(table', u) = LoadedPlans(table, u)
    <2>1. table \in Tables /\ (table[sub] # NoRow => table[sub].user = user)
        BY <1>2 DEF IInv, TypeOK, Linked, RowsOwned
    <2>2. LoadedPlans(Upsert(table, sub, row), u) = LoadedPlans(table, u)
        BY <1>2, <1>5, <2>1, OtherUsersLoadTheSame
    <2> QED BY <1>1, <2>2
<1>6. AnsweredIsInformed'
    BY <1>1, <1>2, <1>4, <1>5 DEF TellInv, AnsweredIsInformed, Informed
<1> QED BY <1>3, <1>6, SameTelling DEF TellInv

LEMMA ApplyTell ==
    ASSUME WellFormedUse, IInv, TellInv, NEW h \in Handlers, Apply(h)
    PROVE  TellInv'
<1>1. /\ Busy(h) /\ pc'[h] # "notifying"
      /\ UNCHANGED <<events, unacked, table, told, req, active, sent>>
      /\ \A g \in Handlers \ {h} : pc'[g] = pc[g]
    BY DEF Apply, Goes, Busy, IInv, TypeOK, provider, local
<1>2. \A v \in Users \ {UserOf(req[h])} : assigned'[v] = assigned[v]
    BY ApplyAssigns DEF WellFormedUse, IInv
<1>3. ASSUME NEW g \in Handlers, pc'[g] = "notifying"
      PROVE  StillTelling(g)
    <2>1. g # h /\ Busy(g) /\ pc[g] = "notifying"
        BY <1>1, <1>3 DEF Busy
    <2>2. UserOf(req[g]) \in Users \ {UserOf(req[h])}
        BY <1>1, <2>1, OtherRequests, RequestSub DEF WellFormedUse, IInv
    <2> QED BY <1>1, <1>2, <2>1, <2>2 DEF StillTelling, UserOf, UserPlan
<1> QED BY <1>1, <1>3, SameTelling, SameAnswered DEF TellInv

LEMMA ReadActivePlanTell ==
    ASSUME IInv, TellInv, NEW h \in Handlers, ReadActivePlan(h)
    PROVE  TellInv'
<1>1. /\ pc[h] = "applied" /\ UNCHANGED <<events, unacked, table, assigned, told, req>>
      /\ active'[h] = UserPlan(UserOf(req[h])) /\ sent'[h] = 0
      /\ \A g \in Handlers \ {h} :
             pc'[g] = pc[g] /\ active'[g] = active[g] /\ sent'[g] = sent[g]
    BY DEF ReadActivePlan, Goes, IInv, TypeOK, provider
<1>2. TellingIsCurrent'
    <2> SUFFICES ASSUME NEW g \in Handlers, pc'[g] = "notifying"
                 PROVE  /\ active'[g] = UserPlan(UserOf(req[g]))'
                        /\ Informed(UserOf(req[g]), sent[g], active[g])'
        BY DEF TellingIsCurrent
    <2>1. CASE g = h
        <3>1. active'[g] = UserPlan(UserOf(req[g]))'
            BY <1>1, <2>1 DEF UserOf, UserPlan
        <3>2. 1..sent'[g] = {}
            BY <1>1, <2>1
        <3>3. Informed(UserOf(req[g]), sent[g], active[g])'
            BY <3>2 DEF Informed
        <3> QED BY <3>1, <3>3
    <2>2. CASE g # h
        <3>1. pc[g] = "notifying" /\ StillTelling(g)
            BY <1>1, <2>2 DEF StillTelling, UserOf, UserPlan
        <3>2. active'[g] = UserPlan(UserOf(req[g]))'
            BY <3>1 DEF StillTelling, TellInv, TellingIsCurrent
        <3>3. Informed(UserOf(req[g]), sent[g], active[g])'
            BY <3>1 DEF StillTelling, TellInv, TellingIsCurrent, Informed
        <3> QED BY <3>2, <3>3
    <2> QED BY <2>1, <2>2
<1> QED BY <1>1, <1>2, SameAnswered DEF TellInv

\* A message changes what one user's endpoint was told last.
LEMMA TellIsOfTheUser ==
    ASSUME IInv, NEW h \in Handlers, Busy(h), Tell(h) \/ UNCHANGED told
    PROVE  \A v \in Users \ {UserOf(req[h])} : told'[v] = told[v]
BY RequestSub DEF Tell, IInv, TypeOK

LEMMA TellingOthers ==
    ASSUME WellFormedUse, IInv, TellInv, NEW h \in Handlers, Busy(h),
           UNCHANGED <<events, unacked, table, assigned>>, Tell(h) \/ UNCHANGED told,
           \A g \in Handlers \ {h} :
               pc'[g] = pc[g] /\ req'[g] = req[g] /\ active'[g] = active[g] /\ sent'[g] = sent[g]
    PROVE  /\ AnsweredIsInformed'
           /\ \A g \in Handlers \ {h} : pc'[g] = "notifying" => StillTelling(g)
<1>1. \A v \in Users \ {UserOf(req[h])} : told'[v] = told[v]
    BY TellIsOfTheUser
<1>2. ~Answered(UserOf(req[h]))
    BY WorkIsUnanswered
<1>3. \A u \in Users : Answered(u)' <=> Answered(u)
    BY DEF Answered, EventsOf, UserOf
<1>4. AnsweredIsInformed'
    BY <1>1, <1>2, <1>3 DEF TellInv, AnsweredIsInformed, Informed
<1>5. ASSUME NEW g \in Handlers \ {h}, pc'[g] = "notifying"
      PROVE  StillTelling(g)
    <2>1. Busy(g) /\ pc[g] = "notifying"
        BY <1>5 DEF Busy
    <2>2. UserOf(req[g]) \in Users \ {UserOf(req[h])}
        BY <2>1, OtherRequests, RequestSub DEF WellFormedUse, IInv
    <2> QED BY <1>1, <2>1, <2>2 DEF StillTelling, UserOf, UserPlan
<1> QED BY <1>4, <1>5

LEMMA EnqueueTell ==
    ASSUME WellFormedUse, IInv, TellInv, NEW h \in Handlers, Enqueue(h)
    PROVE  TellInv'
<1> SUFFICES ASSUME NEW user, user = UserOf(req[h]), NEW n, n = sent[h] + 1
             PROVE  TellInv'
    OBVIOUS
<1>1. /\ Busy(h) /\ pc[h] = "notifying" /\ sent[h] \in Nat /\ n \in 1..Len(Endpoints)
      /\ UNCHANGED <<events, unacked, table, assigned, req, active>> /\ sent'[h] = n
      /\ \A g \in Handlers \ {h} : pc'[g] = pc[g] /\ sent'[g] = sent[g]
      /\ Tell(h)
    BY EndpointsAreNumbered DEF Enqueue, Goes, Busy, IInv, TypeOK, provider
<1>2. /\ AnsweredIsInformed'
      /\ \A g \in Handlers \ {h} : pc'[g] = "notifying" => StillTelling(g)
    BY <1>1, TellingOthers
<1>3. /\ user \in Users /\ active[h] \in Plans /\ prev[h] \in Plans
      /\ active[h] = UserPlan(user) /\ Informed(user, sent[h], active[h])
    BY <1>1, RequestSub DEF TellInv, TellingIsCurrent, IInv, TypeOK
<1>4. /\ told'[user][n] = [active |-> active[h], prev |-> prev[h]]
      /\ \A e \in EndpointNumbers : e # n => told'[user][e] = told[user][e]
    BY <1>1, <1>3, EndpointsAreNumbered DEF Tell, IInv, TypeOK
<1>5. told'[user][n] # Nothing /\ told'[user][n].active = active[h]
    BY <1>3, <1>4, IntakeAssumption DEF Plans
<1>6. \A e \in 1..n : told'[user][e] # Nothing /\ told'[user][e].active = active[h]
    <2> TAKE e \in 1..n
    <2>1. CASE e = n
        BY <1>5, <2>1
    <2>2. CASE e # n
        <3>1. e \in 1..sent[h] /\ e \in EndpointNumbers
            BY <1>1, <2>2, EndpointsAreNumbered
        <3> QED BY <1>3, <1>4, <2>2, <3>1 DEF Informed
    <2> QED BY <2>1, <2>2
<1>7. TellingIsCurrent'
    <2> SUFFICES ASSUME NEW g \in Handlers, pc'[g] = "notifying"
                 PROVE  /\ active'[g] = UserPlan(UserOf(req[g]))'
                        /\ Informed(UserOf(req[g]), sent[g], active[g])'
        BY DEF TellingIsCurrent
    <2>1. CASE g = h
        <3>1. UserOf(req[g])' = user /\ UserPlan(user)' = UserPlan(user)
            BY <1>1, <2>1 DEF UserOf, UserPlan
        <3>2. active'[g] = UserPlan(UserOf(req[g]))'
            BY <1>1, <1>3, <2>1 DEF UserOf, UserPlan
        <3>3. Informed(UserOf(req[g]), sent[g], active[g])'
            BY <1>1, <1>6, <2>1, <3>1 DEF Informed
        <3> QED BY <3>2, <3>3
    <2>2. CASE g # h
        <3>1. StillTelling(g)
            BY <1>2, <2>2
        <3>2. active'[g] = UserPlan(UserOf(req[g]))'
            BY <3>1 DEF StillTelling, TellInv, TellingIsCurrent
        <3>3. Informed(UserOf(req[g]), sent[g], active[g])'
            BY <3>1 DEF StillTelling, TellInv, TellingIsCurrent, Informed
        <3> QED BY <3>2, <3>3
    <2> QED BY <2>1, <2>2
<1> QED BY <1>2, <1>7 DEF TellInv

LEMMA AcknowledgeTell ==
    ASSUME WellFormedUse, IInv, TellInv, NEW h \in Handlers, Acknowledge(h)
    PROVE  TellInv'
<1> SUFFICES ASSUME NEW user, user = UserOf(req[h]), NEW last, last = req[h]
             PROVE  TellInv'
    OBVIOUS
<1>1. /\ pc[h] = "notifying" /\ pc'[h] = "idle" /\ Busy(h) /\ up
      /\ sent[h] = Len(Endpoints) /\ unacked' = unacked \ {last}
      /\ UNCHANGED <<events, table, assigned, told>>
      /\ \A g \in Handlers \ {h} :
             pc'[g] = pc[g] /\ req'[g] = req[g] /\ active'[g] = active[g] /\ sent'[g] = sent[g]
    BY DEF Acknowledge, Ends, Goes, Busy, IInv, TypeOK, Linked, OnePerUser
<1>2. \A g \in Handlers : pc'[g] = "notifying" => StillTelling(g)
    BY <1>1 DEF StillTelling, UserOf, UserPlan
<1>3. user \in Users /\ Informed(user, Len(Endpoints), Effective(assigned[user]))
    BY <1>1, RequestSub DEF TellInv, TellingIsCurrent, UserPlan, Effective, IInv
<1>4. assigned[user] \in LoadedPlans(table, user)
    <2>1. Applying(user)
        BY <1>1 DEF Applying
    <2>2. ~Storing(user)
        BY <1>1 DEF Storing, Busy, IInv, Linked, OnePerUser
    <2> QED BY <1>1, <1>3, <2>1, <2>2 DEF Behind, IInv, Linked, StoreMemoryAgreement
<1>5. \A plan \in LoadedPlans(table, user) : plan = assigned[user]
    BY <1>3, <1>4, OneLoadedPlan DEF WellFormedUse
<1>6. \A u \in Users : u # user /\ Answered(u)' => Answered(u)
    BY <1>1 DEF Answered, EventsOf, UserOf
<1>7. AnsweredIsInformed'
    <2> SUFFICES ASSUME NEW u \in Users, Answered(u)', NEW plan \in LoadedPlans(table, u)
                 PROVE  Informed(u, Len(Endpoints), Effective(plan))
        BY <1>1 DEF AnsweredIsInformed, Informed
    <2>1. CASE u = user
        BY <1>3, <1>5, <2>1
    <2>2. CASE u # user
        BY <1>6, <2>2 DEF TellInv, AnsweredIsInformed
    <2> QED BY <2>1, <2>2
<1> QED BY <1>2, <1>7, SameTelling DEF TellInv

LEMMA StepsKeepTell ==
    ASSUME WellFormedUse
    PROVE  IInv /\ TellInv /\ [Next]_vars => TellInv'
<1> SUFFICES ASSUME IInv, TellInv, [Next]_vars PROVE TellInv'
    OBVIOUS
<1>1. CASE UNCHANGED vars \/ AllSettled
    <2>1. UNCHANGED <<events, unacked, table, assigned, told, pc, req, active, sent>>
        BY <1>1 DEF AllSettled, vars, provider, local
    <2>2. \A g \in Handlers : pc'[g] = "notifying" => StillTelling(g)
        BY <2>1 DEF StillTelling, UserOf, UserPlan
    <2> QED BY <2>1, <2>2, SameTelling, SameAnswered DEF TellInv
<1>2. CASE Emit
    BY <1>2, EmitTell
<1>3. ASSUME NEW h \in Handlers, NEW n \in 1..MaxEvents, Deliver(h, n) PROVE TellInv'
    <2>1. /\ pc'[h] # "notifying" /\ UNCHANGED <<events, unacked, table, assigned, told>>
          /\ \A g \in Handlers \ {h} : /\ pc'[g] = pc[g] /\ req'[g] = req[g]
                                      /\ active'[g] = active[g] /\ sent'[g] = sent[g]
        BY <1>3 DEF Deliver, Goes, IInv, TypeOK, provider
    <2> QED BY <2>1, QuietTell
<1>4. ASSUME NEW h \in Handlers, Step(h) PROVE TellInv'
    <2>1. ~Reject(h)
        <3>1. Reject(h) => Busy(h)
            BY DEF Reject, Ends, Goes, Busy
        <3>2. Busy(h) => events[req[h]] \in Event
            BY RequestSub, EventTypes DEF IInv
        <3> QED BY <3>1, <3>2 DEF Reject, Event, WellFormedUse
    <2>2. CASE FetchPrice(h) \/ ReadPrevPlan(h)
        <3>1. /\ pc'[h] # "notifying" /\ UNCHANGED <<events, unacked, table, assigned, told>>
              /\ \A g \in Handlers \ {h} : /\ pc'[g] = pc[g] /\ req'[g] = req[g]
                                          /\ active'[g] = active[g] /\ sent'[g] = sent[g]
            BY <2>2 DEF FetchPrice, ReadPrevPlan, Goes, IInv, TypeOK, provider, local
        <3> QED BY <3>1, QuietTell
    <2>3. CASE StoreConflicts(h)
        <3>1. /\ pc'[h] # "notifying" /\ UNCHANGED <<events, unacked, table, assigned, told>>
              /\ \A g \in Handlers \ {h} : /\ pc'[g] = pc[g] /\ req'[g] = req[g]
                                          /\ active'[g] = active[g] /\ sent'[g] = sent[g]
            BY <2>3 DEF StoreConflicts, Fails, Ends, Goes, IInv, TypeOK, provider
        <3> QED BY <3>1, QuietTell
    <2> QED BY <1>4, <2>1, <2>2, <2>3, WriteTell, ApplyTell, ReadActivePlanTell, EnqueueTell,
               AcknowledgeTell DEF Step
<1>5. ASSUME NEW h \in Handlers, HandlerFault(h) PROVE TellInv'
    <2>1. CASE StoredButFails(h)
        BY <2>1, WriteTell
    <2>2. CASE ~StoredButFails(h)
        <3>1. PICK from : /\ Ends(h, from) /\ UNCHANGED <<events, unacked, table, assigned>>
                          /\ UNCHANGED told \/ (from = "notifying" /\ Tell(h))
            BY <1>5, <2>2 DEF HandlerFault, PriceFails, StoreFails, EnqueueFails, AnswerLost,
                             Fails, provider
        <3>2. /\ pc[h] = from /\ pc'[h] # "notifying"
              /\ \A g \in Handlers \ {h} : /\ pc'[g] = pc[g] /\ req'[g] = req[g]
                                          /\ active'[g] = active[g] /\ sent'[g] = sent[g]
            BY <3>1 DEF Ends, Goes, IInv, TypeOK
        <3>3. CASE UNCHANGED told
            BY <3>1, <3>2, <3>3, QuietTell
        <3>4. CASE from = "notifying" /\ Tell(h)
            <4>1. Busy(h)
                BY <3>2, <3>4 DEF Busy
            <4>2. /\ AnsweredIsInformed'
                  /\ \A g \in Handlers \ {h} : pc'[g] = "notifying" => StillTelling(g)
                BY <3>1, <3>2, <3>4, <4>1, TellingOthers
            <4>3. \A g \in Handlers : pc'[g] = "notifying" => StillTelling(g)
                BY <3>2, <4>2
            <4> QED BY <4>2, <4>3, SameTelling DEF TellInv
        <3> QED BY <3>1, <3>3, <3>4
    <2> QED BY <2>1, <2>2
<1>6. CASE Crash \/ Restart
    <2>1. UNCHANGED <<events, unacked, table, told>>
        BY <1>6 DEF Crash, Restart, provider
    <2>2. \A g \in Handlers : ~Busy(g)'
        BY <1>6 DEF Crash, Restart, Busy, IInv, Linked, OnePerUser
    <2>3. TellingIsCurrent'
        BY <2>2 DEF TellingIsCurrent, Busy
    <2> QED BY <2>1, <2>3, SameAnswered DEF TellInv
<1> QED BY <1>1, <1>2, <1>3, <1>4, <1>5, <1>6 DEF Next, DeliverSome

\* Once all events of a user are answered every endpoint's last message names
\* the plan the user is on, whatever order the events came in and whatever
\* failed or crashed between two endpoints, if requests about a user do not
\* overlap and their events are well formed.
THEOREM EndpointsAreToldOfThePlan ==
    ASSUME WellFormedUse
    PROVE  Spec => []LastToldIsCurrent
<1>1. IInv /\ [Next]_vars => IInv'
    BY StepsKeepIInv DEF WellFormedUse
<1>2. IInv /\ TellInv /\ [Next]_vars => TellInv'
    BY StepsKeepTell
<1>3. IInv /\ TellInv => LastToldIsCurrent
    <2> SUFFICES ASSUME IInv, TellInv, NEW u \in Users, Settled(u), EventsOf(u) # {},
                        NEW e \in EndpointNumbers
                 PROVE  told[u][e] # Nothing /\ told[u][e].active = UserPlan(u)
        BY DEF LastToldIsCurrent
    <2>1. Answered(u)
        BY DEF Settled, Answered
    <2>2. ~Behind(u)
        BY DEF Settled, Behind, Storing, HalfDone, InHand, Busy
    <2>3. assigned[u] \in LoadedPlans(table, u)
        BY <2>2 DEF Settled, IInv, Linked, StoreMemoryAgreement
    <2> QED BY <2>1, <2>3, EndpointsAreNumbered
            DEF TellInv, AnsweredIsInformed, Informed, Effective, UserPlan
<1> QED BY <1>1, <1>2, <1>3, InitIInv, InitTell, PTL DEF Spec

\* Who has one subscription is on its plan once nothing is outstanding, and
\* so never on the default one by mistake, whatever failed or crashed and in
\* whatever order the events came: what goes wrong with two subscriptions
\* needs the second one.
THEOREM SubscribersAreServed ==
    ASSUME SerialUse
    PROVE  Spec => []SubscribersHaveTheirPlan
<1>1. IInv => SubscribersHaveTheirPlan
    <2> SUFFICES ASSUME IInv, NEW u \in Users, Settled(u), NEW s \in GrantingRows(table, u),
                        PlanFor[table[s].product] # NoPlan
                 PROVE  assigned[u] # NoPlan
        BY DEF SubscribersHaveTheirPlan
    <2>1. ~Behind(u)
        BY DEF Settled, Behind, Storing, HalfDone, InHand, Busy
    <2>2. assigned[u] \in LoadedPlans(table, u)
        BY <2>1 DEF Settled, IInv, Linked, StoreMemoryAgreement
    <2>3. /\ table \in Tables /\ s \in Subs
          /\ RowsOf(table, u) = {s} /\ IsActive(table[s].status)
        BY DEF GrantingRows, RowsOf, IsActive, IInv, TypeOK, Linked, RowsOwned, SerialUse
    <2>4. PlanFor[table[s].product] \in LoadedPlans(table, u)
        BY <2>3, TheOneRowIsLoaded
    <2> QED BY <2>2, <2>4, OneLoadedPlan
<1>2. IInv /\ [Next]_vars => IInv'
    BY StepsKeepIInv
<1> QED BY <1>1, <1>2, InitIInv, PTL DEF Spec

-----------------------------------------------------------------------------
(* The table and the memory dated by events: neither goes back, and memory  *)
(* is never ahead of the table, though a crash may empty it.                *)

\* What the table and the memory hold of each user is what the event of this
\* number said. While the process is down, memory keeps its last date.
StoresDated(mem, tab) ==
    /\ mem \in [Users -> Nat] /\ tab \in [Users -> Nat]
    /\ \A u \in Users : Current(u, tab[u]) /\ Current(u, mem[u]) /\ mem[u] <= tab[u]
    /\ \A s \in Subs : table[s] = RowSaid(tab[Owner[s]])
    /\ up => \A u \in Users : assigned[u] = PlanSaid(mem[u])

\* No date is taken back.
NotBefore(old, new) == \A u \in Users : old[u] <= new[u]

LEMMA InitDates ==
    ASSUME Init
    PROVE  \E mem, tab : StoresDated(mem, tab)
<1> DEFINE zero == [u \in Users |-> 0]
<1>1. \A u : Current(u, 0)
    BY DEF Init, EventsOf, Current
<1>2. StoresDated(zero, zero)
    BY <1>1, IntakeAssumption DEF Init, EmptyTable, StoresDated, PlanSaid, RowSaid
<1> QED BY <1>2

\* The steps that matter to table and memory.
LEMMA StepsOfTheStores ==
    ASSUME OrderedUse, IInv, [Next]_vars
    PROVE  \/ Emit \/ Restart
           \/ \E h \in Handlers : Store(h) \/ StoredButFails(h) \/ Apply(h) \/ Acknowledge(h)
           \/ UNCHANGED <<events, unacked, table>> /\ (up' => up /\ assigned' = assigned)
<1>1. ASSUME NEW h \in Handlers, Reject(h) PROVE FALSE
    <2>1. Busy(h)
        BY <1>1 DEF Reject, Ends, Goes, Busy
    <2>2. events[req[h]] \in Event
        BY <2>1, RequestSub, EventTypes DEF IInv
    <2> QED BY <1>1, <2>2 DEF Reject, Event, OrderedUse
<1>2. ASSUME NEW h \in Handlers,
             FetchPrice(h) \/ StoreConflicts(h) \/ ReadPrevPlan(h) \/ ReadActivePlan(h) \/ Enqueue(h)
      PROVE  UNCHANGED <<events, unacked, table, up, assigned>>
    BY <1>2 DEF FetchPrice, StoreConflicts, ReadPrevPlan, ReadActivePlan, Enqueue, Fails, provider
<1>3. ASSUME NEW h \in Handlers,
             PriceFails(h) \/ StoreFails(h) \/ EnqueueFails(h) \/ AnswerLost(h)
      PROVE  UNCHANGED <<events, unacked, table, up, assigned>>
    BY <1>3 DEF PriceFails, StoreFails, EnqueueFails, AnswerLost, Fails, provider
<1>4. ASSUME NEW n, DeliverSome(n)
      PROVE  UNCHANGED <<events, unacked, table, up, assigned>>
    BY <1>4 DEF DeliverSome, Deliver, provider
<1>5. Crash => UNCHANGED <<events, unacked, table>> /\ ~up'
    BY DEF Crash, provider
<1>6. UNCHANGED vars \/ AllSettled => UNCHANGED <<events, unacked, table, up, assigned>>
    BY DEF AllSettled, vars, provider
<1> QED BY <1>1, <1>2, <1>3, <1>4, <1>5, <1>6 DEF Next, Step, HandlerFault

\* The event in hand is the first that is not settled.
LEMMA InHandIsLast ==
    ASSUME OrderedUse, IInv, OrderInv, NEW h \in Handlers, Busy(h),
           NEW n, Current(UserOf(req[h]), n)
    PROVE  /\ req[h] \in Nat /\ n \in Nat /\ n <= req[h]
           /\ Current(UserOf(req[h]), req[h])
<1>1. Current(UserOf(req[h]), req[h]) /\ req[h] \in unacked /\ req[h] # 0
    BY DEF OrderInv, RequestsSay, IInv, Linked, Accepted, TypeOK
<1>2. EventsOf(UserOf(req[h])) \subseteq Nat
    BY EventNumbers DEF IInv
<1>3. /\ req[h] \in EventsOf(UserOf(req[h])) /\ n \in {0} \cup EventsOf(UserOf(req[h]))
      /\ req[h] < n => req[h] \notin unacked
    BY <1>1 DEF Current
<1>4. req[h] \in Nat /\ n \in Nat
    BY <1>2, <1>3
<1> QED BY <1>1, <1>3, <1>4

LEMMA QuietDates ==
    ASSUME NEW mem, NEW tab, StoresDated(mem, tab),
           UNCHANGED <<events, unacked, table>>, up' => up /\ assigned' = assigned
    PROVE  StoresDated(mem, tab)'
BY SameEvents DEF StoresDated

LEMMA EmitDates ==
    ASSUME TypeOK, Emit, NEW mem, NEW tab, StoresDated(mem, tab)
    PROVE  StoresDated(mem, tab)'
<1>1. UNCHANGED <<table, up, assigned>>
    BY DEF Emit
<1> QED BY <1>1, EmitCurrent, IntakeAssumption DEF StoresDated

LEMMA WriteDates ==
    ASSUME OrderedUse, IInv, OrderInv, NEW h \in Handlers, Store(h) \/ StoredButFails(h),
           NEW mem, NEW tab, StoresDated(mem, tab)
    PROVE  \E tab2 : StoresDated(mem, tab2)' /\ NotBefore(tab, tab2)
<1> SUFFICES ASSUME NEW n, n = req[h], NEW user, user = UserOf(req[h]),
                    NEW sub, sub = events[req[h]].sub
             PROVE  \E tab2 : StoresDated(mem, tab2)' /\ NotBefore(tab, tab2)
    OBVIOUS
<1> DEFINE tab2 == [tab EXCEPT ![user] = n]
<1>1. /\ Busy(h) /\ table' = Upsert(table, sub, RowFor(events[n]))
      /\ UNCHANGED <<events, unacked, up, assigned>>
    BY DEF Store, StoredButFails, Ends, Goes, Busy, provider
<1>2. /\ user \in Users /\ sub \in Subs /\ Owner[sub] = user /\ n # 0
    BY <1>1, RequestSub DEF IInv, TypeOK
<1>3. n \in Nat /\ tab[user] <= n /\ Current(user, n)
    BY <1>1, <1>2, InHandIsLast DEF StoresDated
<1>4. /\ table'[sub] = RowSaid(n)
      /\ \A s \in Subs \ {sub} : table'[s] = table[s]
    BY <1>1, <1>2 DEF IInv, TypeOK, Tables, Upsert, RowSaid
<1>5. /\ tab2 \in [Users -> Nat] /\ tab2[user] = n
      /\ \A u \in Users \ {user} : tab2[u] = tab[u]
    BY <1>2, <1>3 DEF StoresDated
<1>6. \A s \in Subs \ {sub} : Owner[s] \in Users \ {user}
    BY <1>2, IntakeAssumption DEF OrderedUse, SerialUse
<1> HIDE DEF tab2
<1>7. NotBefore(tab, tab2)
    BY <1>3, <1>5 DEF NotBefore, StoresDated
<1>8. \A s \in Subs : table'[s] = RowSaid(tab2[Owner[s]])'
    <2> TAKE s \in Subs
    <2>1. CASE s = sub
        BY <1>1, <1>2, <1>4, <1>5, <2>1, SameEvents
    <2>2. CASE s # sub
        BY <1>1, <1>4, <1>5, <1>6, <2>2, SameEvents DEF StoresDated
    <2> QED BY <2>1, <2>2
<1>9. \A u \in Users : Current(u, tab2[u])' /\ Current(u, mem[u])' /\ mem[u] <= tab2[u]
    <2> TAKE u \in Users
    <2>1. Current(u, tab2[u]) /\ Current(u, mem[u])
        BY <1>3, <1>5 DEF StoresDated
    <2>2. mem[u] <= tab2[u]
        BY <1>5, <1>7 DEF StoresDated, NotBefore
    <2> QED BY <1>1, <2>1, <2>2, SameEvents
<1>10. up' => \A u \in Users : assigned'[u] = PlanSaid(mem[u])'
    BY <1>1, SameEvents DEF StoresDated
<1>11. StoresDated(mem, tab2)'
    BY <1>5, <1>8, <1>9, <1>10 DEF StoresDated
<1> QED BY <1>7, <1>11

\* What is applied is in the table, so both can be dated by its event.
LEMMA ApplyDates ==
    ASSUME OrderedUse, IInv, OrderInv, NEW h \in Handlers, Apply(h),
           NEW mem, NEW tab, StoresDated(mem, tab)
    PROVE  \E mem2, tab2 : /\ StoresDated(mem2, tab2)'
                           /\ NotBefore(mem, mem2) /\ NotBefore(tab, tab2)
<1> SUFFICES ASSUME NEW n, n = req[h], NEW user, user = UserOf(req[h])
             PROVE  \E mem2, tab2 : /\ StoresDated(mem2, tab2)'
                                    /\ NotBefore(mem, mem2) /\ NotBefore(tab, tab2)
    OBVIOUS
<1> DEFINE mem2 == [mem EXCEPT ![user] = n]
           tab2 == [tab EXCEPT ![user] = n]
<1>1. Busy(h) /\ pc[h] = "asked" /\ UNCHANGED <<events, unacked, table, up>>
    BY DEF Apply, Goes, Busy, provider
<1>2. user \in Users /\ n # 0 /\ events[n].sub \in Subs /\ Owner[events[n].sub] = user
    BY <1>1, RequestSub DEF IInv, TypeOK
<1>3. n \in Nat /\ mem[user] <= n /\ tab[user] <= n /\ Current(user, n)
    BY <1>1, <1>2, InHandIsLast DEF StoresDated
<1>4. table[events[n].sub] = RowSaid(n)
    BY <1>1, <1>2 DEF IInv, Linked, StoredIsThere, RowSaid
<1>5. /\ assigned'[user] = PlanSaid(n)
      /\ \A v \in Users \ {user} : assigned'[v] = assigned[v]
    BY ApplyAssigns DEF OrderedUse, IInv
<1>6. /\ mem2 \in [Users -> Nat] /\ tab2 \in [Users -> Nat]
      /\ mem2[user] = n /\ tab2[user] = n
      /\ \A u \in Users \ {user} : mem2[u] = mem[u] /\ tab2[u] = tab[u]
    BY <1>2, <1>3 DEF StoresDated
<1> HIDE DEF mem2, tab2
<1>7. NotBefore(mem, mem2) /\ NotBefore(tab, tab2)
    BY <1>3, <1>6 DEF NotBefore, StoresDated
<1>8. \A s \in Subs : table[s] = RowSaid(tab2[Owner[s]])
    <2> TAKE s \in Subs
    <2>1. CASE Owner[s] = user
        BY <1>2, <1>4, <1>6, <2>1 DEF OrderedUse, SerialUse
    <2>2. CASE Owner[s] # user
        BY <1>6, <2>2, IntakeAssumption DEF StoresDated
    <2> QED BY <2>1, <2>2
<1>9. \A u \in Users : Current(u, tab2[u]) /\ Current(u, mem2[u]) /\ mem2[u] <= tab2[u]
    BY <1>3, <1>6 DEF StoresDated
<1>10. up => \A u \in Users : assigned'[u] = PlanSaid(mem2[u])
    BY <1>5, <1>6 DEF StoresDated
<1>11. StoresDated(mem2, tab2)'
    BY <1>1, <1>6, <1>8, <1>9, <1>10, SameEvents DEF StoresDated
<1> QED BY <1>7, <1>11

LEMMA AcknowledgeDates ==
    ASSUME OrderedUse, IInv, OrderInv, NEW h \in Handlers, Acknowledge(h),
           NEW mem, NEW tab, StoresDated(mem, tab)
    PROVE  \E mem2, tab2 : /\ StoresDated(mem2, tab2)'
                           /\ NotBefore(mem, mem2) /\ NotBefore(tab, tab2)
<1> SUFFICES ASSUME NEW n, n = req[h], NEW user, user = UserOf(req[h])
             PROVE  \E mem2, tab2 : /\ StoresDated(mem2, tab2)'
                                    /\ NotBefore(mem, mem2) /\ NotBefore(tab, tab2)
    OBVIOUS
<1> DEFINE mem2 == [mem EXCEPT ![user] = n]
           tab2 == [tab EXCEPT ![user] = n]
<1>1. /\ Busy(h) /\ user \in Users /\ n # 0
      /\ events[n].sub \in Subs /\ Owner[events[n].sub] = user
      /\ table[events[n].sub] = RowSaid(n) /\ assigned[user] = PlanSaid(n)
      /\ Current(user, n) /\ Current(user, n)'
      /\ \A u, m : u # user /\ Current(u, m) => Current(u, m)'
      /\ \A m : PlanSaid(m)' = PlanSaid(m) /\ RowSaid(m)' = RowSaid(m)
      /\ UNCHANGED <<events, table, up, assigned>>
    BY AcknowledgeCurrent
<1>2. n \in Nat /\ mem[user] <= n /\ tab[user] <= n
    BY <1>1, InHandIsLast DEF StoresDated
<1>3. /\ mem2 \in [Users -> Nat] /\ tab2 \in [Users -> Nat]
      /\ mem2[user] = n /\ tab2[user] = n
      /\ \A u \in Users \ {user} : mem2[u] = mem[u] /\ tab2[u] = tab[u]
    BY <1>1, <1>2 DEF StoresDated
<1> HIDE DEF mem2, tab2
<1>4. NotBefore(mem, mem2) /\ NotBefore(tab, tab2)
    BY <1>2, <1>3 DEF NotBefore, StoresDated
<1>5. \A s \in Subs : table[s] = RowSaid(tab2[Owner[s]])
    <2> TAKE s \in Subs
    <2>1. CASE Owner[s] = user
        BY <1>1, <1>3, <2>1 DEF OrderedUse, SerialUse
    <2>2. CASE Owner[s] # user
        BY <1>3, <2>2, IntakeAssumption DEF StoresDated
    <2> QED BY <2>1, <2>2
<1>6. \A u \in Users : Current(u, tab2[u])' /\ Current(u, mem2[u])' /\ mem2[u] <= tab2[u]
    BY <1>1, <1>2, <1>3 DEF StoresDated
<1>7. up => \A u \in Users : assigned[u] = PlanSaid(mem2[u])
    BY <1>1, <1>3 DEF StoresDated
<1>8. StoresDated(mem2, tab2)'
    BY <1>1, <1>3, <1>5, <1>6, <1>7 DEF StoresDated
<1> QED BY <1>4, <1>8

\* A restart brings memory to where the table is.
LEMMA RestartDates ==
    ASSUME OrderedUse, IInv, Restart, NEW mem, NEW tab, StoresDated(mem, tab)
    PROVE  StoresDated(tab, tab)' /\ NotBefore(mem, tab)
<1>1. /\ UNCHANGED <<events, unacked, table>>
      /\ \A u \in Users : assigned'[u] \in LoadedPlans(table, u)
    BY DEF Restart, provider
<1>2. \A u \in Users : assigned'[u] = PlanSaid(tab[u])
    <2> TAKE u \in Users
    <2>1. Current(u, tab[u]) /\ \A s \in Subs : Owner[s] = u => table[s] = RowSaid(tab[u])
        BY DEF StoresDated
    <2> QED BY <1>1, <2>1, LoadedIsSaid
<1>3. \A u \in Users : tab[u] <= tab[u]
    BY DEF StoresDated
<1> QED BY <1>1, <1>2, <1>3, SameEvents DEF StoresDated, NotBefore

LEMMA NotBeforeItself ==
    ASSUME NEW dates \in [Users -> Nat]
    PROVE  NotBefore(dates, dates)
BY DEF NotBefore

LEMMA StepsKeepDates ==
    ASSUME OrderedUse, IInv, OrderInv, [Next]_vars, NEW mem, NEW tab, StoresDated(mem, tab)
    PROVE  \E mem2, tab2 : /\ StoresDated(mem2, tab2)'
                           /\ NotBefore(mem, mem2) /\ NotBefore(tab, tab2)
<1>1. NotBefore(mem, mem) /\ NotBefore(tab, tab)
    BY NotBeforeItself DEF StoresDated
<1>2. CASE UNCHANGED <<events, unacked, table>> /\ (up' => up /\ assigned' = assigned)
    <2>1. StoresDated(mem, tab)'
        BY <1>2, QuietDates
    <2> QED BY <1>1, <2>1
<1>3. CASE Emit
    <2>1. StoresDated(mem, tab)'
        BY <1>3, EmitDates DEF IInv
    <2> QED BY <1>1, <2>1
<1>4. CASE Restart
    <2>1. StoresDated(tab, tab)' /\ NotBefore(mem, tab)
        BY <1>4, RestartDates
    <2> QED BY <1>1, <2>1
<1>5. ASSUME NEW h \in Handlers, Store(h) \/ StoredButFails(h)
      PROVE  \E mem2, tab2 : /\ StoresDated(mem2, tab2)'
                             /\ NotBefore(mem, mem2) /\ NotBefore(tab, tab2)
    <2>1. PICK tab2 : StoresDated(mem, tab2)' /\ NotBefore(tab, tab2)
        BY <1>5, WriteDates
    <2> QED BY <1>1, <2>1
<1> QED BY <1>2, <1>3, <1>4, <1>5, ApplyDates, AcknowledgeDates, StepsOfTheStores

\* The provider only adds events.
LEMMA EventsStay ==
    ASSUME TypeOK, [Next]_vars
    PROVE  /\ Len(events) \in Nat /\ Len(events') \in Nat /\ Len(events) <= Len(events')
           /\ DOMAIN events = 1..Len(events) /\ DOMAIN events' = 1..Len(events')
           /\ \A n \in 1..Len(events) : events'[n] = events[n]
<1>1. CASE Emit
    BY <1>1 DEF Emit, TypeOK
<1>2. CASE UNCHANGED events
    BY <1>2 DEF TypeOK
<1>3. ASSUME NEW h \in Handlers, Step(h) \/ HandlerFault(h)
      PROVE  UNCHANGED events
    BY <1>3 DEF Step, HandlerFault, Reject, FetchPrice, Store, StoreConflicts, ReadPrevPlan,
       Apply, ReadActivePlan, Enqueue, Acknowledge, PriceFails, StoreFails, StoredButFails,
       EnqueueFails, AnswerLost, Fails, provider
<1> QED BY <1>1, <1>2, <1>3
        DEF Next, DeliverSome, Deliver, Crash, Restart, AllSettled, vars, provider
=============================================================================
