-------------------------------- MODULE Api --------------------------------
(***************************************************************************)
(* The API beside the webhook intake: clients ask GET /v1/users/{id},      *)
(* GET /v1/check and the routes of plans and features while events come    *)
(* in, requests fail and the process dies and comes back. An answer is     *)
(* put together from several reads, each of which is one step: of the      *)
(* entitlement service's memory, of the subscription table, or of the      *)
(* configuration.                                                          *)
(*                                                                         *)
(* A request is one of Middleware with three more fields: user and         *)
(* feature, which it names, and expand, the parts it asks for.             *)
(***************************************************************************)
EXTENDS WebhookIntake, Middleware

CONSTANTS
    Features,       \* the feature ids
    Conf,           \* the configuration, as in Catalog
    Defined,        \* the ids of its section features
    Clients,        \* the clients of the API
    Requests,       \* what they may ask
    MaxAnswers      \* bound on the answers a client hears

Cat == INSTANCE Catalog

ASSUME ApiAssumption ==
    /\ Conf \in Cat!Configurations
    /\ DefaultPlan = Conf.defaultPlan
    /\ PlanFor = [p \in Products |-> Cat!ResolvePlanFromProduct(Conf, p)]
    /\ Defined \subseteq Features
    /\ MaxAnswers \in Nat
    /\ Nothing \notin Requests
    /\ \A r \in Requests :
          /\ Len(r.path) \in Nat /\ DOMAIN r.path = 1..Len(r.path)
          /\ r.input \in {"valid", "invalid", "undecodable"}
          /\ RoutesFor(r) # {} /\ NameOf(r) \in {"check", "user"} =>
                 r.user \in Users /\ r.feature \in Features

VARIABLES
    asked,      \* the request of each client, or Nothing
    got,        \* the parts of its answer that are read
    status,     \* the status it is answered with, or 0
    heard       \* the answers of users and checks a client has had, in order

intake  == vars
readers == <<asked, got, status, heard>>
api     == <<intake, readers>>

ApiInit ==
    /\ Init
    /\ asked  = [c \in Clients |-> Nothing]
    /\ got    = [c \in Clients |-> <<>>]
    /\ status = [c \in Clients |-> 0]
    /\ heard  = [c \in Clients |-> <<>>]

-----------------------------------------------------------------------------
(* What the handlers read, and in which order                               *)

Expanded(r, part) == IF part \in r.expand THEN <<part>> ELSE <<>>

\* As a bug would have it: the database is asked first.
PartsTableFirst(r) ==
    CASE NameOf(r) = "user"  -> Expanded(r, "subscription") \o <<"plan">>
                                    \o Expanded(r, "features")
      [] NameOf(r) = "check" -> <<"verdict">> \o Expanded(r, "plan.features")
      [] OTHER               -> <<>>

Parts(r) ==
    CASE NameOf(r) = "user"  -> <<"plan">> \o Expanded(r, "features")
                                    \o Expanded(r, "subscription")
      [] NameOf(r) = "check" -> <<"verdict">> \o Expanded(r, "plan.features")
      [] OTHER               -> <<>>

\* What the service answers about a user it has assigned the plan to.
RolesFor(plan) == {plan} \ {NoPlan}

FromMemory(part, r, plan) ==
    CASE part = "plan"     -> Cat!UserPlan(Conf, RolesFor(plan))
      [] part = "features" -> Cat!UserFeatures(Conf, RolesFor(plan))
      [] part = "verdict"  -> Cat!CheckFeature(Conf, RolesFor(plan), r.feature)

\* ToUserSubscription, and null for a user without a row.
Shown(row) == IF row = NoRow THEN NoRow
              ELSE [plan |-> PlanFor[row.product], status |-> row.status]

\* ToPlan leaves out the features that are not defined.
ToPlan(plan) == Cat!PlanFeatures(Conf, plan) \cap Defined

NextPart(c) == Parts(asked[c])[Len(got[c]) + 1]

Gets(c, value) ==
    /\ got' = [got EXCEPT ![c] = Append(@, value)]
    /\ UNCHANGED <<intake, asked, status, heard>>

\* A handler runs for the client's request and has this part to read next.
Reading(c, part) ==
    /\ up /\ asked[c] # Nothing /\ status[c] = 0
    /\ Len(got[c]) < Len(Parts(asked[c]))
    /\ NextPart(c) = part

-----------------------------------------------------------------------------
(* The steps of a request                                                   *)

\* As a bug would have it: the server is given the mux without the middlewares.
AskBare(c, r) ==
    /\ up /\ asked[c] = Nothing
    /\ Len(heard[c]) < MaxAnswers
    /\ asked' = [asked EXCEPT ![c] = r]
    /\ UNCHANGED <<intake, got, status, heard>>

\* The middlewares refuse the request, or its handler starts.
Ask(c, r) ==
    /\ up /\ asked[c] = Nothing
    /\ Len(heard[c]) < MaxAnswers
    /\ asked'  = [asked EXCEPT ![c] = r]
    /\ status' = [status EXCEPT ![c] = Refusal(r)]
    /\ UNCHANGED <<intake, got, heard>>

\* GetUserPlan, GetUserFeatures or CheckFeature, each under the read lock.
ReadMemory(c) ==
    \E part \in {"plan", "features", "verdict"} :
        /\ Reading(c, part)
        /\ LET r == asked[c] IN Gets(c, FromMemory(part, r, assigned[r.user]))

\* As a bug would have it: the plan is looked up again.
ReadPlanFeaturesAgain(c) ==
    /\ Reading(c, "plan.features")
    /\ Gets(c, ToPlan(UserPlan(asked[c].user)))

\* The plan of the verdict, from the configuration.
ReadPlanFeatures(c) ==
    /\ Reading(c, "plan.features")
    /\ Gets(c, ToPlan(got[c][1].plan))

\* GetSubscriptionByUserID, which ends with one of the rows it may choose.
ReadSubscription(c) ==
    /\ Reading(c, "subscription")
    /\ LET subs == SubscriptionByUser(table, asked[c].user)
       IN  \E row \in (IF subs = {} THEN {NoRow} ELSE {table[s] : s \in subs}) :
              Gets(c, Shown(row))

\* 500
ReadSubscriptionFails(c) ==
    /\ Reading(c, "subscription")
    /\ status' = [status EXCEPT ![c] = 500]
    /\ Fault
    /\ UNCHANGED <<provider, table, up, assigned, pc, local, told, asked, got, heard>>

\* The routes of one feature and of one plan know the ids of the configuration.
Found(r) ==
    CASE NameOf(r) = "feature" -> r.path[3] \in Defined
      [] NameOf(r) = "plan"    -> Cat!IsConfigured(Conf, r.path[3])
      [] OTHER                 -> TRUE

Respond(c) ==
    /\ up /\ asked[c] # Nothing /\ status[c] = 0
    /\ Len(got[c]) = Len(Parts(asked[c]))
    /\ status' = [status EXCEPT ![c] = IF Found(asked[c]) THEN 200 ELSE 404]
    /\ UNCHANGED <<intake, asked, got, heard>>

\* The client has the answer; those about a user are remembered.
Hears(c) ==
    /\ up /\ status[c] # 0
    /\ heard' = IF status[c] = 200 /\ got[c] # <<>>
                THEN [heard EXCEPT ![c] = Append(@, [request |-> asked[c], parts |-> got[c]])]
                ELSE heard
    /\ asked'  = [asked EXCEPT ![c] = Nothing]
    /\ got'    = [got EXCEPT ![c] = <<>>]
    /\ status' = [status EXCEPT ![c] = 0]
    /\ UNCHANGED intake

Client(c) ==
    \/ \E r \in Requests : Ask(c, r)
    \/ ReadMemory(c) \/ ReadPlanFeatures(c)
    \/ ReadSubscription(c) \/ ReadSubscriptionFails(c)
    \/ Respond(c) \/ Hears(c)

-----------------------------------------------------------------------------
\* The provider has no key.
WebhookRequest == [method |-> "POST", path |-> <<"v1", "webhook", "lemonsqueezy">>,
                   key |-> "none", proxied |-> TRUE, input |-> "valid"]

DeliverPast(n) == Refusal(WebhookRequest) = 0 /\ DeliverSome(n)

\* The requests that are under way end with the process.
CrashWithReaders ==
    /\ Crash
    /\ asked'  = [c \in Clients |-> Nothing]
    /\ got'    = [c \in Clients |-> <<>>]
    /\ status' = [c \in Clients |-> 0]
    /\ UNCHANGED heard

Intake ==
    \/ Emit
    \/ \E n \in 1..MaxEvents : DeliverPast(n)
    \/ \E h \in Handlers : Step(h) \/ HandlerFault(h)
    \/ Restart
    \/ AllSettled

ApiNext ==
    \/ Intake /\ UNCHANGED readers
    \/ CrashWithReaders
    \/ \E c \in Clients : Client(c)

ApiSpec == ApiInit /\ [][ApiNext]_api

-----------------------------------------------------------------------------
(* Properties                                                               *)

\* Every variable has its type: what a client has got are the first parts of
\* the answer to what it asked, and only a request that may see them gets any.
ApiTypeOK ==
    /\ asked \in [Clients -> Requests \cup {Nothing}]
    /\ status \in [Clients -> {0, 200, 400, 401, 404, 405, 422, 500}]
    /\ \A c \in Clients :
          /\ asked[c] = Nothing => got[c] = <<>> /\ status[c] = 0
          /\ asked[c] # Nothing /\ got[c] # <<>> =>
                Refusal(asked[c]) = 0 /\ Len(got[c]) <= Len(Parts(asked[c]))
          /\ Len(heard[c]) <= MaxAnswers
          /\ \A a \in DOMAIN heard[c] :
                Len(heard[c][a].parts) = Len(Parts(heard[c][a].request))

\* What the user's parts would be if all events up to the n-th, and no other,
\* had been applied.
LastUpTo(u, n) == {m \in EventsOf(u) : m <= n /\ \A k \in EventsOf(u) : k <= n => k <= m}

PlanAfter(u, n) ==
    IF LastUpTo(u, n) = {} THEN NoPlan
    ELSE LET event == events[CHOOSE m \in LastUpTo(u, n) : TRUE]
         IN  IF IsActive(event.status) THEN PlanFor[event.product] ELSE NoPlan

RowAfter(u, n) ==
    IF LastUpTo(u, n) = {} THEN NoRow
    ELSE RowFor(events[CHOOSE m \in LastUpTo(u, n) : TRUE])

PartAfter(part, r, n) ==
    IF part = "subscription" THEN Shown(RowAfter(r.user, n))
    ELSE FromMemory(part, r, PlanAfter(r.user, n))

\* The k-th part of the a-th answer is about the user, not the configuration.
IsRead(answers, a, k) ==
    /\ a \in DOMAIN answers /\ k \in DOMAIN answers[a].parts
    /\ Parts(answers[a].request)[k] # "plan.features"

PartAt(answers, a, k) == Parts(answers[a].request)[k]
IsRow(answers, a, k)  == PartAt(answers, a, k) = "subscription"

\* The reads of the user's rows (ofRows = TRUE) and those of the memory.
ReadsOf(answers, u, ofRows) ==
    {x \in UNION {{a} \X DOMAIN answers[a].parts : a \in DOMAIN answers} :
        /\ IsRead(answers, x[1], x[2]) /\ answers[x[1]].request.user = u
        /\ IsRow(answers, x[1], x[2]) <=> ofRows}

\* The order of the fields in an answer, whatever order they are read in.
FieldOrder == [verdict |-> 1, plan |-> 1, features |-> 2, subscription |-> 3]

ShownBefore(answers, a, k, b, l) ==
    \/ a < b
    \/ a = b /\ FieldOrder[PartAt(answers, a, k)] < FieldOrder[PartAt(answers, b, l)]

\* What is read is what it would be at its date.
Fits(answers, date) ==
    \A x \in DOMAIN date :
        answers[x[1]].parts[x[2]] =
            PartAfter(PartAt(answers, x[1], x[2]), answers[x[1]].request, date[x])

\* What is shown later is not older.
Grows(answers, date, later) ==
    \A x \in DOMAIN date, y \in DOMAIN later :
        ShownBefore(answers, x[1], x[2], y[1], y[2]) => date[x] <= later[y]

GoesForward(answers, u) ==
    \E mem \in [ReadsOf(answers, u, FALSE) -> 0..Len(events)] :
        /\ Fits(answers, mem) /\ Grows(answers, mem, mem)
        /\ \E tab \in [ReadsOf(answers, u, TRUE) -> 0..Len(events)] :
              /\ Fits(answers, tab) /\ Grows(answers, tab, tab)
              /\ Grows(answers, mem, tab)

\* A client that asks again never hears of the user's past, be it from memory
\* or from the table, in one answer or in several, and whether or not the
\* process has died in between: its reads can be dated by events so that the
\* dates only grow, except that a read of memory may be older than a row the
\* client has seen before, since the table changes first. In particular an
\* answer of GET /v1/users never shows a subscription older than its plan.
ReadsGoForward == \A c \in Clients, u \in Users : GoesForward(heard[c], u)

\* The features GET /v1/check?expand=plan.features shows explain its verdict,
\* also when the user's plan changes while the answer is put together: a
\* feature that is defined is among them exactly if it is allowed.
ExpansionExplainsVerdict ==
    Cat!UniquePlanIds(Conf) =>
        \A c \in Clients : \A a \in DOMAIN heard[c] :
            LET r == heard[c][a].request
                parts == heard[c][a].parts
            IN  (NameOf(r) = "check" /\ Len(parts) = 2) =>
                    (r.feature \in parts[2] <=> parts[1].allowed /\ r.feature \in Defined)

\* The table of endpoints in the README, which does not name the probes.
Documented ==
    [GET |-> {<<"v1", "check">>, <<"v1", "features">>, <<"v1", "features", "*">>,
              <<"v1", "plans">>, <<"v1", "plans", "*">>, <<"v1", "users", "*">>},
     POST |-> {<<"v1", "webhook", "lemonsqueezy">>}]

IsDocumented(r) ==
    /\ r.method \in DOMAIN Documented
    /\ \E pattern \in Documented[r.method] : Matches(pattern, r.path)

\* "All endpoints except the webhook require an X-Api-Key header" (README):
\* without the right one no documented endpoint but the webhook does anything,
\* nor is it told whether the path, the method or the input would do. With it,
\* also through a proxy, the input alone decides: input that cannot be decoded
\* is 400 and invalid input 422 where it is validated, and any other request
\* is answered by its handler.
KeyRequired ==
    \A c \in Clients :
        LET r == asked[c]
        IN  (r # Nothing /\ IsDocumented(r) /\ r.method = "GET") =>
                /\ r.key # "right" => status[c] = 401
                /\ r.key = "right" /\ Validates(r) =>
                       /\ r.input = "undecodable" => status[c] = 400
                       /\ r.input = "invalid"     => status[c] = 422
                /\ r.key = "right" /\ (r.input = "valid" \/ ~Validates(r)) =>
                       status[c] \in {0, 200, 404, 500}
=============================================================================
