----------------------------- MODULE ApiProofs ------------------------------
(***************************************************************************)
(* What clients of the API are told: for any configuration, any requests,  *)
(* any number of clients, events, failures and crashes. For an answer that *)
(* is read at one instant the intake may change memory and table at will;  *)
(* for the reads of several, and of several answers, it matters in which   *)
(* order it changes them, and its invariants are carried along.            *)
(***************************************************************************)
EXTENDS Api, WebhookIntakeProofs

CatalogFacts == INSTANCE CatalogProofs

\* What /v1/check allows is what the plan it answers with lists.
LEMMA VerdictMeansListed ==
    ASSUME Cat!UniquePlanIds(Conf), NEW plan, NEW f
    PROVE  Cat!CheckFeature(Conf, RolesFor(plan), f).allowed
              <=> f \in Cat!PlanFeatures(Conf, Cat!CheckFeature(Conf, RolesFor(plan), f).plan)
<1>1. Conf \in CatalogFacts!Configurations
    BY ApiAssumption DEF Cat!Configurations, CatalogFacts!Configurations
<1>2. CatalogFacts!UniquePlanIds(Conf)
    BY DEF Cat!UniquePlanIds, CatalogFacts!UniquePlanIds
<1>3. CatalogFacts!NoPlanAssumption
    BY IntakeAssumption DEF CatalogFacts!NoPlanAssumption
<1>4. CatalogFacts!CheckFeature(Conf, RolesFor(plan), f).allowed
        <=> f \in CatalogFacts!PlanFeatures(Conf, CatalogFacts!CheckFeature(Conf, RolesFor(plan), f).plan)
    BY <1>1, <1>2, <1>3, CatalogFacts!VerdictIsListed DEF RolesFor
<1>5. \A id : Cat!PlanFeatures(Conf, id) = CatalogFacts!PlanFeatures(Conf, id)
    BY DEF Cat!PlanFeatures, Cat!IsConfigured, Cat!PlanPositions, Cat!Max,
           CatalogFacts!PlanFeatures, CatalogFacts!IsConfigured,
           CatalogFacts!PlanPositions, CatalogFacts!Max
<1>6. Cat!Policies(Conf) = CatalogFacts!Policies(Conf)
    BY DEF Cat!Policies, CatalogFacts!Policies
<1>7. Cat!UserPlan(Conf, RolesFor(plan)) = CatalogFacts!UserPlan(Conf, RolesFor(plan))
    BY DEF Cat!UserPlan, CatalogFacts!UserPlan
<1>8. Cat!Enforce(Conf, RolesFor(plan), f) <=> CatalogFacts!Enforce(Conf, RolesFor(plan), f)
    BY <1>6 DEF Cat!Enforce, CatalogFacts!Enforce
<1>9. Cat!CheckFeature(Conf, RolesFor(plan), f).plan
        = CatalogFacts!CheckFeature(Conf, RolesFor(plan), f).plan
    BY <1>7 DEF Cat!CheckFeature, Cat!CheckResult,
                CatalogFacts!CheckFeature, CatalogFacts!CheckResult
<1>10. Cat!CheckFeature(Conf, RolesFor(plan), f).allowed
         <=> CatalogFacts!CheckFeature(Conf, RolesFor(plan), f).allowed
    BY <1>5, <1>7, <1>8
       DEF Cat!CheckFeature, Cat!CheckResult, Cat!AllowedFor,
           CatalogFacts!CheckFeature, CatalogFacts!CheckResult, CatalogFacts!AllowedFor
<1> QED BY <1>4, <1>5, <1>9, <1>10

-----------------------------------------------------------------------------
(* The inductive invariant, client by client                                *)

\* The parts that have been read for a request, in what they say of a check.
Explained(r, parts) ==
    NameOf(r) = "check" =>
        /\ Len(parts) >= 1 =>
               \E plan : parts[1] = Cat!CheckFeature(Conf, RolesFor(plan), r.feature)
        /\ Len(parts) >= 2 => parts[2] = ToPlan(parts[1].plan)

IsAnswer(answer) ==
    /\ \E S : answer.parts \in Seq(S)
    /\ Len(answer.parts) = Len(Parts(answer.request))
    /\ Explained(answer.request, answer.parts)

\* A request, the parts it has, its status, and the answers of its client.
Good(r, parts, code, answers) ==
    /\ r \in Requests \cup {Nothing}
    /\ \E S : parts \in Seq(S)
    /\ r = Nothing => parts = <<>> /\ code = 0
    /\ r # Nothing =>
          /\ Len(answers) < MaxAnswers
          /\ Len(parts) <= Len(Parts(r))
          /\ Explained(r, parts)
          /\ IF Refusal(r) = 0
             THEN /\ code \in {0, 200, 404, 500}
                  /\ code = 200 => Len(parts) = Len(Parts(r))
             ELSE code = Refusal(r) /\ parts = <<>>
    /\ \E S : answers \in Seq(S)
    /\ Len(answers) <= MaxAnswers
    /\ \A a \in DOMAIN answers : IsAnswer(answers[a])

IsFunctionOn(f, S) == f = [x \in S |-> f[x]]

ApiInv ==
    /\ IsFunctionOn(asked, Clients) /\ IsFunctionOn(got, Clients)
    /\ IsFunctionOn(status, Clients) /\ IsFunctionOn(heard, Clients)
    /\ \A c \in Clients : Good(asked[c], got[c], status[c], heard[c])

-----------------------------------------------------------------------------
LEMMA AppendOne ==
    ASSUME NEW S, NEW s \in Seq(S), NEW v
    PROVE  /\ Append(s, v) \in Seq(S \cup {v})
           /\ Len(Append(s, v)) = Len(s) + 1
           /\ \A i \in 1..Len(s) : Append(s, v)[i] = s[i]
           /\ Append(s, v)[Len(s) + 1] = v
<1>1. s \in Seq(S \cup {v})
    OBVIOUS
<1> QED BY <1>1

LEMMA RefusalRange == \A r \in Requests : Refusal(r) \in {0, 400, 401, 404, 405, 422}
<1> SUFFICES ASSUME NEW r \in Requests PROVE Refusal(r) \in {0, 400, 401, 404, 405, 422}
    OBVIOUS
<1>1. InputStatus(r) \in {0, 400, 422}
    BY ApiAssumption DEF InputStatus
<1> QED BY <1>1 DEF Refusal

PartNames == {"plan", "features", "subscription", "verdict", "plan.features"}

LEMMA PartsType == \A r : Parts(r) \in Seq(PartNames) /\ Len(Parts(r)) \in Nat
<1>1. ASSUME NEW r, NEW part \in PartNames PROVE Expanded(r, part) \in Seq(PartNames)
    <2>1. <<part>> \in Seq(PartNames) /\ <<>> \in Seq(PartNames)
        OBVIOUS
    <2>2. Expanded(r, part) = <<part>> \/ Expanded(r, part) = <<>>
        BY DEF Expanded
    <2> QED BY <2>1, <2>2
<1>2. ASSUME NEW r PROVE Parts(r) \in Seq(PartNames)
    <2>1. /\ Expanded(r, "features") \in Seq(PartNames)
          /\ Expanded(r, "subscription") \in Seq(PartNames)
          /\ Expanded(r, "plan.features") \in Seq(PartNames)
        <3>1. "features" \in PartNames /\ "subscription" \in PartNames /\ "plan.features" \in PartNames
            BY DEF PartNames
        <3> QED BY <1>1, <3>1
    <2>2. /\ <<"plan">> \in Seq(PartNames) /\ <<"verdict">> \in Seq(PartNames)
          /\ <<>> \in Seq(PartNames)
        BY DEF PartNames
    <2>3. \A x, y \in Seq(PartNames) : x \o y \in Seq(PartNames)
        OBVIOUS
    <2>4. CASE NameOf(r) = "user"
        BY <2>1, <2>2, <2>3, <2>4 DEF Parts
    <2>5. CASE NameOf(r) = "check"
        BY <2>1, <2>2, <2>3, <2>5 DEF Parts
    <2>6. CASE NameOf(r) \notin {"user", "check"}
        BY <2>2, <2>6 DEF Parts
    <2> QED BY <2>4, <2>5, <2>6
<1>3. \A t \in Seq(PartNames) : Len(t) \in Nat
    OBVIOUS
<1> QED BY <1>2, <1>3

LEMMA PartsOfCheck ==
    ASSUME NEW r, NameOf(r) = "check"
    PROVE  /\ Len(Parts(r)) \in 1..2
           /\ Parts(r)[1] = "verdict"
           /\ Len(Parts(r)) = 2 => Parts(r)[2] = "plan.features"
<1>1. Parts(r) = <<"verdict">> \o Expanded(r, "plan.features")
    BY DEF Parts
<1> QED BY <1>1 DEF Expanded

\* A step of one client leaves the others as they are.
LEMMA OneClient ==
    ASSUME ApiInv, NEW c \in Clients, NEW r, NEW parts, NEW code, NEW answers,
           asked'  = [asked EXCEPT ![c] = r],
           got'    = [got EXCEPT ![c] = parts],
           status' = [status EXCEPT ![c] = code],
           heard'  = [heard EXCEPT ![c] = answers],
           Good(r, parts, code, answers)
    PROVE  ApiInv'
<1>1. /\ IsFunctionOn(asked, Clients)' /\ IsFunctionOn(got, Clients)'
      /\ IsFunctionOn(status, Clients)' /\ IsFunctionOn(heard, Clients)'
    BY DEF ApiInv, IsFunctionOn
<1>2. /\ asked'[c] = r /\ got'[c] = parts /\ status'[c] = code /\ heard'[c] = answers
      /\ \A d \in Clients \ {c} : /\ asked'[d] = asked[d] /\ got'[d] = got[d]
                                  /\ status'[d] = status[d] /\ heard'[d] = heard[d]
    BY DEF ApiInv, IsFunctionOn
<1>3. \A d \in Clients : Good(asked'[d], got'[d], status'[d], heard'[d])
    BY <1>2 DEF ApiInv
<1> QED BY <1>1, <1>3 DEF ApiInv

\* What is not assigned is assigned what it is.
LEMMA SameHere ==
    ASSUME ApiInv, NEW c \in Clients
    PROVE  /\ [asked EXCEPT ![c] = asked[c]] = asked
           /\ [got EXCEPT ![c] = got[c]] = got
           /\ [status EXCEPT ![c] = status[c]] = status
           /\ [heard EXCEPT ![c] = heard[c]] = heard
BY DEF ApiInv, IsFunctionOn

-----------------------------------------------------------------------------
LEMMA AskKeeps ==
    ASSUME ApiInv, NEW c \in Clients, NEW r \in Requests, Ask(c, r)
    PROVE  ApiInv'
<1>1. Good(Nothing, got[c], status[c], heard[c]) /\ asked[c] = Nothing
    BY DEF ApiInv, Ask
<1>2. Explained(r, <<>>)
    BY DEF Explained
<1>3. /\ r # Nothing /\ got[c] = <<>> /\ Len(got[c]) <= Len(Parts(r))
      /\ Len(heard[c]) < MaxAnswers
    BY <1>1, ApiAssumption, PartsType DEF Good, Ask
<1>4. Good(r, got[c], Refusal(r), heard[c])
    BY <1>1, <1>2, <1>3, PartsType DEF Good
<1>5. /\ asked'  = [asked EXCEPT ![c] = r]
      /\ got'    = [got EXCEPT ![c] = got[c]]
      /\ status' = [status EXCEPT ![c] = Refusal(r)]
      /\ heard'  = [heard EXCEPT ![c] = heard[c]]
    BY SameHere DEF Ask
<1> QED BY <1>4, <1>5, OneClient

\* One more part, which is right if it is part of a check.
LEMMA GetsKeeps ==
    ASSUME ApiInv, NEW c \in Clients, NEW part, NEW value,
           Reading(c, part), Gets(c, value),
           NameOf(asked[c]) = "check" =>
               /\ part = "verdict" =>
                      \E plan : value = Cat!CheckFeature(Conf, RolesFor(plan), asked[c].feature)
               /\ part = "plan.features" => value = ToPlan(got[c][1].plan)
    PROVE  ApiInv'
<1> DEFINE r == asked[c]
           parts == got[c]
           more == Append(got[c], value)
<1>1. /\ r # Nothing /\ status[c] = 0
      /\ Len(parts) < Len(Parts(r))
      /\ Parts(r)[Len(parts) + 1] = part
      /\ Good(r, parts, status[c], heard[c])
    BY DEF ApiInv, Reading, NextPart
<1>2. PICK S : parts \in Seq(S)
    BY <1>1 DEF Good
<1>3. Explained(r, parts) /\ Refusal(r) = 0
    BY <1>1 DEF Good
<1>4. /\ more \in Seq(S \cup {value}) /\ Len(parts) \in Nat
      /\ Len(more) = Len(parts) + 1
      /\ \A i \in 1..Len(parts) : more[i] = parts[i]
      /\ more[Len(parts) + 1] = value
    BY <1>2, AppendOne
<1>5. Explained(r, more)
    <2> SUFFICES ASSUME NameOf(r) = "check"
                 PROVE  /\ Len(more) >= 1 =>
                               \E plan : more[1] = Cat!CheckFeature(Conf, RolesFor(plan), r.feature)
                        /\ Len(more) >= 2 => more[2] = ToPlan(more[1].plan)
        BY DEF Explained
    <2>1. Len(parts) \in 0..1
        <3>1. \A m \in 1..2 : \A n \in Nat : n < m => n \in 0..1
            OBVIOUS
        <3>2. Len(Parts(r)) \in 1..2
            BY PartsOfCheck
        <3>3. Len(parts) \in Nat /\ Len(parts) < Len(Parts(r))
            BY <1>1, <1>4
        <3> HIDE DEF r, parts
        <3> QED BY <3>1, <3>2, <3>3
    <2>2. CASE Len(parts) = 0
        BY <1>1, <1>4, <2>2, PartsOfCheck
    <2>3. CASE Len(parts) = 1
        BY <1>1, <1>3, <1>4, <2>3, PartsOfCheck DEF Explained
    <2> QED BY <2>1, <2>2, <2>3
<1>6. Len(more) <= Len(Parts(r))
    BY <1>1, <1>4, PartsType
<1> HIDE DEF r, parts, more
<1>7. Good(r, more, status[c], heard[c])
    BY <1>1, <1>3, <1>4, <1>5, <1>6 DEF Good
<1>8. /\ asked'  = [asked EXCEPT ![c] = r]
      /\ got'    = [got EXCEPT ![c] = more]
      /\ status' = [status EXCEPT ![c] = status[c]]
      /\ heard'  = [heard EXCEPT ![c] = heard[c]]
    BY SameHere DEF Gets, r, more
<1> QED BY <1>7, <1>8, OneClient

LEMMA ReadKeeps ==
    ASSUME ApiInv, NEW c \in Clients,
           ReadMemory(c) \/ ReadPlanFeatures(c) \/ ReadSubscription(c)
    PROVE  ApiInv'
<1>1. CASE ReadMemory(c)
    <2>1. PICK part \in {"plan", "features", "verdict"} :
              Reading(c, part) /\ Gets(c, FromMemory(part, asked[c], assigned[asked[c].user]))
        BY <1>1 DEF ReadMemory
    <2>2. part = "verdict" =>
              FromMemory(part, asked[c], assigned[asked[c].user])
                = Cat!CheckFeature(Conf, RolesFor(assigned[asked[c].user]), asked[c].feature)
        BY DEF FromMemory
    <2> QED BY <2>1, <2>2, GetsKeeps
<1>2. CASE ReadPlanFeatures(c)
    BY <1>2, GetsKeeps DEF ReadPlanFeatures
<1>3. CASE ReadSubscription(c)
    <2>1. PICK value : Reading(c, "subscription") /\ Gets(c, value)
        BY <1>3 DEF ReadSubscription
    <2> QED BY <2>1, GetsKeeps
<1> QED BY <1>1, <1>2, <1>3

LEMMA StatusKeeps ==
    ASSUME ApiInv, NEW c \in Clients, ReadSubscriptionFails(c) \/ Respond(c)
    PROVE  ApiInv'
<1>1. asked[c] # Nothing /\ status[c] = 0 /\ UNCHANGED <<asked, got, heard>>
    BY DEF ReadSubscriptionFails, Respond, Reading
<1>2. PICK code :
          /\ code \in {0, 200, 404, 500}
          /\ status' = [status EXCEPT ![c] = code]
          /\ code = 200 => Len(got[c]) = Len(Parts(asked[c]))
    BY DEF ReadSubscriptionFails, Respond
<1>3. Good(asked[c], got[c], status[c], heard[c]) /\ Refusal(asked[c]) = 0
    BY <1>1 DEF ApiInv, Good
<1>4. Good(asked[c], got[c], code, heard[c])
    BY <1>1, <1>2, <1>3 DEF Good
<1>5. /\ asked'  = [asked EXCEPT ![c] = asked[c]]
      /\ got'    = [got EXCEPT ![c] = got[c]]
      /\ status' = [status EXCEPT ![c] = code]
      /\ heard'  = [heard EXCEPT ![c] = heard[c]]
    BY <1>1, <1>2, SameHere
<1> QED BY <1>4, <1>5, OneClient

LEMMA HearsKeeps ==
    ASSUME ApiInv, NEW c \in Clients, Hears(c)
    PROVE  ApiInv'
<1> DEFINE answer == [request |-> asked[c], parts |-> got[c]]
           longer == Append(heard[c], answer)
<1>1. Good(asked[c], got[c], status[c], heard[c]) /\ asked[c] # Nothing
    BY DEF ApiInv, Hears, Good
<1>2. Nothing \in Requests \cup {Nothing} /\ \E S : <<>> \in Seq(S)
    OBVIOUS
<1>3. Good(Nothing, <<>>, 0, heard[c])
    BY <1>1, <1>2 DEF Good
<1>4. CASE status[c] = 200 /\ got[c] # <<>>
    <2>1. PICK S : heard[c] \in Seq(S)
        BY <1>1 DEF Good
    <2>2. /\ longer \in Seq(S \cup {answer}) /\ Len(longer) = Len(heard[c]) + 1
          /\ Len(heard[c]) \in Nat
          /\ \A a \in 1..Len(heard[c]) : longer[a] = heard[c][a]
          /\ longer[Len(heard[c]) + 1] = answer
        BY <2>1, AppendOne
    <2>3. IsAnswer(answer)
        BY <1>1, <1>4, RefusalRange DEF Good, IsAnswer
    <2>4. Len(longer) <= MaxAnswers
        BY <1>1, <2>2, ApiAssumption DEF Good
    <2>5. \A a \in DOMAIN longer : IsAnswer(longer[a])
        <3>1. /\ DOMAIN longer = 1..Len(heard[c]) + 1
              /\ DOMAIN heard[c] = 1..Len(heard[c])
            BY <2>1, <2>2
        <3>2. \A a \in 1..Len(heard[c]) : IsAnswer(heard[c][a])
            BY <1>1, <3>1 DEF Good
        <3> HIDE DEF longer, answer
        <3>3. ASSUME NEW a \in DOMAIN longer PROVE IsAnswer(longer[a])
            <4>1. a \in 1..Len(heard[c]) \/ a = Len(heard[c]) + 1
                BY <2>2, <3>1
            <4> QED BY <2>2, <2>3, <3>2, <4>1
        <3> QED BY <3>3
    <2> HIDE DEF longer, answer
    <2>6. Good(Nothing, <<>>, 0, longer)
        BY <1>3, <2>2, <2>4, <2>5 DEF Good
    <2>7. heard' = [heard EXCEPT ![c] = longer]
        BY <1>4 DEF Hears, ApiInv, IsFunctionOn, longer, answer
    <2> QED BY <2>6, <2>7, OneClient DEF Hears
<1>5. CASE ~(status[c] = 200 /\ got[c] # <<>>)
    BY <1>3, <1>5, OneClient, SameHere DEF Hears
<1> QED BY <1>4, <1>5

LEMMA CrashKeeps == ApiInv /\ CrashWithReaders => ApiInv'
<1> SUFFICES ASSUME ApiInv, CrashWithReaders PROVE ApiInv'
    OBVIOUS
<1>1. \A c \in Clients : Good(Nothing, <<>>, 0, heard[c])
    <2>1. Nothing \in Requests \cup {Nothing} /\ \E S : <<>> \in Seq(S)
        OBVIOUS
    <2> QED BY <2>1 DEF ApiInv, Good
<1>2. \A c \in Clients :
          asked'[c] = Nothing /\ got'[c] = <<>> /\ status'[c] = 0 /\ heard'[c] = heard[c]
    BY DEF CrashWithReaders
<1>3. /\ IsFunctionOn(asked, Clients)' /\ IsFunctionOn(got, Clients)'
      /\ IsFunctionOn(status, Clients)' /\ IsFunctionOn(heard, Clients)'
    BY DEF CrashWithReaders, ApiInv, IsFunctionOn
<1> QED BY <1>1, <1>2, <1>3 DEF ApiInv

LEMMA InitKeeps == ApiInit => ApiInv
<1> SUFFICES ASSUME ApiInit PROVE ApiInv
    OBVIOUS
<1>1. Good(Nothing, <<>>, 0, <<>>)
    <2>1. <<>> \in Seq({}) /\ Len(<<>>) = 0 /\ DOMAIN <<>> = {}
        OBVIOUS
    <2>2. 0 <= MaxAnswers
        BY ApiAssumption
    <2> QED BY <2>1, <2>2 DEF Good
<1> QED BY <1>1 DEF ApiInit, ApiInv, IsFunctionOn

LEMMA StepsKeepApiInv == ApiInv /\ [ApiNext]_api => ApiInv'
<1> SUFFICES ASSUME ApiInv, [ApiNext]_api PROVE ApiInv'
    OBVIOUS
<1>1. CASE UNCHANGED readers
    BY <1>1 DEF readers, ApiInv, IsFunctionOn
<1>2. CASE CrashWithReaders
    BY <1>2, CrashKeeps
<1>3. ASSUME NEW c \in Clients, Client(c) PROVE ApiInv'
    BY <1>3, AskKeeps, ReadKeeps, StatusKeeps, HearsKeeps DEF Client
<1> QED BY <1>1, <1>2, <1>3 DEF ApiNext, api

\* What every client has been told, and is about to be told, is as ApiInv says.
THEOREM Invariance == ApiSpec => []ApiInv
BY InitKeeps, StepsKeepApiInv, PTL DEF ApiSpec

(* The type invariant: nobody gets a part of an answer he may not see.      *)
THEOREM ApiTypeCorrect == ApiSpec => []ApiTypeOK
<1>1. ApiInv => ApiTypeOK
    <2> SUFFICES ASSUME ApiInv PROVE ApiTypeOK
        OBVIOUS
    <2>1. \A c \in Clients : Good(asked[c], got[c], status[c], heard[c])
        BY DEF ApiInv
    <2>2. \A c \in Clients : asked[c] \in Requests \cup {Nothing}
        BY <2>1 DEF Good
    <2>3. \A c \in Clients : status[c] \in {0, 200, 400, 401, 404, 405, 422, 500}
        BY <2>1, RefusalRange DEF Good
    <2>4. /\ asked \in [Clients -> Requests \cup {Nothing}]
          /\ status \in [Clients -> {0, 200, 400, 401, 404, 405, 422, 500}]
        BY <2>2, <2>3 DEF ApiInv, IsFunctionOn
    <2>5. \A c \in Clients :
              /\ asked[c] = Nothing => got[c] = <<>> /\ status[c] = 0
              /\ asked[c] # Nothing /\ got[c] # <<>> =>
                    Refusal(asked[c]) = 0 /\ Len(got[c]) <= Len(Parts(asked[c]))
              /\ Len(heard[c]) <= MaxAnswers
        BY <2>1 DEF Good
    <2>6. \A c \in Clients : \A a \in DOMAIN heard[c] :
              Len(heard[c][a].parts) = Len(Parts(heard[c][a].request))
        BY <2>1 DEF Good, IsAnswer
    <2> QED BY <2>4, <2>5, <2>6 DEF ApiTypeOK
<1> QED BY <1>1, Invariance, PTL

(* With unique plan ids, the features a check is expanded with explain its  *)
(* verdict, whatever the intake does while the answer is put together.      *)
THEOREM ExpansionExplains == ApiSpec => []ExpansionExplainsVerdict
<1>1. ApiInv => ExpansionExplainsVerdict
    <2> SUFFICES ASSUME ApiInv, Cat!UniquePlanIds(Conf),
                        NEW c \in Clients, NEW a \in DOMAIN heard[c],
                        NameOf(heard[c][a].request) = "check", Len(heard[c][a].parts) = 2
                 PROVE  heard[c][a].request.feature \in heard[c][a].parts[2]
                           <=> /\ heard[c][a].parts[1].allowed
                               /\ heard[c][a].request.feature \in Defined
        BY DEF ExpansionExplainsVerdict
    <2>1. Explained(heard[c][a].request, heard[c][a].parts)
        BY DEF ApiInv, Good, IsAnswer
    <2>2. PICK plan : heard[c][a].parts[1] =
              Cat!CheckFeature(Conf, RolesFor(plan), heard[c][a].request.feature)
        BY <2>1 DEF Explained
    <2>3. heard[c][a].parts[2] = ToPlan(heard[c][a].parts[1].plan)
        BY <2>1 DEF Explained
    <2> QED BY <2>2, <2>3, VerdictMeansListed DEF ToPlan
<1> QED BY <1>1, Invariance, PTL

-----------------------------------------------------------------------------
(* The key. The path of the metrics needs none, so it must not be that of   *)
(* an endpoint: the configuration does not enforce this.                    *)

MetricsIsApart ==
    \A r \in Requests : IsDocumented(r) => ~Matches(MetricsPath, r.path)

\* A documented GET has the path of a route under /v1.
LEMMA DocumentedPaths ==
    ASSUME NEW r \in Requests, IsDocumented(r), r.method = "GET"
    PROVE  /\ Len(r.path) \in 2..3 /\ DOMAIN r.path = 1..Len(r.path)
           /\ r.path[1] = "v1"
           /\ r.path[2] \in {"check", "features", "plans", "users"}
<1>1. DOMAIN r.path = 1..Len(r.path) /\ Len(r.path) \in Nat
    BY ApiAssumption
<1>2. PICK pattern \in {<<"v1", "check">>, <<"v1", "features">>, <<"v1", "features", "*">>,
                        <<"v1", "plans">>, <<"v1", "plans", "*">>, <<"v1", "users", "*">>} :
          Matches(pattern, r.path)
    BY DEF IsDocumented, Documented
<1>3. /\ Len(r.path) \in 2..3
      /\ pattern[1] = "v1" /\ pattern[2] \in {"check", "features", "plans", "users"}
    BY <1>2 DEF Matches
<1>4. pattern[1] \in {"*", r.path[1]} /\ pattern[2] \in {"*", r.path[2]}
    BY <1>1, <1>2, <1>3 DEF Matches
<1> QED BY <1>1, <1>3, <1>4

\* No exemption fits it.
LEMMA DocumentedNeedsKey ==
    ASSUME MetricsIsApart, NEW r \in Requests, IsDocumented(r), r.method = "GET"
    PROVE  ~SkipsAuth(r.path)
<1>1. ~Matches(HealthPath, r.path)
    BY DocumentedPaths DEF Matches, HealthPath
<1>2. ~Matches(<<"v1", "webhook", "*">>, r.path)
    <2> SUFFICES ASSUME Matches(<<"v1", "webhook", "*">>, r.path) PROVE FALSE
        OBVIOUS
    <2>1. 2 \in DOMAIN r.path
        BY DocumentedPaths
    <2>2. "webhook" \in {"*", r.path[2]}
        BY <2>1 DEF Matches
    <2> QED BY <2>2, DocumentedPaths
<1>3. ~Matches(MetricsPath, r.path)
    BY DEF MetricsIsApart
<1> QED BY <1>1, <1>2, <1>3 DEF SkipsAuth, SkipsAny

\* It has a route, and every route it has is one of the API.
LEMMA DocumentedIsServed ==
    ASSUME MetricsIsApart, NEW r \in Requests, IsDocumented(r), r.method = "GET"
    PROVE  /\ RoutesFor(r) # {}
           /\ NameOf(r) \notin {"health", "metrics"}
<1>1. PICK pattern \in {<<"v1", "check">>, <<"v1", "features">>, <<"v1", "features", "*">>,
                        <<"v1", "plans">>, <<"v1", "plans", "*">>, <<"v1", "users", "*">>} :
          Matches(pattern, r.path)
    BY DEF IsDocumented, Documented
<1>2. \E name : Handle("GET", pattern, name) \in Routes
    BY DEF Routes
<1>3. PICK name : Handle("GET", pattern, name) \in Routes
    BY <1>2
<1>4. Handle("GET", pattern, name) \in RoutesFor(r)
    BY <1>1, <1>3 DEF RoutesFor, RoutesAt, Handle
<1>5. ASSUME NEW route \in RoutesFor(r) PROVE route.name \notin {"health", "metrics"}
    <2>1. route \in Routes /\ Matches(route.pattern, r.path)
        BY DEF RoutesFor, RoutesAt
    <2>2. route # Handle("GET", HealthPath, "health")
        BY <2>1, DocumentedPaths DEF Matches, HealthPath, Handle
    <2>3. route # Handle("GET", MetricsPath, "metrics")
        BY <2>1 DEF MetricsIsApart, Handle
    <2> QED BY <2>1, <2>2, <2>3 DEF Routes, Handle
<1>6. (CHOOSE route \in RoutesFor(r) : TRUE) \in RoutesFor(r)
    BY <1>4
<1> QED BY <1>4, <1>5, <1>6 DEF NameOf

\* Its refusal, or none.
LEMMA DocumentedRefusal ==
    ASSUME MetricsIsApart, NEW r \in Requests, IsDocumented(r), r.method = "GET"
    PROVE  /\ r.key # "right" => Refusal(r) = 401
           /\ r.key = "right" /\ Validates(r) =>
                  /\ r.input = "undecodable" => Refusal(r) = 400
                  /\ r.input = "invalid"     => Refusal(r) = 422
           /\ r.key = "right" /\ (r.input = "valid" \/ ~Validates(r)) => Refusal(r) = 0
<1>1. Authorized(r) <=> r.key = "right"
    BY DocumentedNeedsKey DEF Authorized
<1>2. RoutesFor(r) # {} /\ RoutesAt(r.path) # {} /\ ~Hides(r)
    BY DocumentedIsServed DEF RoutesFor, Hides
<1>3. /\ r.input = "valid" => InputStatus(r) = 0
      /\ r.input = "invalid" => InputStatus(r) = 422
      /\ r.input = "undecodable" => InputStatus(r) = 400
    BY DEF InputStatus
<1> QED BY <1>1, <1>2, <1>3 DEF Refusal

(* No documented endpoint but the webhook does anything without the right   *)
(* key; with it, input that cannot be decoded and invalid input have each   *)
(* their answer, and every other request reaches its handler.               *)
THEOREM KeyIsRequired ==
    ASSUME MetricsIsApart
    PROVE  ApiSpec => []KeyRequired
<1>1. ApiInv => KeyRequired
    <2> SUFFICES ASSUME ApiInv, NEW c \in Clients, asked[c] # Nothing,
                        IsDocumented(asked[c]), asked[c].method = "GET"
                 PROVE  /\ asked[c].key # "right" => status[c] = 401
                        /\ asked[c].key = "right" /\ Validates(asked[c]) =>
                               /\ asked[c].input = "undecodable" => status[c] = 400
                               /\ asked[c].input = "invalid"     => status[c] = 422
                        /\ asked[c].key = "right"
                           /\ (asked[c].input = "valid" \/ ~Validates(asked[c])) =>
                               status[c] \in {0, 200, 404, 500}
        BY DEF KeyRequired
    <2>1. asked[c] \in Requests
        BY DEF ApiInv, Good
    <2>2. IF Refusal(asked[c]) = 0
          THEN status[c] \in {0, 200, 404, 500} ELSE status[c] = Refusal(asked[c])
        BY DEF ApiInv, Good
    <2> QED BY <2>1, <2>2, DocumentedRefusal
<1> QED BY <1>1, Invariance, PTL
-----------------------------------------------------------------------------
(* Nobody hears of the past. Every read is dated by the event whose effect  *)
(* it shows: a row by the date of the table and the rest by the date of the *)
(* memory, as they were when it was read. Neither goes back, so no read is  *)
(* dated before an earlier one of the same user, unless it is of the memory *)
(* and the earlier one of the table.                                        *)

\* What a client has heard, and then what is read of the answer under way.
WithPending(answers, r, parts) == Append(answers, [request |-> r, parts |-> parts])

Log(c) == WithPending(heard[c], asked[c], got[c])

Earlier(a, k, b, l) == a < b \/ (a = b /\ k < l)

\* D dates every read of the log, none later than the store it is of.
EachDated(log, D, mem, tab) ==
    \A a, k : IsRead(log, a, k) =>
        LET u == log[a].request.user
        IN  /\ u \in Users
            /\ a \in Nat /\ k \in Nat
            /\ D[<<a, k>>] \in 0..Len(events)
            /\ log[a].parts[k] = PartAfter(PartAt(log, a, k), log[a].request, D[<<a, k>>])
            /\ D[<<a, k>>] <= IF IsRow(log, a, k) THEN tab[u] ELSE mem[u]

Forward(log, D) ==
    \A a, k, b, l :
        (/\ IsRead(log, a, k) /\ IsRead(log, b, l)
         /\ log[a].request.user = log[b].request.user
         /\ Earlier(a, k, b, l)
         /\ IsRow(log, a, k) => IsRow(log, b, l)) => D[<<a, k>>] <= D[<<b, l>>]

Dated(log, D, mem, tab) ==
    /\ D \in [Nat \X Nat -> Nat]
    /\ EachDated(log, D, mem, tab)
    /\ Forward(log, D)

FlowInv ==
    \E mem, tab :
        /\ StoresDated(mem, tab)
        /\ \A c \in Clients : \E log, D : log = Log(c) /\ Dated(log, D, mem, tab)

\* Every read of the one is that read of the other.
ReadsAmong(new, old) ==
    \A a, k : IsRead(new, a, k) =>
        /\ IsRead(old, a, k)
        /\ new[a].request = old[a].request
        /\ new[a].parts[k] = old[a].parts[k]

-----------------------------------------------------------------------------
\* The events so far, whatever is added.
EventsKept ==
    /\ Len(events) \in Nat /\ Len(events') \in Nat /\ Len(events) <= Len(events')
    /\ DOMAIN events = 1..Len(events) /\ DOMAIN events' = 1..Len(events')
    /\ \A n \in 1..Len(events) : events'[n] = events[n]

\* What a part would be after an event is settled when the event is there.
LEMMA PastStays ==
    ASSUME EventsKept, NEW part, NEW r, NEW n \in 0..Len(events)
    PROVE  PartAfter(part, r, n)' = PartAfter(part, r, n)
<1>1. ASSUME NEW u PROVE LastUpTo(u, n)' = LastUpTo(u, n)
    <2>1. ASSUME NEW m
          PROVE  m \in EventsOf(u)' /\ m <= n <=> m \in EventsOf(u) /\ m <= n
        BY DEF EventsKept, EventsOf, UserOf
    <2> QED BY <2>1 DEF LastUpTo
<1>2. ASSUME NEW u, NEW m, m \in LastUpTo(u, n) PROVE events'[m] = events[m]
    BY <1>2 DEF EventsKept, LastUpTo, EventsOf
<1>3. ASSUME NEW u
      PROVE  PlanAfter(u, n)' = PlanAfter(u, n) /\ RowAfter(u, n)' = RowAfter(u, n)
    <2>1. CASE LastUpTo(u, n) = {}
        BY <1>1, <2>1 DEF PlanAfter, RowAfter
    <2>2. CASE LastUpTo(u, n) # {}
        <3> DEFINE last == CHOOSE m \in LastUpTo(u, n) : TRUE
        <3>1. last \in LastUpTo(u, n)
            BY <2>2
        <3>2. events'[last] = events[last]
            BY <1>2, <3>1
        <3>3. (CHOOSE m \in LastUpTo(u, n)' : TRUE) = last
            BY <1>1
        <3>4. PlanAfter(u, n)' = PlanAfter(u, n)
            BY <1>1, <2>2, <3>2, <3>3 DEF PlanAfter
        <3>5. RowAfter(u, n)' = RowAfter(u, n)
            BY <1>1, <2>2, <3>2, <3>3 DEF RowAfter, RowFor
        <3> QED BY <3>4, <3>5
    <2> QED BY <2>1, <2>2
<1> QED BY <1>3 DEF PartAfter

\* The current event of a user is the last one up to itself.
LEMMA CurrentIsLast ==
    ASSUME TypeOK, NEW u, NEW n, Current(u, n)
    PROVE  /\ n \in 0..Len(events)
           /\ PlanAfter(u, n) = PlanSaid(n)
           /\ RowAfter(u, n) = RowSaid(n)
<1>1. EventsOf(u) \subseteq 1..Len(events) /\ Len(events) \in Nat
    BY EventNumbers
<1>2. n \in {0} \cup EventsOf(u)
    BY DEF Current
<1>3. LastUpTo(u, n) = IF n = 0 THEN {} ELSE {n}
    BY <1>1, <1>2 DEF LastUpTo
<1> QED BY <1>1, <1>2, <1>3 DEF PlanAfter, RowAfter, PlanSaid, RowSaid

\* The dates stay right as long as the log does not grow.
LEMMA TimePasses ==
    ASSUME EventsKept,
           NEW mem \in [Users -> Nat], NEW tab \in [Users -> Nat],
           NEW mem2 \in [Users -> Nat], NEW tab2 \in [Users -> Nat],
           NotBefore(mem, mem2), NotBefore(tab, tab2),
           NEW old, NEW D, Dated(old, D, mem, tab), NEW new, ReadsAmong(new, old)
    PROVE  Dated(new, D, mem2, tab2)'
<1>1. ASSUME NEW a, NEW k, IsRead(new, a, k)
      PROVE  /\ IsRead(old, a, k) /\ new[a].request = old[a].request
             /\ IsRow(new, a, k) <=> IsRow(old, a, k)
             /\ PartAt(new, a, k) = PartAt(old, a, k)
             /\ new[a].parts[k] = old[a].parts[k]
    BY <1>1 DEF ReadsAmong, IsRow, PartAt
<1>2. Forward(new, D)
    BY <1>1 DEF Dated, Forward
<1>3. ASSUME NEW a, NEW k, IsRead(new, a, k), NEW u, u = new[a].request.user
      PROVE  /\ u \in Users /\ a \in Nat /\ k \in Nat
             /\ D[<<a, k>>] \in 0..Len(events)'
             /\ new[a].parts[k] = PartAfter(PartAt(new, a, k), new[a].request, D[<<a, k>>])'
             /\ D[<<a, k>>] <= IF IsRow(new, a, k) THEN tab2[u] ELSE mem2[u]
    <2>1. /\ u \in Users /\ a \in Nat /\ k \in Nat
          /\ D[<<a, k>>] \in 0..Len(events)
          /\ new[a].parts[k] = PartAfter(PartAt(new, a, k), new[a].request, D[<<a, k>>])
          /\ D[<<a, k>>] <= IF IsRow(new, a, k) THEN tab[u] ELSE mem[u]
        BY <1>1, <1>3 DEF Dated, EachDated
    <2>2. /\ mem[u] <= mem2[u] /\ tab[u] <= tab2[u]
          /\ mem[u] \in Nat /\ tab[u] \in Nat /\ mem2[u] \in Nat /\ tab2[u] \in Nat
        BY <2>1 DEF NotBefore
    <2>3. D[<<a, k>>] \in 0..Len(events)'
        BY <2>1 DEF EventsKept
    <2>4. D[<<a, k>>] <= IF IsRow(new, a, k) THEN tab2[u] ELSE mem2[u]
        BY <2>1, <2>2
    <2> QED BY <2>1, <2>3, <2>4, PastStays
<1>4. EachDated(new, D, mem2, tab2)'
    BY <1>3 DEF EachDated
<1> QED BY <1>2, <1>4 DEF Dated, Forward
LEMMA PendingIsLast ==
    ASSUME NEW S, NEW answers \in Seq(S), NEW r, NEW parts,
           NEW log, log = WithPending(answers, r, parts)
    PROVE  /\ Len(answers) \in Nat /\ DOMAIN answers = 1..Len(answers)
           /\ DOMAIN log = 1..(Len(answers) + 1)
           /\ \A a \in 1..Len(answers) : log[a] = answers[a]
           /\ log[Len(answers) + 1] = [request |-> r, parts |-> parts]
<1> DEFINE answer == [request |-> r, parts |-> parts]
<1>1. /\ log \in Seq(S \cup {answer}) /\ Len(log) = Len(answers) + 1
      /\ \A a \in 1..Len(answers) : log[a] = answers[a]
      /\ log[Len(answers) + 1] = answer
    BY AppendOne DEF WithPending
<1>2. Len(answers) \in Nat /\ DOMAIN answers = 1..Len(answers) /\ DOMAIN log = 1..Len(log)
    BY <1>1
<1> QED BY <1>1, <1>2

\* An answer with nothing read adds no read.
LEMMA NothingRead ==
    ASSUME NEW S, NEW answers \in Seq(S), NEW r
    PROVE  ReadsAmong(WithPending(answers, r, <<>>), answers)
<1> SUFFICES ASSUME NEW log, log = WithPending(answers, r, <<>>),
                    NEW a, NEW k, IsRead(log, a, k)
             PROVE  IsRead(answers, a, k) /\ log[a] = answers[a]
    BY DEF ReadsAmong
<1>1. /\ Len(answers) \in Nat /\ DOMAIN answers = 1..Len(answers)
      /\ DOMAIN log = 1..(Len(answers) + 1)
      /\ \A b \in 1..Len(answers) : log[b] = answers[b]
      /\ log[Len(answers) + 1] = [request |-> r, parts |-> <<>>]
    BY PendingIsLast
<1>2. a \in 1..(Len(answers) + 1) /\ k \in DOMAIN log[a].parts
    BY <1>1 DEF IsRead
<1>3. log[Len(answers) + 1].parts = <<>>
    BY <1>1
<1>4. a \in 1..Len(answers)
    BY <1>1, <1>2, <1>3
<1>5. log[a] = answers[a] /\ a \in DOMAIN answers
    BY <1>1, <1>4
<1> QED BY <1>5 DEF IsRead

\* What was heard is still heard.
LEMMA HeardRemains ==
    ASSUME NEW S, NEW answers \in Seq(S), NEW r, NEW parts
    PROVE  ReadsAmong(answers, WithPending(answers, r, parts))
<1> SUFFICES ASSUME NEW log, log = WithPending(answers, r, parts),
                    NEW a, NEW k, IsRead(answers, a, k)
             PROVE  IsRead(log, a, k) /\ log[a] = answers[a]
    BY DEF ReadsAmong
<1>1. /\ Len(answers) \in Nat /\ DOMAIN answers = 1..Len(answers)
      /\ DOMAIN log = 1..(Len(answers) + 1)
      /\ \A b \in 1..Len(answers) : log[b] = answers[b]
      /\ log[Len(answers) + 1] = [request |-> r, parts |-> parts]
    BY PendingIsLast
<1>2. a \in 1..Len(answers)
    BY <1>1 DEF IsRead
<1>3. log[a] = answers[a] /\ a \in DOMAIN log
    BY <1>1, <1>2
<1> QED BY <1>3 DEF IsRead

LEMMA AmongThemselves ==
    /\ \A log : ReadsAmong(log, log)
    /\ \A x, y, z : ReadsAmong(x, y) /\ ReadsAmong(y, z) => ReadsAmong(x, z)
BY DEF ReadsAmong

\* One part more is at most one read more, and the last one.
LEMMA PendingGrows ==
    ASSUME NEW S, NEW answers \in Seq(S), NEW T, NEW parts \in Seq(T), NEW r, NEW value,
           NEW old, old = WithPending(answers, r, parts),
           NEW new, new = WithPending(answers, r, Append(parts, value))
    PROVE  /\ \A a, k : IsRead(new, a, k) =>
                  \/ /\ IsRead(old, a, k)
                     /\ new[a].request = old[a].request
                     /\ new[a].parts[k] = old[a].parts[k]
                     /\ PartAt(new, a, k) = PartAt(old, a, k)
                  \/ /\ a = Len(answers) + 1 /\ k = Len(parts) + 1
                     /\ new[a].request = r
                     /\ new[a].parts[k] = value
           /\ \A a, k : IsRead(old, a, k) =>
                  /\ a \in Nat /\ Earlier(a, k, Len(answers) + 1, Len(parts) + 1)
                  /\ ~Earlier(Len(answers) + 1, Len(parts) + 1, a, k)
                  /\ <<a, k>> # <<Len(answers) + 1, Len(parts) + 1>>
<1>1. /\ Len(parts) \in Nat /\ DOMAIN parts = 1..Len(parts)
      /\ DOMAIN Append(parts, value) = 1..(Len(parts) + 1)
      /\ \A k \in 1..Len(parts) : Append(parts, value)[k] = parts[k]
      /\ Append(parts, value)[Len(parts) + 1] = value
    OBVIOUS
<1>2. /\ Len(answers) \in Nat
      /\ DOMAIN old = 1..(Len(answers) + 1) /\ DOMAIN new = 1..(Len(answers) + 1)
      /\ \A a \in 1..Len(answers) : old[a] = new[a]
      /\ old[Len(answers) + 1] = [request |-> r, parts |-> parts]
      /\ new[Len(answers) + 1] = [request |-> r, parts |-> Append(parts, value)]
    <2>1. /\ Len(answers) \in Nat /\ DOMAIN old = 1..(Len(answers) + 1)
          /\ \A a \in 1..Len(answers) : old[a] = answers[a]
          /\ old[Len(answers) + 1] = [request |-> r, parts |-> parts]
        BY PendingIsLast
    <2> DEFINE more == Append(parts, value)
    <2>2. new = WithPending(answers, r, more)
        OBVIOUS
    <2> HIDE DEF more
    <2>3. /\ Len(answers) \in Nat /\ DOMAIN new = 1..(Len(answers) + 1)
          /\ \A a \in 1..Len(answers) : new[a] = answers[a]
          /\ new[Len(answers) + 1] = [request |-> r, parts |-> more]
        BY <2>2, PendingIsLast
    <2> QED BY <2>1, <2>3 DEF more
<1>3. \A a \in 1..(Len(answers) + 1) : a \in 1..Len(answers) \/ a = Len(answers) + 1
    BY <1>2
<1>4. \A k \in 1..(Len(parts) + 1) : k \in 1..Len(parts) \/ k = Len(parts) + 1
    BY <1>1
<1>5. ASSUME NEW a, NEW k, IsRead(new, a, k)
      PROVE  \/ /\ IsRead(old, a, k)
                /\ new[a].request = old[a].request
                /\ new[a].parts[k] = old[a].parts[k]
                /\ PartAt(new, a, k) = PartAt(old, a, k)
             \/ /\ a = Len(answers) + 1 /\ k = Len(parts) + 1
                /\ new[a].request = r
                /\ new[a].parts[k] = value
    <2>1. CASE a \in 1..Len(answers)
        BY <1>2, <1>5, <2>1 DEF IsRead, PartAt
    <2>2. CASE a = Len(answers) + 1
        <3>1. k \in 1..(Len(parts) + 1)
            BY <1>1, <1>2, <1>5, <2>2 DEF IsRead
        <3>2. CASE k \in 1..Len(parts)
            BY <1>1, <1>2, <1>5, <2>2, <3>2 DEF IsRead, PartAt
        <3>3. CASE k = Len(parts) + 1
            BY <1>1, <1>2, <2>2, <3>3
        <3> QED BY <1>4, <3>1, <3>2, <3>3
    <2> QED BY <1>2, <1>3, <1>5, <2>1, <2>2 DEF IsRead
<1>6. ASSUME NEW a, NEW k, IsRead(old, a, k)
      PROVE  /\ a \in Nat /\ Earlier(a, k, Len(answers) + 1, Len(parts) + 1)
             /\ ~Earlier(Len(answers) + 1, Len(parts) + 1, a, k)
             /\ <<a, k>> # <<Len(answers) + 1, Len(parts) + 1>>
    <2>1. CASE a \in 1..Len(answers)
        BY <1>2, <2>1 DEF Earlier
    <2>2. CASE a = Len(answers) + 1
        <3>1. k \in 1..Len(parts)
            BY <1>1, <1>2, <1>6, <2>2 DEF IsRead
        <3> QED BY <1>1, <1>2, <2>2, <3>1 DEF Earlier
    <2> QED BY <1>2, <1>3, <1>6, <2>1, <2>2 DEF IsRead
<1> QED BY <1>5, <1>6
\* A part that is read from the configuration is not a read.
LEMMA ConfigurationIsNotRead ==
    ASSUME NEW S, NEW answers \in Seq(S), NEW T, NEW parts \in Seq(T), NEW r, NEW value,
           Parts(r)[Len(parts) + 1] = "plan.features"
    PROVE  ReadsAmong(WithPending(answers, r, Append(parts, value)), WithPending(answers, r, parts))
<1> SUFFICES ASSUME NEW old, old = WithPending(answers, r, parts),
                    NEW new, new = WithPending(answers, r, Append(parts, value)),
                    NEW a, NEW k, IsRead(new, a, k)
             PROVE  /\ IsRead(old, a, k)
                    /\ new[a].request = old[a].request
                    /\ new[a].parts[k] = old[a].parts[k]
    BY DEF ReadsAmong
<1>1. ~(k = Len(parts) + 1 /\ new[a].request = r)
    BY DEF IsRead
<1> QED BY <1>1, PendingGrows

\* What a part of a request reads, at the date of the store it is read of.
ReadNow(r, part, value, date, mem, tab) ==
    /\ r.user \in Users
    /\ date \in 0..Len(events)
    /\ date = IF part = "subscription" THEN tab[r.user] ELSE mem[r.user]
    /\ value = PartAfter(part, r, date)

IsSeq(s) == \E S : s \in Seq(S)

\* What is read now is dated now, and no earlier than what was read before.
LEMMA OneMoreRead ==
    ASSUME NEW mem, NEW tab, StoresDated(mem, tab),
           NEW answers, IsSeq(answers), NEW parts, IsSeq(parts), NEW r, NEW value, NEW date,
           ReadNow(r, Parts(r)[Len(parts) + 1], value, date, mem, tab),
           NEW D, Dated(WithPending(answers, r, parts), D, mem, tab)
    PROVE  \E D2 : Dated(WithPending(answers, r, Append(parts, value)), D2, mem, tab)
<1> SUFFICES ASSUME NEW old, old = WithPending(answers, r, parts),
                    NEW new, new = WithPending(answers, r, Append(parts, value)),
                    NEW part, part = Parts(r)[Len(parts) + 1]
             PROVE  \E D2 : Dated(new, D2, mem, tab)
    OBVIOUS
<1> DEFINE A == Len(answers) + 1
           K == Len(parts) + 1
           D2 == [D EXCEPT ![<<A, K>>] = date]
<1>1. /\ \A a, k : IsRead(new, a, k) =>
             \/ /\ IsRead(old, a, k)
                /\ new[a].request = old[a].request
                /\ new[a].parts[k] = old[a].parts[k]
                /\ PartAt(new, a, k) = PartAt(old, a, k)
             \/ a = A /\ k = K /\ new[a].request = r /\ new[a].parts[k] = value
      /\ \A a, k : IsRead(old, a, k) =>
             a \in Nat /\ Earlier(a, k, A, K) /\ ~Earlier(A, K, a, k) /\ <<a, k>> # <<A, K>>
    <2>1. PICK S, T : answers \in Seq(S) /\ parts \in Seq(T)
        BY DEF IsSeq
    <2> QED BY <2>1, PendingGrows
<1>2. A \in Nat /\ K \in Nat /\ ~Earlier(A, K, A, K)
    <2>1. Len(answers) \in Nat /\ Len(parts) \in Nat
        BY DEF IsSeq
    <2> QED BY <2>1 DEF Earlier
<1>3. /\ r.user \in Users /\ date \in 0..Len(events) /\ date \in Nat
      /\ mem[r.user] \in Nat /\ tab[r.user] \in Nat /\ mem[r.user] <= tab[r.user]
      /\ date = IF part = "subscription" THEN tab[r.user] ELSE mem[r.user]
      /\ value = PartAfter(part, r, date)
    BY DEF ReadNow, StoresDated
<1>4. /\ \A d \in Nat : d <= mem[r.user] => d <= tab[r.user]
      /\ date <= IF part = "subscription" THEN tab[r.user] ELSE mem[r.user]
    BY <1>3
<1>5. D \in [Nat \X Nat -> Nat] /\ EachDated(old, D, mem, tab) /\ Forward(old, D)
    BY DEF Dated
<1>6. <<A, K>> \in Nat \X Nat
    BY <1>2
<1>7. /\ D2 \in [Nat \X Nat -> Nat]
      /\ D2[<<A, K>>] = date
      /\ \A x \in Nat \X Nat : x # <<A, K>> => D2[x] = D[x]
    BY <1>3, <1>5, <1>6
<1>8. PartAt(new, A, K) = part \/ new[A].request # r
    BY DEF PartAt
<1> HIDE DEF A, K, D2
<1> DEFINE Before(a, k) ==
               /\ IsRead(old, a, k) /\ a \in Nat /\ k \in Nat
               /\ new[a].request = old[a].request /\ new[a].request.user \in Users
               /\ IsRow(new, a, k) <=> IsRow(old, a, k)
               /\ D2[<<a, k>>] = D[<<a, k>>]
               /\ D[<<a, k>>] \in 0..Len(events)
               /\ D[<<a, k>>] <= IF IsRow(new, a, k) THEN tab[new[a].request.user]
                                                     ELSE mem[new[a].request.user]
               /\ new[a].parts[k] = PartAfter(PartAt(new, a, k), new[a].request, D[<<a, k>>])
           Now(a, k) ==
               /\ a = A /\ k = K /\ new[a].request = r /\ new[a].parts[k] = value
               /\ PartAt(new, a, k) = part
               /\ IsRow(new, a, k) <=> part = "subscription"
               /\ D2[<<a, k>>] = date
<1>9. ASSUME NEW a, NEW k, IsRead(new, a, k)
      PROVE  Before(a, k) \/ Now(a, k)
    <2>1. CASE a = A /\ k = K /\ new[a].request = r /\ new[a].parts[k] = value
        <3>1. Now(a, k)
            BY <1>7, <1>8, <2>1 DEF IsRow
        <3> QED BY <3>1
    <2>2. CASE /\ IsRead(old, a, k)
               /\ new[a].request = old[a].request
               /\ new[a].parts[k] = old[a].parts[k]
               /\ PartAt(new, a, k) = PartAt(old, a, k)
        <3>1. IsRow(new, a, k) <=> IsRow(old, a, k)
            BY <2>2 DEF IsRow
        <3>2. /\ new[a].request.user \in Users /\ a \in Nat /\ k \in Nat
              /\ D[<<a, k>>] \in 0..Len(events)
              /\ new[a].parts[k]
                   = PartAfter(PartAt(new, a, k), new[a].request, D[<<a, k>>])
              /\ D[<<a, k>>] <= IF IsRow(new, a, k) THEN tab[new[a].request.user]
                                                    ELSE mem[new[a].request.user]
            BY <1>5, <2>2, <3>1 DEF EachDated
        <3>3. D2[<<a, k>>] = D[<<a, k>>]
            BY <1>1, <1>7, <2>2, <3>2
        <3>4. Before(a, k)
            BY <2>2, <3>1, <3>2, <3>3
        <3> QED BY <3>4
    <2> HIDE DEF Before, Now
    <2> QED BY <1>1, <1>9, <2>1, <2>2
<1>10. EachDated(new, D2, mem, tab)
    <2> SUFFICES ASSUME NEW a, NEW k, IsRead(new, a, k), NEW u, u = new[a].request.user
                 PROVE  /\ u \in Users
                        /\ a \in Nat /\ k \in Nat
                        /\ D2[<<a, k>>] \in 0..Len(events)
                        /\ new[a].parts[k]
                             = PartAfter(PartAt(new, a, k), new[a].request, D2[<<a, k>>])
                        /\ D2[<<a, k>>] <= IF IsRow(new, a, k) THEN tab[u] ELSE mem[u]
        BY DEF EachDated
    <2>1. CASE Now(a, k)
        <3>1. /\ a = A /\ k = K /\ u = r.user
              /\ new[a].parts[k] = value /\ PartAt(new, a, k) = part
              /\ IsRow(new, a, k) <=> part = "subscription"
              /\ D2[<<a, k>>] = date /\ new[a].request = r
            BY <2>1
        <3> HIDE DEF Now
        <3>2. D2[<<a, k>>] <= IF IsRow(new, a, k) THEN tab[u] ELSE mem[u]
            BY <1>4, <3>1
        <3>3. new[a].parts[k] = PartAfter(PartAt(new, a, k), new[a].request, D2[<<a, k>>])
            BY <1>3, <3>1
        <3> QED BY <1>2, <1>3, <3>1, <3>2, <3>3
    <2>2. CASE Before(a, k)
        BY <2>2
    <2> HIDE DEF Before, Now
    <2> QED BY <1>9, <2>1, <2>2
<1>11. Forward(new, D2)
    <2> SUFFICES ASSUME NEW a, NEW k, NEW b, NEW l, IsRead(new, a, k), IsRead(new, b, l),
                        new[a].request.user = new[b].request.user,
                        Earlier(a, k, b, l), IsRow(new, a, k) => IsRow(new, b, l)
                 PROVE  D2[<<a, k>>] <= D2[<<b, l>>]
        BY DEF Forward
    <2>1. CASE Now(a, k)
        <3>1. Before(b, l) => ~Earlier(A, K, b, l)
            BY <1>1
        <3>2. Now(b, l) => ~Earlier(A, K, b, l)
            BY <1>2
        <3>3. a = A /\ k = K
            BY <2>1
        <3> HIDE DEF Before, Now
        <3> QED BY <1>9, <3>1, <3>2, <3>3
    <2>2. CASE Before(a, k) /\ Now(b, l)
        <3>1. /\ IsRow(new, b, l) <=> part = "subscription"
              /\ D2[<<b, l>>] = date /\ new[b].request = r
            BY <2>2
        <3>2. new[a].request.user = r.user
            BY <3>1
        <3>3. D2[<<a, k>>] = D[<<a, k>>] /\ D[<<a, k>>] \in 0..Len(events)
            BY <2>2
        <3>4. D[<<a, k>>] <= IF IsRow(new, a, k) THEN tab[new[a].request.user]
                                                 ELSE mem[new[a].request.user]
            BY <2>2
        <3> HIDE DEF Before, Now
        <3>5. CASE part = "subscription"
            <4>1. D[<<a, k>>] <= tab[r.user] \/ D[<<a, k>>] <= mem[r.user]
                BY <3>2, <3>4
            <4>2. D[<<a, k>>] <= tab[r.user]
                BY <1>4, <3>3, <4>1
            <4> QED BY <1>3, <3>1, <3>3, <3>5, <4>2
        <3>6. CASE part # "subscription"
            <4>1. ~IsRow(new, a, k)
                BY <3>1, <3>6
            <4>2. D[<<a, k>>] <= mem[r.user]
                BY <3>2, <3>4, <4>1
            <4> QED BY <1>3, <3>1, <3>3, <3>6, <4>2
        <3> QED BY <3>5, <3>6
    <2>3. CASE Before(a, k) /\ Before(b, l)
        <3>1. D[<<a, k>>] <= D[<<b, l>>]
            BY <1>5, <2>3 DEF Forward
        <3> QED BY <2>3, <3>1
    <2> HIDE DEF Before, Now
    <2> QED BY <1>9, <2>1, <2>2, <2>3
<1> QED BY <1>7, <1>10, <1>11 DEF Dated
-----------------------------------------------------------------------------
\* What is read of the memory is what the event of its date says.
LEMMA MemoryIsDated ==
    ASSUME TypeOK, up, NEW u \in Users, NEW mem, NEW tab, StoresDated(mem, tab)
    PROVE  mem[u] \in 0..Len(events) /\ assigned[u] = PlanAfter(u, mem[u])
<1>1. Current(u, mem[u]) /\ assigned[u] = PlanSaid(mem[u])
    BY DEF StoresDated
<1> QED BY <1>1, CurrentIsLast

\* So is the row the table has of a user: there is one at most.
LEMMA RowIsDated ==
    ASSUME OrderedUse, IInv, NEW u \in Users, NEW mem, NEW tab, StoresDated(mem, tab),
           NEW subs, subs = SubscriptionByUser(table, u),
           NEW row \in (IF subs = {} THEN {NoRow} ELSE {table[s] : s \in subs})
    PROVE  tab[u] \in 0..Len(events) /\ row = RowAfter(u, tab[u])
<1>1. Current(u, tab[u])
    BY DEF StoresDated
<1>2. tab[u] \in 0..Len(events) /\ RowAfter(u, tab[u]) = RowSaid(tab[u])
    BY <1>1, CurrentIsLast DEF IInv
<1>3. subs \subseteq RowsOf(table, u)
    BY DEF SubscriptionByUser, Newest
<1>4. CASE \E s \in Subs : Owner[s] = u
    <2>1. PICK s \in Subs : Owner[s] = u
        BY <1>4
    <2>2. table[s] = RowSaid(tab[u])
        BY <2>1 DEF StoresDated
    <2>3. RowsOf(table, u) \subseteq {s}
        BY <2>1 DEF RowsOf, IInv, Linked, RowsOwned, OrderedUse, SerialUse
    <2>4. CASE tab[u] = 0
        <3>1. RowsOf(table, u) = {}
            BY <2>2, <2>3, <2>4 DEF RowSaid, RowsOf
        <3> QED BY <1>2, <1>3, <2>4, <3>1 DEF RowSaid
    <2>5. CASE tab[u] # 0
        <3>1. tab[u] \in DOMAIN events /\ UserOf(tab[u]) = u
            BY <1>1, <2>5 DEF Current, EventsOf
        <3>2. table[s] \in Rows /\ table[s].user = u
            BY <2>2, <2>5, <3>1, EventTypes DEF RowSaid, IInv, RowFor, UserOf
        <3>3. RowsOf(table, u) = {s} /\ table[s].updated \in Nat
            BY <2>3, <3>2, StoreAssumption DEF RowsOf, Rows
        <3>4. Newest(table, {s}) = {s}
            BY <3>3 DEF Newest
        <3>5. subs = {s}
            BY <3>3, <3>4 DEF SubscriptionByUser
        <3>6. row = table[s]
            BY <3>5
        <3> QED BY <1>2, <2>2, <3>6
    <2> QED BY <2>4, <2>5
<1>5. CASE ~ \E s \in Subs : Owner[s] = u
    <2>1. RowsOf(table, u) = {}
        BY <1>5 DEF RowsOf, IInv, Linked, RowsOwned
    <2>2. EventsOf(u) = {}
        BY <1>5, EventTypes DEF EventsOf, UserOf, IInv
    <2> QED BY <1>1, <1>2, <1>3, <2>1, <2>2 DEF Current, RowSaid
<1> QED BY <1>4, <1>5

\* Who is asked about is a user.
LEMMA AskedOfUser ==
    ASSUME ApiInv, NEW c \in Clients, NEW part, Reading(c, part)
    PROVE  asked[c].user \in Users
<1> DEFINE r == asked[c]
<1>1. r # Nothing /\ status[c] = 0 /\ Good(r, got[c], status[c], heard[c])
    BY DEF ApiInv, Reading
<1>2. r \in Requests /\ Refusal(r) = 0 /\ Len(got[c]) \in Nat
    <2>1. PICK S : got[c] \in Seq(S)
        BY <1>1 DEF Good
    <2> QED BY <1>1, <2>1 DEF Good
<1>3. RoutesFor(r) # {}
    <2>1. RoutesAt(r.path) = {} => RoutesFor(r) = {}
        BY DEF RoutesFor
    <2> QED BY <1>2, <2>1 DEF Refusal
<1>4. Parts(r) # <<>>
    <2>1. Len(got[c]) < Len(Parts(r))
        BY DEF Reading
    <2> QED BY <1>2, <2>1
<1>5. NameOf(r) \in {"check", "user"}
    BY <1>4 DEF Parts
<1> QED BY <1>2, <1>3, <1>5, ApiAssumption

\* One more part of an answer under way, be it read of the memory, of the
\* table or of the configuration.
LEMMA GetsIsDated ==
    ASSUME OrderedUse, IInv, ApiInv, NEW c \in Clients,
           ReadMemory(c) \/ ReadPlanFeatures(c) \/ ReadSubscription(c),
           NEW mem, NEW tab, StoresDated(mem, tab),
           NEW old, old = Log(c), NEW D, Dated(old, D, mem, tab),
           NEW new, new = Log(c)'
    PROVE  \E log, D2 : ReadsAmong(new, log) /\ Dated(log, D2, mem, tab)
<1>1. PICK part, value : Reading(c, part) /\ Gets(c, value) /\
          \/ /\ part \in {"plan", "features", "verdict"}
             /\ value = FromMemory(part, asked[c], assigned[asked[c].user])
          \/ part = "plan.features"
          \/ /\ part = "subscription"
             /\ \E row \in (IF SubscriptionByUser(table, asked[c].user) = {} THEN {NoRow}
                            ELSE {table[s] : s \in SubscriptionByUser(table, asked[c].user)}) :
                   value = Shown(row)
    BY DEF ReadMemory, ReadPlanFeatures, ReadSubscription
<1> SUFFICES ASSUME NEW answers, answers = heard[c], NEW r, r = asked[c],
                    NEW parts, parts = got[c]
             PROVE  \E log, D2 : ReadsAmong(new, log) /\ Dated(log, D2, mem, tab)
    OBVIOUS
<1>2. PICK S, T : answers \in Seq(S) /\ parts \in Seq(T)
    BY DEF ApiInv, Good
<1>3. /\ old = WithPending(answers, r, parts)
      /\ new = WithPending(answers, r, Append(parts, value))
    <2>1. heard'[c] = answers /\ asked'[c] = r /\ got'[c] = Append(parts, value)
        BY <1>1 DEF Gets, ApiInv, IsFunctionOn
    <2> QED BY <2>1 DEF Log, WithPending
<1>4. part = Parts(r)[Len(parts) + 1] /\ r.user \in Users /\ up
    BY <1>1, AskedOfUser DEF Reading, NextPart
<1>5. CASE part = "plan.features"
    BY <1>2, <1>3, <1>4, <1>5, ConfigurationIsNotRead
<1>6. CASE part # "plan.features"
    <2> DEFINE date == IF part = "subscription" THEN tab[r.user] ELSE mem[r.user]
    <2>1. date \in 0..Len(events) /\ value = PartAfter(part, r, date)
        <3>1. CASE part = "subscription"
            BY <1>1, <1>4, <3>1, RowIsDated DEF PartAfter
        <3>2. CASE part # "subscription"
            BY <1>1, <1>4, <1>6, <3>2, MemoryIsDated DEF PartAfter, IInv
        <3> QED BY <3>1, <3>2
    <2>2. ReadNow(r, part, value, date, mem, tab)
        BY <1>4, <2>1 DEF ReadNow
    <2> HIDE DEF date
    <2>3. IsSeq(answers) /\ IsSeq(parts)
        BY <1>2 DEF IsSeq
    <2>4. \E D2 : Dated(new, D2, mem, tab)
        BY <1>3, <1>4, <2>2, <2>3, OneMoreRead
    <2> QED BY <2>4, AmongThemselves
<1> QED BY <1>5, <1>6
\* Whatever a client does, its log is dated as it was or by one read more.
LEMMA ClientIsDated ==
    ASSUME OrderedUse, IInv, ApiInv, NEW c \in Clients, Client(c),
           NEW mem, NEW tab, StoresDated(mem, tab),
           NEW old, old = Log(c), NEW D, Dated(old, D, mem, tab),
           NEW new, new = Log(c)'
    PROVE  \E log, D2 : ReadsAmong(new, log) /\ Dated(log, D2, mem, tab)
<1>1. PICK S, T : heard[c] \in Seq(S) /\ got[c] \in Seq(T)
    BY DEF ApiInv, Good
<1>2. CASE ReadMemory(c) \/ ReadPlanFeatures(c) \/ ReadSubscription(c)
    BY <1>2, GetsIsDated
<1>3. CASE ReadSubscriptionFails(c) \/ Respond(c)
    <2>1. new = old
        BY <1>3 DEF ReadSubscriptionFails, Respond, Log
    <2> QED BY <2>1, AmongThemselves
<1>4. ASSUME NEW r \in Requests, Ask(c, r) PROVE ReadsAmong(new, old)
    <2>1. got[c] = <<>>
        BY <1>4 DEF ApiInv, Good, Ask
    <2>2. asked'[c] = r /\ heard'[c] = heard[c] /\ got'[c] = got[c]
        BY <1>4 DEF Ask, ApiInv, IsFunctionOn
    <2>3. new = WithPending(heard[c], r, <<>>)
        BY <2>1, <2>2 DEF Log, WithPending
    <2> QED BY <1>1, <2>3, NothingRead, HeardRemains, AmongThemselves DEF Log
<1>5. CASE Hears(c)
    <2>1. asked'[c] = Nothing /\ got'[c] = <<>>
        BY <1>5 DEF Hears, ApiInv, IsFunctionOn
    <2>2. CASE status[c] = 200 /\ got[c] # <<>>
        <3>1. heard'[c] = old
            BY <1>5, <2>2 DEF Hears, ApiInv, IsFunctionOn, Log, WithPending
        <3>2. new = WithPending(old, Nothing, <<>>)
            BY <2>1, <3>1 DEF Log, WithPending
        <3> DEFINE answer == [request |-> asked[c], parts |-> got[c]]
        <3>3. old = Append(heard[c], answer)
            BY DEF Log, WithPending
        <3> HIDE DEF answer
        <3>4. old \in Seq(S \cup {answer})
            BY <1>1, <3>3, AppendOne
        <3>5. ReadsAmong(new, old)
            BY <3>2, <3>4, NothingRead
        <3> QED BY <3>5
    <2>3. CASE ~(status[c] = 200 /\ got[c] # <<>>)
        <3>1. heard'[c] = heard[c]
            BY <1>5, <2>3 DEF Hears
        <3>2. new = WithPending(heard[c], Nothing, <<>>)
            BY <2>1, <3>1 DEF Log, WithPending
        <3>3. ReadsAmong(new, heard[c]) /\ ReadsAmong(heard[c], old)
            BY <1>1, <3>2, NothingRead, HeardRemains DEF Log
        <3>4. ReadsAmong(new, old)
            BY <3>3, AmongThemselves
        <3> QED BY <3>4
    <2> QED BY <2>2, <2>3
<1> QED BY <1>2, <1>3, <1>4, <1>5 DEF Client

\* The logs at the end of a step.
LEMMA FlowsOn ==
    ASSUME EventsKept, NEW mem, NEW tab, StoresDated(mem, tab),
           NEW mem2, NEW tab2, StoresDated(mem2, tab2)',
           NotBefore(mem, mem2), NotBefore(tab, tab2),
           \A c \in Clients : \E new, log, D :
               new = Log(c)' /\ ReadsAmong(new, log) /\ Dated(log, D, mem, tab)
    PROVE  FlowInv'
<1>1. /\ mem \in [Users -> Nat] /\ tab \in [Users -> Nat]
      /\ mem2 \in [Users -> Nat] /\ tab2 \in [Users -> Nat]
    BY DEF StoresDated
<1>2. ASSUME NEW c \in Clients
      PROVE  \E log, D : log = Log(c)' /\ Dated(log, D, mem2, tab2)'
    <2>1. PICK new, log, D :
              new = Log(c)' /\ ReadsAmong(new, log) /\ Dated(log, D, mem, tab)
        OBVIOUS
    <2>2. Dated(new, D, mem2, tab2)'
        BY <1>1, <2>1, TimePasses
    <2> QED BY <2>1, <2>2
<1> QED BY <1>2 DEF FlowInv

\* Steps that leave the stores alone, and those that leave the logs alone.
LEMMA ClientFlows ==
    ASSUME OrderedUse, IInv, ApiInv, FlowInv, NEW c \in Clients, Client(c)
    PROVE  FlowInv'
<1>1. PICK mem, tab :
          /\ StoresDated(mem, tab)
          /\ \A d \in Clients : \E log, D : log = Log(d) /\ Dated(log, D, mem, tab)
    BY DEF FlowInv
<1>2. UNCHANGED <<events, unacked, table, up, assigned>>
    BY DEF Client, Ask, ReadMemory, ReadPlanFeatures, ReadSubscription, ReadSubscriptionFails,
           Respond, Hears, Gets, intake, vars, provider
<1>3. StoresDated(mem, tab)' /\ EventsKept
    <2>1. StoresDated(mem, tab)'
        BY <1>1, <1>2, QuietDates
    <2>2. Len(events) \in Nat /\ DOMAIN events = 1..Len(events)
        BY EventNumbers DEF IInv
    <2> QED BY <1>2, <2>1, <2>2 DEF EventsKept
<1>4. NotBefore(mem, mem) /\ NotBefore(tab, tab)
    BY <1>1, NotBeforeItself DEF StoresDated
<1>5. ASSUME NEW d \in Clients
      PROVE  \E new, log, D :
                 new = Log(d)' /\ ReadsAmong(new, log) /\ Dated(log, D, mem, tab)
    <2>1. PICK old, D : old = Log(d) /\ Dated(old, D, mem, tab)
        BY <1>1
    <2>2. PICK new : new = Log(d)'
        OBVIOUS
    <2>3. CASE d = c
        <3>1. \E log, D2 : ReadsAmong(new, log) /\ Dated(log, D2, mem, tab)
            BY <1>1, <2>1, <2>2, <2>3, ClientIsDated
        <3> QED BY <2>2, <3>1
    <2>4. CASE d # c
        <3>1. asked'[d] = asked[d] /\ got'[d] = got[d] /\ heard'[d] = heard[d]
            BY <2>4 DEF Client, Ask, ReadMemory, ReadPlanFeatures, ReadSubscription,
               ReadSubscriptionFails, Respond, Hears, Gets, ApiInv, IsFunctionOn
        <3>2. new = old
            BY <2>1, <2>2, <3>1 DEF Log, WithPending
        <3> QED BY <2>1, <2>2, <3>2, AmongThemselves
    <2> QED BY <2>3, <2>4
<1> QED BY <1>1, <1>3, <1>4, <1>5, FlowsOn

LEMMA IntakeFlows ==
    ASSUME OrderedUse, IInv, OrderInv, ApiInv, FlowInv, [Next]_vars,
           UNCHANGED readers \/ CrashWithReaders
    PROVE  FlowInv'
<1>1. PICK mem, tab :
          /\ StoresDated(mem, tab)
          /\ \A d \in Clients : \E log, D : log = Log(d) /\ Dated(log, D, mem, tab)
    BY DEF FlowInv
<1>2. PICK mem2, tab2 :
          StoresDated(mem2, tab2)' /\ NotBefore(mem, mem2) /\ NotBefore(tab, tab2)
    BY <1>1, StepsKeepDates
<1>3. EventsKept
    BY EventsStay DEF EventsKept, IInv
<1>4. ASSUME NEW d \in Clients
      PROVE  \E new, log, D :
                 new = Log(d)' /\ ReadsAmong(new, log) /\ Dated(log, D, mem, tab)
    <2>1. PICK old, D : old = Log(d) /\ Dated(old, D, mem, tab)
        BY <1>1
    <2>2. PICK new : new = Log(d)'
        OBVIOUS
    <2>3. CASE UNCHANGED readers
        <3>1. new = old
            BY <2>1, <2>2, <2>3 DEF readers, Log, WithPending
        <3> QED BY <2>1, <2>2, <3>1, AmongThemselves
    <2>4. CASE CrashWithReaders
        <3>1. PICK S : heard[d] \in Seq(S)
            BY DEF ApiInv, Good
        <3>2. asked'[d] = Nothing /\ got'[d] = <<>> /\ heard'[d] = heard[d]
            BY <2>4 DEF CrashWithReaders
        <3>3. new = WithPending(heard[d], Nothing, <<>>)
            BY <2>2, <3>2 DEF Log, WithPending
        <3>4. ReadsAmong(new, heard[d]) /\ ReadsAmong(heard[d], old)
            BY <2>1, <3>1, <3>3, NothingRead, HeardRemains DEF Log
        <3>5. ReadsAmong(new, old)
            BY <3>4, AmongThemselves
        <3> QED BY <2>1, <2>2, <3>5
    <2> QED BY <2>3, <2>4
<1> QED BY <1>1, <1>2, <1>3, <1>4, FlowsOn
-----------------------------------------------------------------------------
\* To the intake, a step of the API is one of its own, or a failure that only
\* the answer to a client shows.
LEMMA StepsOfTheIntake ==
    ASSUME [ApiNext]_api
    PROVE  \/ [Next]_vars
           \/ Fault /\ UNCHANGED <<provider, table, up, assigned, pc, local, told>>
<1>1. CASE UNCHANGED api
    BY <1>1 DEF api, intake
<1>2. CASE Intake
    BY <1>2 DEF Intake, DeliverPast, Next
<1>3. CASE CrashWithReaders
    BY <1>3 DEF CrashWithReaders, Next
<1>4. ASSUME NEW c \in Clients, Client(c), ~ReadSubscriptionFails(c)
      PROVE  UNCHANGED vars
    BY <1>4 DEF Client, Ask, ReadMemory, ReadPlanFeatures, ReadSubscription,
       Respond, Hears, Gets, intake
<1>5. ASSUME NEW c \in Clients, ReadSubscriptionFails(c)
      PROVE  Fault /\ UNCHANGED <<provider, table, up, assigned, pc, local, told>>
    BY <1>5 DEF ReadSubscriptionFails
<1> QED BY <1>1, <1>2, <1>3, <1>4, <1>5 DEF ApiNext

LEMMA FaultKeepsIntake ==
    ASSUME IInv, Fault, UNCHANGED <<provider, table, up, assigned, pc, local, told>>
    PROVE  IInv' /\ (OrderInv => OrderInv')
<1>1. UNCHANGED <<events, unacked, table, up, assigned, pc, req, prev, active, sent, told>>
    BY DEF provider, local
<1>2. faults' \in 0..MaxFaults
    BY FaultTypes DEF IInv
<1>3. TypeOK'
    BY <1>1, <1>2 DEF IInv, TypeOK, Busy
<1>4. \A u \in Users : Behind(u)' <=> Behind(u)
    BY <1>1, SameBehind
<1>5. \A g \in Handlers : Busy(g)' => Busy(g) /\ req'[g] = req[g] /\ req[g] \in unacked'
    BY <1>1 DEF Busy, IInv, Linked, Accepted
<1>6. Linked'
    BY <1>1, <1>4, <1>5, QuietStep
<1>7. \A g \in Handlers :
          \/ ~Busy(g)'
          \/ /\ Busy(g) /\ req'[g] = req[g] /\ assigned' = assigned
             /\ pc'[g] \in Between \cup Applied => pc[g] \in Between \cup Applied
             /\ pc'[g] \in Applied => pc[g] \in Applied
    BY <1>1 DEF Busy
<1>8. OrderInv => OrderInv'
    BY <1>1, <1>7, QuietOrder
<1> QED BY <1>3, <1>6, <1>8 DEF IInv

LEMMA ApiStepsKeepIInv ==
    ASSUME SerialUse
    PROVE  IInv /\ [ApiNext]_api => IInv'
BY StepsOfTheIntake, FaultKeepsIntake, StepsKeepIInv


(* The agreement of table and memory holds beside any clients, too.         *)
THEOREM ApiTableAndMemoryAgree ==
    ASSUME SerialUse
    PROVE  ApiSpec => []StoreMemoryAgreement
<1>1. ApiInit => IInv
    BY InitIInv DEF ApiInit
<1>2. IInv /\ [ApiNext]_api => IInv'
    BY ApiStepsKeepIInv
<1>3. IInv => StoreMemoryAgreement
    BY DEF IInv, Linked
<1> QED BY <1>1, <1>2, <1>3, PTL DEF ApiSpec

-----------------------------------------------------------------------------
FlowInvariants == IInv /\ OrderInv /\ ApiInv /\ FlowInv

LEMMA InitFlows == ApiInit => FlowInvariants
<1> SUFFICES ASSUME ApiInit PROVE FlowInvariants
    OBVIOUS
<1>1. PICK mem, tab : StoresDated(mem, tab)
    BY InitDates DEF ApiInit
<1>2. ASSUME NEW c \in Clients
      PROVE  \E log, D : log = Log(c) /\ Dated(log, D, mem, tab)
    <2> DEFINE D == [x \in Nat \X Nat |-> 0]
    <2>1. PICK log : log = WithPending(<<>>, Nothing, <<>>)
        OBVIOUS
    <2>2. log = Log(c)
        BY <2>1 DEF ApiInit, Log
    <2>3. ReadsAmong(log, <<>>)
        <3>1. <<>> \in Seq({})
            OBVIOUS
        <3> QED BY <2>1, <3>1, NothingRead
    <2>4. \A a, k : ~IsRead(log, a, k)
        BY <2>3 DEF ReadsAmong, IsRead
    <2>5. Dated(log, D, mem, tab)
        BY <2>4 DEF Dated, EachDated, Forward
    <2> QED BY <2>2, <2>5
<1>3. FlowInv
    BY <1>1, <1>2 DEF FlowInv
<1> QED BY <1>3, InitIInv, InitOrder, InitKeeps DEF ApiInit, FlowInvariants

LEMMA StepsKeepFlow ==
    ASSUME OrderedUse
    PROVE  FlowInvariants /\ [ApiNext]_api => FlowInvariants'
<1> SUFFICES ASSUME FlowInvariants, [ApiNext]_api PROVE FlowInvariants'
    OBVIOUS
<1>1. IInv /\ OrderInv /\ ApiInv /\ FlowInv /\ SerialUse
    BY DEF FlowInvariants, OrderedUse
<1>2. IInv' /\ ApiInv'
    BY <1>1, ApiStepsKeepIInv, StepsKeepApiInv
<1>3. OrderInv'
    BY <1>1, StepsOfTheIntake, FaultKeepsIntake, StepsKeepOrder
<1>4. FlowInv'
    <2>1. CASE \E c \in Clients : Client(c)
        BY <1>1, <2>1, ClientFlows
    <2>2. CASE ~ \E c \in Clients : Client(c)
        <3>1. [Next]_vars /\ (UNCHANGED readers \/ CrashWithReaders)
            BY <2>2 DEF ApiNext, api, intake, Intake, DeliverPast, Next, CrashWithReaders
        <3> QED BY <1>1, <3>1, IntakeFlows
    <2> QED BY <2>1, <2>2
<1> QED BY <1>2, <1>3, <1>4 DEF FlowInvariants

\* The parts of a request are read in the order of the fields of its answer.
LEMMA PartsInFieldOrder ==
    ASSUME NEW r, NEW k \in DOMAIN Parts(r), NEW l \in DOMAIN Parts(r),
           Parts(r)[k] # "plan.features", Parts(r)[l] # "plan.features",
           FieldOrder[Parts(r)[k]] < FieldOrder[Parts(r)[l]]
    PROVE  k < l
<1>1. CASE NameOf(r) = "user"
    <2>1. Parts(r) = <<"plan">> \o Expanded(r, "features") \o Expanded(r, "subscription")
        BY <1>1 DEF Parts
    <2>2. /\ Len(Parts(r)) \in 1..3 /\ DOMAIN Parts(r) = 1..Len(Parts(r))
          /\ Parts(r)[1] = "plan"
          /\ Len(Parts(r)) = 2 => Parts(r)[2] \in {"features", "subscription"}
          /\ Len(Parts(r)) = 3 => Parts(r)[2] = "features" /\ Parts(r)[3] = "subscription"
        <3>1. CASE "features" \in r.expand /\ "subscription" \in r.expand
            BY <2>1, <3>1 DEF Expanded
        <3>2. CASE "features" \in r.expand /\ "subscription" \notin r.expand
            BY <2>1, <3>2 DEF Expanded
        <3>3. CASE "features" \notin r.expand /\ "subscription" \in r.expand
            BY <2>1, <3>3 DEF Expanded
        <3>4. CASE "features" \notin r.expand /\ "subscription" \notin r.expand
            BY <2>1, <3>4 DEF Expanded
        <3> QED BY <3>1, <3>2, <3>3, <3>4
    <2> QED BY <2>2 DEF FieldOrder
<1>2. CASE NameOf(r) = "check"
    <2>1. Parts(r) = <<"verdict">> \o Expanded(r, "plan.features")
        BY <1>2 DEF Parts
    <2>2. \A i \in DOMAIN Parts(r) : Parts(r)[i] \in {"verdict", "plan.features"}
        BY <2>1 DEF Expanded
    <2>3. Parts(r)[k] = "verdict" /\ Parts(r)[l] = "verdict"
        BY <2>2
    <2> QED BY <2>3 DEF FieldOrder
<1>3. CASE NameOf(r) \notin {"user", "check"}
    BY <1>3 DEF Parts
<1> QED BY <1>1, <1>2, <1>3

\* Dates of the log are dates of what a client has heard.
LEMMA LogGoesForward ==
    ASSUME ApiInv, FlowInv, NEW c \in Clients, NEW u \in Users
    PROVE  GoesForward(heard[c], u)
<1> SUFFICES ASSUME NEW answers, answers = heard[c]
             PROVE  GoesForward(answers, u)
    OBVIOUS
<1>1. PICK mem, tab, log, D : log = Log(c) /\ Dated(log, D, mem, tab)
    BY DEF FlowInv
<1>2. /\ \E S : answers \in Seq(S)
      /\ \A a \in DOMAIN answers : IsAnswer(answers[a])
    BY DEF ApiInv, Good
<1>3. ReadsAmong(answers, log)
    BY <1>1, <1>2, HeardRemains DEF Log
<1>4. ASSUME NEW a, NEW k, IsRead(answers, a, k)
      PROVE  /\ IsRead(log, a, k) /\ <<a, k>> \in Nat \X Nat
             /\ log[a].request = answers[a].request
             /\ IsRow(answers, a, k) <=> IsRow(log, a, k)
             /\ D[<<a, k>>] \in 0..Len(events)
             /\ answers[a].parts[k]
                  = PartAfter(PartAt(answers, a, k), answers[a].request, D[<<a, k>>])
    <2>1. /\ IsRead(log, a, k)
          /\ log[a].request = answers[a].request
          /\ log[a].parts[k] = answers[a].parts[k]
        BY <1>3, <1>4 DEF ReadsAmong
    <2>2. PartAt(answers, a, k) = PartAt(log, a, k)
        BY <2>1 DEF PartAt
    <2>3. EachDated(log, D, mem, tab)
        BY <1>1 DEF Dated
    <2>4. /\ <<a, k>> \in Nat \X Nat /\ D[<<a, k>>] \in 0..Len(events)
          /\ log[a].parts[k] = PartAfter(PartAt(log, a, k), log[a].request, D[<<a, k>>])
        BY <2>1, <2>3 DEF EachDated
    <2> QED BY <2>1, <2>2, <2>4 DEF IsRow
<1> DEFINE memReads == ReadsOf(answers, u, FALSE)
           rowReads == ReadsOf(answers, u, TRUE)
           memDate == [x \in memReads |-> D[x]]
           rowDate == [x \in rowReads |-> D[x]]
<1>5. /\ \A x \in memReads \cup rowReads :
            /\ x = <<x[1], x[2]>> /\ IsRead(answers, x[1], x[2])
            /\ answers[x[1]].request.user = u
      /\ \A x \in memReads : ~IsRow(answers, x[1], x[2])
      /\ \A x \in rowReads : IsRow(answers, x[1], x[2])
    BY DEF ReadsOf
<1>6. \A x \in memReads \cup rowReads :
          /\ D[x] \in 0..Len(events)
          /\ answers[x[1]].parts[x[2]]
                = PartAfter(PartAt(answers, x[1], x[2]), answers[x[1]].request, D[x])
    <2> SUFFICES ASSUME NEW x \in memReads \cup rowReads
                 PROVE  /\ D[x] \in 0..Len(events)
                        /\ answers[x[1]].parts[x[2]]
                              = PartAfter(PartAt(answers, x[1], x[2]),
                                          answers[x[1]].request, D[x])
        OBVIOUS
    <2>1. IsRead(answers, x[1], x[2])
        BY <1>5
    <2>2. D[x] = D[<<x[1], x[2]>>]
        BY <1>5
    <2> QED BY <1>4, <2>1, <2>2
<1>7. /\ memDate \in [memReads -> 0..Len(events)]
      /\ rowDate \in [rowReads -> 0..Len(events)]
    BY <1>6
<1>8. Fits(answers, memDate) /\ Fits(answers, rowDate)
    BY <1>6 DEF Fits
<1>9. \A a, k : IsRead(answers, a, k) => k \in DOMAIN Parts(answers[a].request)
    <2> SUFFICES ASSUME NEW a, NEW k, IsRead(answers, a, k)
                 PROVE  k \in DOMAIN Parts(answers[a].request)
        OBVIOUS
    <2>1. k \in DOMAIN answers[a].parts /\ IsAnswer(answers[a])
        BY <1>2 DEF IsRead
    <2>2. DOMAIN answers[a].parts = 1..Len(answers[a].parts)
        BY <2>1 DEF IsAnswer
    <2>3. DOMAIN Parts(answers[a].request) = 1..Len(Parts(answers[a].request))
        BY PartsType
    <2> QED BY <2>1, <2>2, <2>3 DEF IsAnswer
<1>10. ASSUME NEW x \in memReads \cup rowReads, NEW y \in memReads \cup rowReads,
             ShownBefore(answers, x[1], x[2], y[1], y[2]),
             IsRow(answers, x[1], x[2]) => IsRow(answers, y[1], y[2])
      PROVE  D[x] <= D[y]
    <2>1. Earlier(x[1], x[2], y[1], y[2])
        <3>1. CASE x[1] < y[1]
            BY <3>1 DEF Earlier
        <3>2. CASE ~(x[1] < y[1])
            <4>1. x[1] = y[1]
                BY <1>10, <3>2 DEF ShownBefore
            <4>2. FieldOrder[PartAt(answers, x[1], x[2])] < FieldOrder[PartAt(answers, y[1], y[2])]
                BY <1>10, <3>2 DEF ShownBefore
            <4>3. /\ x[2] \in DOMAIN Parts(answers[x[1]].request)
                  /\ y[2] \in DOMAIN Parts(answers[y[1]].request)
                  /\ PartAt(answers, x[1], x[2]) # "plan.features"
                  /\ PartAt(answers, y[1], y[2]) # "plan.features"
                BY <1>5, <1>9 DEF PartAt, IsRead
            <4>4. x[2] < y[2]
                BY <4>1, <4>2, <4>3, PartsInFieldOrder DEF PartAt
            <4> QED BY <4>1, <4>4 DEF Earlier
        <3> QED BY <3>1, <3>2
    <2>2. /\ IsRead(log, x[1], x[2]) /\ IsRead(log, y[1], y[2])
          /\ log[x[1]].request.user = log[y[1]].request.user
          /\ IsRow(log, x[1], x[2]) => IsRow(log, y[1], y[2])
        <3>1. /\ IsRead(answers, x[1], x[2]) /\ answers[x[1]].request.user = u
              /\ IsRead(answers, y[1], y[2]) /\ answers[y[1]].request.user = u
            BY <1>5
        <3> QED BY <1>4, <1>10, <3>1
    <2>3. D[<<x[1], x[2]>>] <= D[<<y[1], y[2]>>]
        BY <1>1, <2>1, <2>2 DEF Dated, Forward
    <2> QED BY <1>5, <2>3
<1>11. /\ Grows(answers, memDate, memDate) /\ Grows(answers, rowDate, rowDate)
       /\ Grows(answers, memDate, rowDate)
    BY <1>5, <1>10 DEF Grows
<1> QED BY <1>7, <1>8, <1>11 DEF GoesForward

(* No client hears of a user's past, from memory or from the table, in one  *)
(* answer or in several and across crashes, if events of a user come in     *)
(* order and one at a time: for any number of clients, requests and events. *)
THEOREM ReadsForward ==
    ASSUME OrderedUse
    PROVE  ApiSpec => []ReadsGoForward
<1>1. FlowInvariants /\ [ApiNext]_api => FlowInvariants'
    BY StepsKeepFlow
<1>2. FlowInvariants => ReadsGoForward
    BY LogGoesForward DEF FlowInvariants, ReadsGoForward
<1> QED BY <1>1, <1>2, InitFlows, PTL DEF ApiSpec
(* Memory follows the provider beside any clients, too.                     *)
THEOREM ApiProviderIsFollowed ==
    ASSUME OrderedUse
    PROVE  ApiSpec => []EntitlementsFollowProvider
<1>1. FlowInvariants /\ [ApiNext]_api => FlowInvariants'
    BY StepsKeepFlow
<1>2. FlowInvariants => EntitlementsFollowProvider
    BY LastIsFollowed DEF FlowInvariants
<1> QED BY <1>1, <1>2, InitFlows, PTL DEF ApiSpec

\* What is read about a user with nothing outstanding is what the last of all
\* events left: of the memory also right after a restart.
SettledReadsAreCurrent ==
    \A c \in Clients, part \in PartNames \ {"plan.features"} :
        (/\ ReadMemory(c) \/ ReadSubscription(c)
         /\ NextPart(c) = part
         /\ Settled(asked[c].user)) =>
            got'[c] = Append(got[c], PartAfter(part, asked[c], Len(events)))

LEMMA NothingIsLater ==
    ASSUME TypeOK, NEW u, Settled(u), NEW n, Current(u, n)
    PROVE  LastUpTo(u, n) = LastUpTo(u, Len(events))
<1>1. EventsOf(u) \subseteq 1..Len(events) /\ Len(events) \in Nat
    BY EventNumbers
<1>2. n \in {0} \cup EventsOf(u) /\ \A m \in EventsOf(u) : m <= n
    <2>1. \A m \in EventsOf(u) : m \notin unacked
        BY DEF Settled, EventsOf
    <2> QED BY <1>1, <2>1 DEF Current
<1>3. \A m \in EventsOf(u) : m <= n /\ m <= Len(events)
    BY <1>1, <1>2
<1> QED BY <1>3 DEF LastUpTo

(* A client that asks once the provider has nothing outstanding for a user  *)
(* is answered with what the provider said last, from memory and from the   *)
(* table, whatever failed or crashed before.                                *)
THEOREM SettledReads ==
    ASSUME OrderedUse
    PROVE  ApiSpec => [][SettledReadsAreCurrent]_api
<1>1. FlowInvariants /\ [ApiNext]_api => FlowInvariants'
    BY StepsKeepFlow
<1>2. FlowInvariants => SettledReadsAreCurrent
    <2> SUFFICES ASSUME FlowInvariants, NEW c \in Clients,
                        ReadMemory(c) \/ ReadSubscription(c),
                        NextPart(c) # "plan.features", Settled(asked[c].user)
                 PROVE  got'[c] = Append(got[c], PartAfter(NextPart(c), asked[c], Len(events)))
        BY DEF SettledReadsAreCurrent
    <2> SUFFICES ASSUME NEW r, r = asked[c], NEW n, n = Len(events)
                 PROVE  got'[c] = Append(got[c], PartAfter(NextPart(c), r, n))
        OBVIOUS
    <2>1. PICK mem, tab : StoresDated(mem, tab)
        BY DEF FlowInvariants, FlowInv
    <2>2. PICK part, value : /\ Reading(c, part) /\ Gets(c, value)
                             /\ ReadMemory(c) \/ ReadSubscription(c)
              /\ \/ /\ part \in {"plan", "features", "verdict"}
                    /\ value = FromMemory(part, r, assigned[r.user])
                 \/ /\ part = "subscription"
                    /\ \E row \in (IF SubscriptionByUser(table, r.user) = {} THEN {NoRow}
                                   ELSE {table[s] : s \in SubscriptionByUser(table, r.user)}) :
                          value = Shown(row)
        BY DEF ReadMemory, ReadSubscription
    <2>3. NextPart(c) = part /\ up /\ r.user \in Users
        BY <2>2, AskedOfUser DEF Reading, FlowInvariants
    <2>4. got'[c] = Append(got[c], value)
        BY <2>2 DEF Gets, FlowInvariants, ApiInv, IsFunctionOn
    <2>5. /\ PlanAfter(r.user, mem[r.user]) = PlanAfter(r.user, n)
          /\ RowAfter(r.user, tab[r.user]) = RowAfter(r.user, n)
        <3>1. Current(r.user, mem[r.user]) /\ Current(r.user, tab[r.user])
            BY <2>1, <2>3 DEF StoresDated
        <3>2. /\ LastUpTo(r.user, mem[r.user]) = LastUpTo(r.user, n)
              /\ LastUpTo(r.user, tab[r.user]) = LastUpTo(r.user, n)
            BY <3>1, NothingIsLater DEF FlowInvariants, IInv
        <3> QED BY <3>2 DEF PlanAfter, RowAfter
    <2>6. value = PartAfter(part, r, n)
        <3>1. CASE part = "subscription"
            <4>1. value = Shown(RowAfter(r.user, tab[r.user]))
                BY <2>1, <2>2, <2>3, <3>1, RowIsDated DEF FlowInvariants
            <4> QED BY <2>5, <3>1, <4>1 DEF PartAfter
        <3>2. CASE part # "subscription"
            <4>1. assigned[r.user] = PlanAfter(r.user, n)
                BY <2>1, <2>3, <2>5, MemoryIsDated DEF FlowInvariants, IInv
            <4> QED BY <2>2, <3>2, <4>1 DEF PartAfter
        <3> QED BY <3>1, <3>2
    <2> QED BY <2>3, <2>4, <2>6
<1> QED BY <1>1, <1>2, InitFlows, PTL DEF ApiSpec
-----------------------------------------------------------------------------
(* The calls into the entitlement service, which are single steps here, are *)
(* those of the atomic service that EntitlementService implements.          *)

\* Between two steps nobody is inside a call.
Service == INSTANCE Entitlements
               WITH conf <- Conf, Configs <- {Conf}, Clients <- {},
                    phase <- <<>>, call <- <<>>, reply <- <<>>

\* The change OnSubscriptionChange asks for.
ChangeFor(event) ==
    IF IsActive(event.status)
    THEN [op |-> "activateUser", user |-> Owner[event.sub], product |-> event.product]
    ELSE [op |-> "deactivateUser", user |-> Owner[event.sub]]

\* What the handlers of users and checks call.
CallFor(part, r) ==
    CASE part = "plan"     -> [op |-> "GetUserPlan", user |-> r.user]
      [] part = "features" -> [op |-> "GetUserFeatures", user |-> r.user]
      [] part = "verdict"  -> [op |-> "CheckFeature", user |-> r.user, feature |-> r.feature]

PlanOf(u) == Service!Answer([op |-> "GetUserPlan", user |-> u])

ServiceCalls ==
    /\ \A h \in Handlers :
          LET event == events[req[h]]
          IN  /\ ReadPrevPlan(h) => prev' = [prev EXCEPT ![h] = PlanOf(UserOf(req[h]))]
              /\ ReadActivePlan(h) => active' = [active EXCEPT ![h] = PlanOf(UserOf(req[h]))]
              /\ Apply(h) =>
                    assigned' = IF IsActive(event.status) /\ event.product = NoProduct
                                THEN assigned
                                ELSE Service!Reassigned(ChangeFor(event))
    /\ \A c \in Clients :
          ReadMemory(c) =>
              got' = [got EXCEPT ![c] =
                         Append(@, Service!Answer(CallFor(NextPart(c), asked[c])))]

LEMMA SamePlanOfRoles ==
    ASSUME NEW plan
    PROVE  Cat!UserPlan(Conf, RolesFor(plan)) = IF plan = NoPlan THEN DefaultPlan ELSE plan
BY ApiAssumption DEF Cat!UserPlan, RolesFor

LEMMA SameCatalog ==
    /\ \A roles : Service!UserPlan(Conf, roles) = Cat!UserPlan(Conf, roles)
    /\ \A roles : Service!UserFeatures(Conf, roles) = Cat!UserFeatures(Conf, roles)
    /\ \A roles, f : Service!CheckFeature(Conf, roles, f) = Cat!CheckFeature(Conf, roles, f)
    /\ \A p : Service!ResolvePlanFromProduct(Conf, p) = Cat!ResolvePlanFromProduct(Conf, p)
<1>1. \A roles : Service!UserPlan(Conf, roles) = Cat!UserPlan(Conf, roles)
    BY DEF Service!UserPlan, Cat!UserPlan
<1>2. \A id : Service!PlanFeatures(Conf, id) = Cat!PlanFeatures(Conf, id)
    BY DEF Service!PlanFeatures, Service!IsConfigured, Service!PlanPositions, Service!Max,
           Cat!PlanFeatures, Cat!IsConfigured, Cat!PlanPositions, Cat!Max
<1>3. \A roles : Service!UserFeatures(Conf, roles) = Cat!UserFeatures(Conf, roles)
    BY <1>1, <1>2 DEF Service!UserFeatures, Cat!UserFeatures
<1>4. \A roles, f : Service!Enforce(Conf, roles, f) = Cat!Enforce(Conf, roles, f)
    BY DEF Service!Enforce, Service!Policies, Cat!Enforce, Cat!Policies
<1>5. ASSUME NEW plan, NEW allowed
      PROVE  Service!ReasonFor(Conf, plan, allowed) = Cat!ReasonFor(Conf, plan, allowed)
    BY DEF Service!ReasonFor, Cat!ReasonFor
<1>6. ASSUME NEW plan, NEW enforced, NEW f
      PROVE  Service!AllowedFor(Conf, plan, enforced, f) = Cat!AllowedFor(Conf, plan, enforced, f)
    BY <1>2 DEF Service!AllowedFor, Cat!AllowedFor
<1>7. ASSUME NEW plan, NEW enforced, NEW f
      PROVE  Service!CheckResult(Conf, plan, enforced, f) = Cat!CheckResult(Conf, plan, enforced, f)
    BY <1>5, <1>6 DEF Service!CheckResult, Cat!CheckResult
<1>8. \A roles, f : Service!CheckFeature(Conf, roles, f) = Cat!CheckFeature(Conf, roles, f)
    BY <1>1, <1>4, <1>7 DEF Service!CheckFeature, Cat!CheckFeature
<1>9. \A p : Service!ResolvePlanFromProduct(Conf, p) = Cat!ResolvePlanFromProduct(Conf, p)
    BY DEF Service!ResolvePlanFromProduct, Service!MappingPositions, Service!Max,
           Cat!ResolvePlanFromProduct, Cat!MappingPositions, Cat!Max
<1> QED BY <1>1, <1>3, <1>8, <1>9

LEMMA AnswersByCall ==
    ASSUME NEW k
    PROVE  LET roles == RolesFor(assigned[k.user])
           IN  /\ k.op = "GetUserPlan" => Service!Answer(k) = Cat!UserPlan(Conf, roles)
               /\ k.op = "GetUserFeatures" => Service!Answer(k) = Cat!UserFeatures(Conf, roles)
               /\ k.op = "CheckFeature" =>
                      Service!Answer(k) = Cat!CheckFeature(Conf, roles, k.feature)
<1> DEFINE roles == RolesFor(assigned[k.user])
<1>1. Service!RolesFor(assigned[k.user]) = roles
    BY DEF Service!RolesFor, RolesFor
<1>2. /\ Service!UserPlan(Conf, roles) = Cat!UserPlan(Conf, roles)
      /\ Service!UserFeatures(Conf, roles) = Cat!UserFeatures(Conf, roles)
      /\ Service!CheckFeature(Conf, roles, k.feature) = Cat!CheckFeature(Conf, roles, k.feature)
    BY SameCatalog
<1> HIDE DEF roles
<1>3. k.op = "GetUserPlan" => Service!Answer(k) = Cat!UserPlan(Conf, roles)
    BY <1>1, <1>2 DEF Service!Answer, Service!Changes
<1>4. k.op = "GetUserFeatures" => Service!Answer(k) = Cat!UserFeatures(Conf, roles)
    BY <1>1, <1>2 DEF Service!Answer, Service!Changes
<1>5. k.op = "CheckFeature" => Service!Answer(k) = Cat!CheckFeature(Conf, roles, k.feature)
    BY <1>1, <1>2 DEF Service!Answer, Service!Changes
<1> QED BY <1>3, <1>4, <1>5 DEF roles

LEMMA PlanIsAnswer == \A u : UserPlan(u) = PlanOf(u)
<1> SUFFICES ASSUME NEW u PROVE UserPlan(u) = PlanOf(u)
    OBVIOUS
<1>1. PICK k : k = [op |-> "GetUserPlan", user |-> u]
    OBVIOUS
<1>2. k.op = "GetUserPlan" /\ k.user = u
    BY <1>1
<1>3. Service!Answer(k) = Cat!UserPlan(Conf, RolesFor(assigned[u]))
    BY <1>2, AnswersByCall
<1> QED BY <1>1, <1>3, SamePlanOfRoles DEF UserPlan, PlanOf

LEMMA ReadIsAnswer ==
    ASSUME NEW part \in {"plan", "features", "verdict"}, NEW r
    PROVE  FromMemory(part, r, assigned[r.user]) = Service!Answer(CallFor(part, r))
<1>1. PICK k : k = CallFor(part, r)
    OBVIOUS
<1>2. CASE part = "plan"
    <2>1. k.op = "GetUserPlan" /\ k.user = r.user
        BY <1>1, <1>2 DEF CallFor
    <2> QED BY <1>1, <1>2, <2>1, AnswersByCall DEF FromMemory
<1>3. CASE part = "features"
    <2>1. k.op = "GetUserFeatures" /\ k.user = r.user
        BY <1>1, <1>3 DEF CallFor
    <2> QED BY <1>1, <1>3, <2>1, AnswersByCall DEF FromMemory
<1>4. CASE part = "verdict"
    <2>1. k.op = "CheckFeature" /\ k.user = r.user /\ k.feature = r.feature
        BY <1>1, <1>4 DEF CallFor
    <2> QED BY <1>1, <1>4, <2>1, AnswersByCall DEF FromMemory
<1> QED BY <1>2, <1>3, <1>4

LEMMA ChangeIsReassignment ==
    ASSUME NEW event, event.product \in Products,
           ~(IsActive(event.status) /\ event.product = NoProduct)
    PROVE  Changed(Owner[event.sub], event.product, IsActive(event.status))
              = Service!Reassigned(ChangeFor(event))
<1>1. PlanFor[event.product] = Service!ResolvePlanFromProduct(Conf, event.product)
    BY SameCatalog, ApiAssumption
<1>2. ChangeFor(event).user = Owner[event.sub]
    BY DEF ChangeFor
<1>3. Service!PlanAsked(ChangeFor(event))
        = IF IsActive(event.status) THEN PlanFor[event.product] ELSE NoPlan
    BY <1>1 DEF ChangeFor, Service!PlanAsked
<1> QED BY <1>2, <1>3 DEF Changed, Service!Reassigned

LEMMA ApiStepsKeepTypes == TypeOK /\ [ApiNext]_api => TypeOK'
<1> SUFFICES ASSUME TypeOK, [ApiNext]_api PROVE TypeOK'
    OBVIOUS
<1>1. CASE [Next]_vars
    BY <1>1, StepsKeepTypes
<1>2. CASE Fault /\ UNCHANGED <<provider, table, up, assigned, pc, local, told>>
    BY <1>2, FaultTypes DEF TypeOK, Busy, provider, local
<1> QED BY <1>1, <1>2, StepsOfTheIntake

(* Every step in which a webhook request or a client's request enters the   *)
(* entitlement service reads or changes the assignment as one call of the   *)
(* atomic service does, an event of product 0 making none.                  *)
THEOREM CallsAreTheService == ApiSpec => [][ServiceCalls]_api
<1>1. TypeOK => ServiceCalls
    <2> SUFFICES ASSUME TypeOK PROVE ServiceCalls
        OBVIOUS
    <2>1. ASSUME NEW h \in Handlers, ReadPrevPlan(h)
          PROVE  prev' = [prev EXCEPT ![h] = PlanOf(UserOf(req[h]))]
        BY <2>1, PlanIsAnswer DEF ReadPrevPlan
    <2>2. ASSUME NEW h \in Handlers, ReadActivePlan(h)
          PROVE  active' = [active EXCEPT ![h] = PlanOf(UserOf(req[h]))]
        BY <2>2, PlanIsAnswer DEF ReadActivePlan
    <2>3. ASSUME NEW h \in Handlers, Apply(h), NEW event, event = events[req[h]]
          PROVE  assigned' = IF IsActive(event.status) /\ event.product = NoProduct
                             THEN assigned
                             ELSE Service!Reassigned(ChangeFor(event))
        <3>1. event.product \in Products
            BY <2>3, RequestSub DEF Apply, Goes, Busy
        <3>2. assigned' = Changed(Owner[event.sub], event.product, IsActive(event.status))
            BY <2>3 DEF Apply
        <3>3. CASE IsActive(event.status) /\ event.product = NoProduct
            BY <3>2, <3>3 DEF Changed
        <3>4. CASE ~(IsActive(event.status) /\ event.product = NoProduct)
            BY <3>1, <3>2, <3>4, ChangeIsReassignment
        <3> QED BY <3>3, <3>4
    <2>4. ASSUME NEW c \in Clients, ReadMemory(c)
          PROVE  got' = [got EXCEPT ![c] =
                            Append(@, Service!Answer(CallFor(NextPart(c), asked[c])))]
        <3>1. PICK part \in {"plan", "features", "verdict"} :
                  /\ NextPart(c) = part
                  /\ got' = [got EXCEPT ![c] = Append(@,
                                FromMemory(part, asked[c], assigned[asked[c].user]))]
            BY <2>4 DEF ReadMemory, Reading, Gets
        <3> QED BY <3>1, ReadIsAnswer
    <2> QED BY <2>1, <2>2, <2>3, <2>4 DEF ServiceCalls
<1>2. ApiInit => TypeOK
    BY InitIInv DEF ApiInit, IInv
<1> QED BY <1>1, <1>2, ApiStepsKeepTypes, PTL DEF ApiSpec
=============================================================================
