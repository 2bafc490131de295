-------------------------- MODULE PricingCacheProofs --------------------------
(***************************************************************************)
(* The cache of variants for any plans, offers and number of clients,      *)
(* however often the offer changes and loads fail.                         *)
(*                                                                         *)
(* The inductive invariant dates what the process holds by offers: the     *)
(* cache is of one offer, what has been fetched of one that is not older,  *)
(* and the lists a client has read so far of ones that are not newer, in   *)
(* the order in which they were read.                                      *)
(***************************************************************************)
EXTENDS PricingCache, FiniteSetTheorems, TLAPS

Good == {v \in Variants : v.published /\ v.price = "number"}

\* The k-th offer says this of the plan; before the first load it is nothing.
IsFrom(list, p, k) ==
    \/ k = 0 /\ list = <<>>
    \/ k > 0 /\ list \in Lists(VariantsOf(offers[k], p))

\* The lists of the client are of offers that do not go back, up to the k-th.
DatedUpTo(c, k) ==
    \E from \in [DOMAIN answer[c] -> 0..k] :
        \A i \in DOMAIN answer[c] :
            /\ IsFrom(answer[c][i], Plans[i], from[i])
            /\ i > 1 => from[i - 1] <= from[i]

DatedBy(k) ==
    /\ \A p \in PlanIds : IsFrom(cache[p], p, k)
    /\ loader = "fetched" => \E r \in 1..Len(offers) : r >= k /\ response = offers[r]
    /\ \A c \in Clients : DatedUpTo(c, k)

IInv ==
    /\ TypeOK
    /\ Len(offers) >= 1
    /\ response \in Offers \cup {{}}
    /\ \A c \in Clients : Len(answer[c]) <= Len(Plans)
    /\ \E k \in 0..Len(offers) : DatedBy(k)

-----------------------------------------------------------------------------
\* A sorted list is a sequence of what was sorted.
LEMMA ListsType ==
    ASSUME NEW S, IsFiniteSet(S)
    PROVE  Lists(S) \subseteq Seq(S)
<1>1. Cardinality(S) \in Nat
    BY FS_CardinalityType
<1>2. SetToSeqs(S) \subseteq [1..Cardinality(S) -> S]
    BY DEF SetToSeqs
<1>3. Lists(S) \subseteq SetToSeqs(S)
    BY DEF Lists
<1> QED BY <1>1, <1>2, <1>3

\* A plan's list of an offer that does not panic has good variants only.
LEMMA VariantsAreGood ==
    ASSUME NEW offer \in Offers \cup {{}}, ~Panics(offer), NEW p
    PROVE  Lists(VariantsOf(offer, p)) \subseteq Seq(Good)
<1>1. offer \subseteq Variants /\ IsFiniteSet(offer)
    BY PricingAssumption, FS_EmptySet DEF PricingAssumption
<1>2. VariantsOf(offer, p) \subseteq Good
    BY <1>1, PricingAssumption DEF VariantsOf, Panics, Kept, Good
<1>3. IsFiniteSet(VariantsOf(offer, p))
    BY <1>1, FS_Subset DEF VariantsOf
<1>4. Lists(VariantsOf(offer, p)) \subseteq Seq(VariantsOf(offer, p))
    BY <1>3, ListsType
<1> QED BY <1>2, <1>4

LEMMA PlansType == /\ Len(Plans) \in Nat
                   /\ \A i \in 1..Len(Plans) : Plans[i] \in PlanIds
<1>1. Plans \in Seq(STRING)
    BY PricingAssumption DEF PricingAssumption
<1> QED BY <1>1 DEF PlanIds, Range

LEMMA EmptyIsDated ==
    ASSUME cache = EmptyCache, loader # "fetched",
           answer = [c \in Clients |-> <<>>]
    PROVE  DatedBy(0)
<1>1. \A p \in PlanIds : IsFrom(cache[p], p, 0)
    BY DEF EmptyCache, IsFrom
<1>2. ASSUME NEW c \in Clients PROVE DatedUpTo(c, 0)
    <2>1. DOMAIN answer[c] = {}
        OBVIOUS
    <2>2. [i \in {} |-> 0] \in [{} -> 0..0]
        OBVIOUS
    <2> QED BY <2>1, <2>2 DEF DatedUpTo
<1> QED BY <1>1, <1>2 DEF DatedBy

LEMMA InitIInv == Init => IInv
<1> SUFFICES ASSUME Init PROVE IInv
    OBVIOUS
<1>1. PICK offer \in Offers : offers = <<offer>>
    BY DEF Init
<1>2. Len(offers) = 1 /\ offers \in Seq(Offers)
    BY <1>1
<1>3. cache \in [PlanIds -> Seq(Good)] /\ answer \in [Clients -> Seq(Seq(Variants))]
    BY DEF Init, EmptyCache
<1>4. TypeOK
    BY <1>2, <1>3, PricingAssumption DEF Init, TypeOK, Good, PricingAssumption
<1>5. DatedBy(0)
    BY EmptyIsDated DEF Init
<1>6. \A c \in Clients : Len(answer[c]) <= Len(Plans)
    BY PlansType DEF Init
<1> QED BY <1>2, <1>4, <1>5, <1>6 DEF Init, IInv

-----------------------------------------------------------------------------
(* What the process holds keeps its dates.                                  *)

\* A later offer changes none of the dates.
LEMMA DatesStay ==
    ASSUME IInv, NEW offer, offers' = Append(offers, offer), NEW k \in 0..Len(offers),
           DatedBy(k), UNCHANGED <<loader, response, cache, answer>>
    PROVE  DatedBy(k)'
<1>1. \A i \in 1..Len(offers) : offers'[i] = offers[i]
    BY DEF IInv, TypeOK
<1>2. Len(offers') = Len(offers) + 1 /\ Len(offers) \in Nat
    BY DEF IInv, TypeOK
<1>3. ASSUME NEW list, NEW p, NEW i \in 0..k, IsFrom(list, p, i)
      PROVE  IsFrom(list, p, i)'
    BY <1>1, <1>3 DEF IsFrom
<1>4. \A p \in PlanIds : IsFrom(cache[p], p, k)'
    BY <1>3 DEF DatedBy
<1>5. loader' = "fetched" => \E r \in 1..Len(offers') : r >= k /\ response' = offers'[r]
    BY <1>1, <1>2 DEF DatedBy
<1>6. ASSUME NEW c \in Clients PROVE DatedUpTo(c, k)'
    <2>1. PICK from \in [DOMAIN answer[c] -> 0..k] :
              \A i \in DOMAIN answer[c] :
                  /\ IsFrom(answer[c][i], Plans[i], from[i])
                  /\ i > 1 => from[i - 1] <= from[i]
        BY DEF DatedBy, DatedUpTo
    <2>2. \A i \in DOMAIN answer[c] : IsFrom(answer[c][i], Plans[i], from[i])'
        BY <1>3, <2>1
    <2> QED BY <2>1, <2>2 DEF DatedUpTo
<1> QED BY <1>4, <1>5, <1>6 DEF DatedBy

LEMMA OfferStep == ASSUME IInv, OfferChanges PROVE IInv'
<1>1. PICK offer \in Offers : offers' = Append(offers, offer)
    BY DEF OfferChanges
<1>2. UNCHANGED <<running, loader, response, cache, answer, faults>>
    BY DEF OfferChanges
<1>3. offers' \in Seq(Offers) /\ Len(offers') = Len(offers) + 1 /\ Len(offers) \in Nat
    BY <1>1 DEF IInv, TypeOK
<1>4. PICK k \in 0..Len(offers) : DatedBy(k)
    BY DEF IInv
<1>5. DatedBy(k)' /\ k \in 0..Len(offers')
    BY <1>1, <1>2, <1>3, <1>4, DatesStay
<1> QED BY <1>2, <1>3, <1>5 DEF IInv, TypeOK

\* Nothing is forgotten or read.
LEMMA LoaderStep ==
    ASSUME IInv, Fetch \/ LoadFails \/ TickerFires \/ Restart
    PROVE  IInv'
<1>1. UNCHANGED <<offers, cache, answer>> /\ faults' \in 0..MaxFaults
    BY PricingAssumption
       DEF Fetch, LoadFails, TickerFires, Restart, PricingAssumption, IInv, TypeOK
<1>2. Len(offers) \in Nat /\ Last(offers) = offers[Len(offers)] /\ Last(offers) \in Offers
    BY DEF Last, IInv, TypeOK
<1>3. /\ loader' \in {"loading", "fetched", "waiting", "returned"}
      /\ running' \in BOOLEAN
      /\ loader' = "fetched" => response' = Last(offers)
      /\ response' \in Offers \cup {{}}
    BY <1>2 DEF Fetch, LoadFails, TickerFires, Restart, AfterLoad, IInv, TypeOK
<1>4. TypeOK'
    BY <1>1, <1>3, PricingAssumption DEF IInv, TypeOK, PricingAssumption
<1>5. PICK k \in 0..Len(offers) : DatedBy(k)
    BY DEF IInv
<1>6. DatedBy(k)'
    <2>1. loader' = "fetched" => \E r \in 1..Len(offers') : r >= k /\ response' = offers'[r]
        BY <1>1, <1>2, <1>3 DEF IInv
    <2> QED BY <1>1, <1>5, <2>1 DEF DatedBy, DatedUpTo, IsFrom
<1> QED BY <1>1, <1>3, <1>4, <1>5, <1>6 DEF IInv

LEMMA InstallStep == ASSUME IInv, Install PROVE IInv'
<1>1. /\ cache' \in CachesOf(response) /\ response' = {} /\ ~Panics(response)
      /\ loader = "fetched" /\ loader' \in {"waiting", "returned"}
      /\ UNCHANGED <<offers, running, answer, faults>>
    BY DEF Install, AfterLoad
<1>2. /\ cache' = [p \in PlanIds |-> cache'[p]]
      /\ \A p \in PlanIds : cache'[p] \in Lists(VariantsOf(response, p))
    BY <1>1 DEF CachesOf
<1>3. \A p \in PlanIds : cache'[p] \in Seq(Good)
    BY <1>1, <1>2, VariantsAreGood DEF IInv
<1>4. cache' \in [PlanIds -> Seq(Good)]
    BY <1>2, <1>3
<1>5. TypeOK'
    BY <1>1, <1>4 DEF IInv, TypeOK, Good
<1>6. PICK k \in 0..Len(offers) : DatedBy(k)
    BY DEF IInv
<1>7. PICK r \in 1..Len(offers) : r >= k /\ response = offers[r]
    BY <1>1, <1>6 DEF DatedBy
<1>8. Len(offers) \in Nat
    BY DEF IInv, TypeOK
<1>9. DatedBy(r)'
    <2>1. \A p \in PlanIds : IsFrom(cache[p], p, r)'
        BY <1>1, <1>2, <1>7, <1>8 DEF IsFrom
    <2>2. ASSUME NEW c \in Clients PROVE DatedUpTo(c, r)'
        <3>1. PICK from \in [DOMAIN answer[c] -> 0..k] :
                  \A i \in DOMAIN answer[c] :
                      /\ IsFrom(answer[c][i], Plans[i], from[i])
                      /\ i > 1 => from[i - 1] <= from[i]
            BY <1>6 DEF DatedBy, DatedUpTo
        <3>2. from \in [DOMAIN answer[c] -> 0..r]
            <4>1. 0..k \subseteq 0..r
                BY <1>7, <1>8
            <4> QED BY <3>1, <4>1
        <3> QED BY <1>1, <3>1, <3>2 DEF DatedUpTo, IsFrom
    <2> QED BY <1>1, <2>1, <2>2 DEF DatedBy
<1>10. r \in 0..Len(offers')
    BY <1>1, <1>7, <1>8
<1> QED BY <1>1, <1>5, <1>9, <1>10 DEF IInv

LEMMA EndStep == ASSUME IInv, Panic \/ Stop PROVE IInv'
<1>1. Ends /\ offers' = offers /\ faults' \in 0..MaxFaults
    BY PricingAssumption DEF Panic, Stop, PricingAssumption, IInv, TypeOK
<1>2. /\ cache' = EmptyCache /\ response' = {} /\ loader' = "returned" /\ running' = FALSE
      /\ answer' = [c \in Clients |-> <<>>]
    BY <1>1 DEF Ends
<1>3. /\ cache' \in [PlanIds -> Seq(Good)]
      /\ answer' \in [Clients -> Seq(Seq(Variants))]
      /\ \A c \in Clients : Len(answer'[c]) <= Len(Plans)
    BY <1>2, PlansType DEF EmptyCache
<1>4. TypeOK'
    BY <1>1, <1>2, <1>3 DEF IInv, TypeOK, Good
<1>5. DatedBy(0)'
    <2>1. \A p \in PlanIds : IsFrom(cache[p], p, 0)'
        BY <1>2 DEF EmptyCache, IsFrom
    <2>2. ASSUME NEW c \in Clients PROVE DatedUpTo(c, 0)'
        <3>1. DOMAIN answer'[c] = {}
            BY <1>2
        <3>2. [i \in {} |-> 0] \in [{} -> 0..0]
            OBVIOUS
        <3> QED BY <3>1, <3>2 DEF DatedUpTo
    <2> QED BY <1>2, <2>1, <2>2 DEF DatedBy
<1>6. 0 \in 0..Len(offers')
    BY <1>1 DEF IInv, TypeOK
<1> QED BY <1>1, <1>2, <1>3, <1>4, <1>5, <1>6 DEF IInv

-----------------------------------------------------------------------------
(* The clients.                                                             *)

LEMMA ReadStep ==
    ASSUME IInv, NEW c \in Clients, GetPlanVariants(c)
    PROVE  IInv'
<1> DEFINE n == Len(answer[c])
           list == cache[Plans[n + 1]]
<1>1. /\ n < Len(Plans) /\ answer' = [answer EXCEPT ![c] = Append(@, list)]
      /\ UNCHANGED <<offers, running, loader, response, cache, faults>>
    BY DEF GetPlanVariants
<1>2. n \in Nat /\ Len(offers) \in Nat
    BY DEF IInv, TypeOK
<1>3. Plans[n + 1] \in PlanIds
    BY <1>1, <1>2, PlansType
<1>4. list \in Seq(Variants)
    <2>1. list \in Seq(Good)
        BY <1>3 DEF IInv, TypeOK, Good
    <2> QED BY <2>1 DEF Good
<1>5. answer' \in [Clients -> Seq(Seq(Variants))]
    BY <1>1, <1>4 DEF IInv, TypeOK
<1>6. /\ answer'[c] = Append(answer[c], list) /\ Len(answer'[c]) = n + 1
      /\ DOMAIN answer[c] = 1..n /\ DOMAIN answer'[c] = 1..(n + 1)
      /\ \A i \in 1..n : answer'[c][i] = answer[c][i]
      /\ answer'[c][n + 1] = list
      /\ \A d \in Clients \ {c} : answer'[d] = answer[d]
    BY <1>1, <1>4 DEF IInv, TypeOK
<1>7. \A d \in Clients : Len(answer'[d]) <= Len(Plans)
    BY <1>1, <1>2, <1>6, PlansType DEF IInv
<1>8. PICK k \in 0..Len(offers) : DatedBy(k)
    BY DEF IInv
<1> HIDE DEF n, list
<1>9. DatedUpTo(c, k)'
    <2>1. PICK from \in [1..n -> 0..k] :
              \A i \in 1..n : /\ IsFrom(answer[c][i], Plans[i], from[i])
                              /\ i > 1 => from[i - 1] <= from[i]
        BY <1>6, <1>8 DEF DatedBy, DatedUpTo
    <2>2. k \in 0..k /\ k \in Nat
        BY <1>2
    <2>3. [i \in 1..(n + 1) |-> IF i <= n THEN from[i] ELSE k] \in [1..(n + 1) -> 0..k]
        <3>1. ASSUME NEW i \in 1..(n + 1), i <= n PROVE from[i] \in 0..k
            BY <1>2, <2>1, <3>1
        <3> QED BY <2>2, <3>1
    <2>4. PICK upTo \in [1..(n + 1) -> 0..k] :
              (\A i \in 1..n : upTo[i] = from[i]) /\ upTo[n + 1] = k
        <3> DEFINE longer == [i \in 1..(n + 1) |-> IF i <= n THEN from[i] ELSE k]
        <3>1. (\A i \in 1..n : longer[i] = from[i]) /\ longer[n + 1] = k
            BY <1>2
        <3> HIDE DEF longer
        <3>2. longer \in [1..(n + 1) -> 0..k]
            BY <2>3 DEF longer
        <3> QED BY <3>1, <3>2
    <2>5. IsFrom(list, Plans[n + 1], k)
        BY <1>3, <1>8 DEF DatedBy, list, n
    <2>6. ASSUME NEW i \in 1..(n + 1)
          PROVE  /\ IsFrom(answer[c][i], Plans[i], upTo[i])'
                 /\ i > 1 => upTo[i - 1] <= upTo[i]
        <3>1. CASE i = n + 1
            <4>1. IsFrom(answer[c][i], Plans[i], upTo[i])'
                BY <1>1, <1>6, <2>4, <2>5, <3>1 DEF IsFrom
            <4>2. i > 1 => upTo[i - 1] <= k
                <5> SUFFICES ASSUME i > 1 PROVE upTo[i - 1] <= k
                    OBVIOUS
                <5>1. i - 1 = n /\ n \in 1..(n + 1)
                    BY <1>2, <3>1
                <5> QED BY <2>2, <2>4, <5>1
            <4> QED BY <2>4, <3>1, <4>1, <4>2
        <3>2. CASE i # n + 1
            <4>1. i \in 1..n /\ (i > 1 => i - 1 \in 1..n)
                BY <1>2, <3>2
            <4> QED BY <1>1, <1>6, <2>1, <2>4, <4>1 DEF IsFrom
        <3> QED BY <3>1, <3>2
    <2> QED BY <1>6, <2>4, <2>6 DEF DatedUpTo
<1>10. ASSUME NEW d \in Clients \ {c} PROVE DatedUpTo(d, k)'
    BY <1>1, <1>6, <1>8 DEF DatedBy, DatedUpTo, IsFrom
<1>11. DatedBy(k)'
    BY <1>1, <1>8, <1>9, <1>10 DEF DatedBy, IsFrom
<1>12. TypeOK'
    BY <1>1, <1>5 DEF IInv, TypeOK
<1> QED BY <1>1, <1>7, <1>8, <1>11, <1>12 DEF IInv

LEMMA RespondStep ==
    ASSUME IInv, NEW c \in Clients, Respond(c)
    PROVE  IInv'
<1>1. /\ answer' = [answer EXCEPT ![c] = <<>>]
      /\ UNCHANGED <<offers, running, loader, response, cache, faults>>
    BY DEF Respond
<1>2. answer'[c] = <<>> /\ \A d \in Clients \ {c} : answer'[d] = answer[d]
    BY <1>1 DEF IInv, TypeOK
<1>3. TypeOK'
    BY <1>1 DEF IInv, TypeOK
<1>4. PICK k \in 0..Len(offers) : DatedBy(k)
    BY DEF IInv
<1>5. DatedUpTo(c, k)'
    <2>1. DOMAIN answer'[c] = {}
        BY <1>2
    <2>2. [i \in {} |-> 0] \in [{} -> 0..k]
        OBVIOUS
    <2> QED BY <2>1, <2>2 DEF DatedUpTo
<1>6. ASSUME NEW d \in Clients \ {c} PROVE DatedUpTo(d, k)'
    BY <1>1, <1>2, <1>4 DEF DatedBy, DatedUpTo, IsFrom
<1>7. DatedBy(k)'
    BY <1>1, <1>4, <1>5, <1>6 DEF DatedBy, IsFrom
<1>8. \A d \in Clients : Len(answer'[d]) <= Len(Plans)
    BY <1>2, PlansType DEF IInv
<1> QED BY <1>1, <1>3, <1>4, <1>7, <1>8 DEF IInv

-----------------------------------------------------------------------------
(* The invariant holds in every behaviour.                                  *)
THEOREM Invariance == Spec => []IInv
<1>1. IInv /\ [Next]_vars => IInv'
    <2> SUFFICES ASSUME IInv, [Next]_vars PROVE IInv'
        OBVIOUS
    <2>1. CASE UNCHANGED vars
        <3>1. PICK k \in 0..Len(offers) : DatedBy(k)
            BY DEF IInv
        <3>2. DatedBy(k)'
            BY <2>1, <3>1 DEF vars, DatedBy, DatedUpTo, IsFrom
        <3>3. TypeOK'
            BY <2>1 DEF vars, IInv, TypeOK
        <3> QED BY <2>1, <3>1, <3>2, <3>3 DEF vars, IInv
    <2>2. CASE Next
        BY <2>2, OfferStep, LoaderStep, InstallStep, EndStep, ReadStep, RespondStep
           DEF Next, Load
    <2> QED BY <2>1, <2>2
<1> QED BY <1>1, InitIInv, PTL DEF Spec

(* Only published variants with a number for a price get into the cache.    *)
THEOREM TypeCorrect == Spec => []TypeOK
<1>1. IInv => TypeOK
    BY DEF IInv
<1> QED BY <1>1, Invariance, PTL

(* The lists of an answer are each one offer's and never go back.           *)
THEOREM AnswersForward == Spec => []AnswersGoForward
<1>1. IInv => AnswersGoForward
    <2> SUFFICES ASSUME IInv, NEW c \in Clients
                 PROVE  \E from \in [DOMAIN answer[c] -> 0..Len(offers)] :
                            \A i \in DOMAIN answer[c] :
                                /\ IsFrom(answer[c][i], Plans[i], from[i])
                                /\ i > 1 => from[i - 1] <= from[i]
        BY DEF AnswersGoForward, IsFrom
    <2>1. PICK k \in 0..Len(offers) : DatedBy(k)
        BY DEF IInv
    <2>2. PICK from \in [DOMAIN answer[c] -> 0..k] :
              \A i \in DOMAIN answer[c] :
                  /\ IsFrom(answer[c][i], Plans[i], from[i])
                  /\ i > 1 => from[i - 1] <= from[i]
        BY <2>1 DEF DatedBy, DatedUpTo
    <2>3. 0..k \subseteq 0..Len(offers)
        BY <2>1 DEF IInv, TypeOK
    <2>4. from \in [DOMAIN answer[c] -> 0..Len(offers)]
        BY <2>2, <2>3
    <2> QED BY <2>2, <2>4
<1> QED BY <1>1, Invariance, PTL
=============================================================================
