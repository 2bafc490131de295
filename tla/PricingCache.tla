---------------------------- MODULE PricingCache ----------------------------
(***************************************************************************)
(* The variants of the plans: the goroutine Start of LemonSqueezyProvider, *)
(* which loads them from the billing provider once or periodically and     *)
(* replaces the cache under the write lock, and the requests for plans,    *)
(* which read the cache under the read lock, once for each plan.           *)
(*                                                                         *)
(* The billing provider is external: what it offers is a set of variants,  *)
(* and it changes its offer at any time.                                   *)
(***************************************************************************)
EXTENDS SequencesExt

CONSTANTS
    Plans,         \* the plan ids in the order of the configuration
    ProductToPlan, \* the plan of each product that is mapped to one
    Variants,      \* what an offer is made of
    Offers,        \* the offers there can be
    Periodic,      \* is sync_period set?
    Clients,       \* the goroutines that serve requests for plans
    MaxChanges,    \* bound on the changes of the offer
    MaxFaults      \* bound on loads that fail and on ends of the process

ASSUME PricingAssumption ==
    /\ Plans \in Seq(STRING)
    /\ \A v \in Variants : /\ v.published \in BOOLEAN /\ v.sort \in Nat
                           /\ v.price \in {"number", "other"}
    /\ Offers # {} /\ Offers \subseteq SUBSET Variants
    /\ \A offer \in Offers : IsFiniteSet(offer)
    /\ Periodic \in BOOLEAN /\ MaxChanges \in Nat /\ MaxFaults \in Nat

VARIABLES
    offers,   \* the offers so far, the last of them the present one
    running,  \* is the process running?
    loader,   \* Start: "loading", "fetched", "waiting" for the ticker or "returned"
    response, \* the offer it has fetched
    cache,    \* the variants of each plan
    answer,   \* the lists each client has read so far for its answer
    faults    \* the loads that failed and the ends of the process so far

vars == <<offers, running, loader, response, cache, answer, faults>>

PlanIds == Range(Plans)

EmptyCache == [p \in PlanIds |-> <<>>]

-----------------------------------------------------------------------------
\* As a bug would have it: drafts are kept.
KeptAnyStatus(v) == v.product \in DOMAIN ProductToPlan

Kept(v) == v.published /\ v.product \in DOMAIN ProductToPlan

\* The price of a variant that is kept is taken for a number.
Panics(offer) == \E v \in offer : Kept(v) /\ v.price = "other"

VariantsOf(offer, p) == {v \in offer : Kept(v) /\ ProductToPlan[v.product] = p}

\* sort.Slice is not stable: variants with the same sort come in any order.
Lists(variants) ==
    {list \in SetToSeqs(variants) :
        \A i, j \in DOMAIN list : i < j => list[i].sort <= list[j].sort}

\* The caches that a load of this offer may make.
CachesOf(offer) ==
    {c \in [PlanIds -> UNION {Lists(VariantsOf(offer, p)) : p \in PlanIds}] :
        \A p \in PlanIds : c[p] \in Lists(VariantsOf(offer, p))}

-----------------------------------------------------------------------------
Init ==
    /\ offers \in {<<offer>> : offer \in Offers}
    /\ running = TRUE
    /\ loader = "loading" /\ response = {}
    /\ cache = EmptyCache
    /\ answer = [c \in Clients |-> <<>>]
    /\ faults = 0

OfferChanges ==
    /\ Len(offers) <= MaxChanges
    /\ \E offer \in Offers : offers' = Append(offers, offer)
    /\ UNCHANGED <<running, loader, response, cache, answer, faults>>

\* ListWithVariants answers.
Fetch ==
    /\ running /\ loader = "loading"
    /\ loader' = "fetched"
    /\ response' = Last(offers)
    /\ UNCHANGED <<offers, running, cache, answer, faults>>

\* Start after a load: without a period it returns.
AfterLoad == loader' = IF Periodic THEN "waiting" ELSE "returned"

\* As a bug would have it: Start returns when a load fails.
LoadFailsForGood ==
    /\ running /\ loader = "loading"
    /\ faults < MaxFaults /\ faults' = faults + 1
    /\ loader' = "returned"
    /\ UNCHANGED <<offers, running, response, cache, answer>>

LoadFails ==
    /\ running /\ loader = "loading"
    /\ faults < MaxFaults /\ faults' = faults + 1
    /\ AfterLoad
    /\ UNCHANGED <<offers, running, response, cache, answer>>

\* As a bug would have it: the variants of the new offer are added to those
\* that are in the cache.
InstallAdding ==
    /\ running /\ loader = "fetched"
    /\ ~Panics(response)
    /\ \E new \in CachesOf(response) : cache' = [p \in PlanIds |-> cache[p] \o new[p]]
    /\ response' = {}
    /\ AfterLoad
    /\ UNCHANGED <<offers, running, answer, faults>>

\* The variants are grouped, sorted and put in the place of the old ones.
Install ==
    /\ running /\ loader = "fetched"
    /\ ~Panics(response)
    /\ cache' \in CachesOf(response)
    /\ response' = {}
    /\ AfterLoad
    /\ UNCHANGED <<offers, running, answer, faults>>

\* The end of the process, with all that it held in memory.
Ends ==
    /\ running' = FALSE
    /\ loader' = "returned" /\ response' = {}
    /\ cache' = EmptyCache
    /\ answer' = [c \in Clients |-> <<>>]

\* A price that is not a number: nobody recovers from the panic of the
\* goroutine, and the process ends.
Panic ==
    /\ running /\ loader = "fetched"
    /\ Panics(response)
    /\ Ends
    /\ UNCHANGED <<offers, faults>>

\* The context is cancelled, Start returns and main does soon after; or the
\* process dies.
Stop ==
    /\ running
    /\ faults < MaxFaults /\ faults' = faults + 1
    /\ Ends
    /\ UNCHANGED offers

Restart ==
    /\ ~running
    /\ running' = TRUE
    /\ loader' = "loading"
    /\ UNCHANGED <<offers, response, cache, answer, faults>>

TickerFires ==
    /\ running /\ loader = "waiting"
    /\ loader' = "loading"
    /\ UNCHANGED <<offers, running, response, cache, answer, faults>>

\* GET /v1/plans: one call of GetPlanVariants after the other.
GetPlanVariants(c) ==
    /\ running
    /\ Len(answer[c]) < Len(Plans)
    /\ answer' = [answer EXCEPT ![c] = Append(@, cache[Plans[Len(@) + 1]])]
    /\ UNCHANGED <<offers, running, loader, response, cache, faults>>

Respond(c) ==
    /\ running
    /\ Len(answer[c]) = Len(Plans)
    /\ answer' = [answer EXCEPT ![c] = <<>>]
    /\ UNCHANGED <<offers, running, loader, response, cache, faults>>

Load == Fetch \/ LoadFails \/ Install \/ Panic \/ TickerFires

Next ==
    \/ OfferChanges
    \/ Load \/ Stop \/ Restart
    \/ \E c \in Clients : GetPlanVariants(c) \/ Respond(c)

Spec == Init /\ [][Next]_vars

\* The provider's API answers in the end, the ticker ticks, and the process is
\* restarted when it has died.
Fairness == WF_vars(Fetch \/ Install \/ Panic) /\ WF_vars(TickerFires) /\ WF_vars(Restart)

FairSpec == Spec /\ Fairness

-----------------------------------------------------------------------------
(* Properties                                                              *)

\* Every variable has its type: only published variants of mapped products,
\* with a number for a price, get into the cache.
TypeOK ==
    /\ offers \in Seq(Offers)
    /\ running \in BOOLEAN
    /\ loader \in {"loading", "fetched", "waiting", "returned"}
    /\ response \subseteq Variants
    /\ cache \in [PlanIds -> Seq({v \in Variants : v.published /\ v.price = "number"})]
    /\ answer \in [Clients -> Seq(Seq(Variants))]
    /\ faults \in 0..MaxFaults

\* The lists of an answer, read one after the other while loads go on and
\* fail, are each what one offer of the provider says of the plan, sorted and
\* complete, and never go back: the offer a list is from is not older than that
\* of the list before it. Offer 0 is the cache before the first load.
AnswersGoForward ==
    \A c \in Clients :
        \E from \in [DOMAIN answer[c] -> 0..Len(offers)] :
            \A i \in DOMAIN answer[c] :
                /\ \/ from[i] = 0 /\ answer[c][i] = <<>>
                   \/ from[i] > 0 /\ answer[c][i] \in Lists(VariantsOf(offers[from[i]], Plans[i]))
                /\ i > 1 => from[i - 1] <= from[i]

\* "Periodic sync interval for refreshing pricing and variant data" (README,
\* sync_period): when the provider's offer no longer changes, the cache is the
\* last one in the end, whatever loads failed, unless that offer has a price
\* that is not a number.
EventuallyFresh ==
    Periodic => <>[](cache \in CachesOf(Last(offers)) \/ Panics(Last(offers)))
=============================================================================
