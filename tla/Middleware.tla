----------------------------- MODULE Middleware -----------------------------
(***************************************************************************)
(* What happens to an HTTP request before a handler of the API sees it:    *)
(* the chain of middlewares main builds around the mux, the patterns of    *)
(* the mux, the middlewares of single routes, and the validation of the    *)
(* input. Tracing, logging, recovery and metrics let every request pass.   *)
(*                                                                         *)
(* A path is the sequence of its segments. A request is a record with      *)
(*   method, path                                                          *)
(*   key     : its X-Api-Key header, "none", "wrong" or "right"            *)
(*   proxied : has it X-Real-IP or X-Forwarded-For?                        *)
(*   input   : its query and path values, "valid", "invalid" if they fail  *)
(*             the struct tags, or "undecodable" if they cannot be bound to  *)
(*             the struct at all, as with a malformed escape in the query    *)
(***************************************************************************)
EXTENDS Naturals, Sequences

CONSTANTS
    MetricsOn,      \* metrics.enable
    MetricsPath     \* metrics.path

ASSUME MetricsAssumption == MetricsOn \in BOOLEAN /\ MetricsPath # <<>>

HealthPath == <<"healthz">>

\* path.Match, and the patterns of the mux: a star stands for one segment.
Matches(pattern, path) ==
    /\ Len(pattern) = Len(path)
    /\ \A i \in DOMAIN path : pattern[i] \in {"*", path[i]}

-----------------------------------------------------------------------------
(* The middlewares around the mux: only the API key can stop a request.     *)

SkipsAny(patterns, path) == \E p \in patterns : Matches(p, path)

\* As a bug would have it: the star is taken for everything below /v1.
SkipsAuthBelow(path) ==
    SkipsAny({HealthPath, MetricsPath, <<"v1", "*">>, <<"v1", "*", "*">>}, path)

\* As a bug would have it: the loop over the paths goes on after a match.
SkipsAuthByLast(path) == SkipsAny({<<"v1", "webhook", "*">>}, path)

SkipsAuth(path) ==
    SkipsAny({HealthPath, MetricsPath, <<"v1", "webhook", "*">>}, path)

Authorized(r) == SkipsAuth(r.path) \/ r.key = "right"

-----------------------------------------------------------------------------
(* The mux                                                                  *)

Handle(method, pattern, name) == [method |-> method, pattern |-> pattern, name |-> name]

Routes ==
    { Handle("GET",  <<"v1", "check">>,                   "check"),
      Handle("GET",  <<"v1", "features">>,                "features"),
      Handle("GET",  <<"v1", "features", "*">>,           "feature"),
      Handle("GET",  <<"v1", "plans">>,                   "plans"),
      Handle("GET",  <<"v1", "plans", "*">>,              "plan"),
      Handle("GET",  <<"v1", "users", "*">>,              "user"),
      Handle("POST", <<"v1", "webhook", "lemonsqueezy">>, "webhook"),
      Handle("GET",  <<"openapi.json">>,                  "openapi"),
      Handle("GET",  <<"docs">>,                          "docs"),
      Handle("GET",  HealthPath,                          "health") }
    \cup (IF MetricsOn THEN {Handle("GET", MetricsPath, "metrics")} ELSE {})

RoutesAt(path) == {route \in Routes : Matches(route.pattern, path)}

\* A pattern of GET serves HEAD, too.
RoutesFor(r) ==
    {route \in RoutesAt(r.path) :
        r.method = route.method \/ (r.method = "HEAD" /\ route.method = "GET")}

NameOf(r) == (CHOOSE route \in RoutesFor(r) : TRUE).name

-----------------------------------------------------------------------------
(* The middlewares of single routes                                         *)

IsLocalNetworkReq(r) == ~r.proxied

Hides(r) == NameOf(r) \in {"health", "metrics"} /\ ~IsLocalNetworkReq(r)

Validates(r) == NameOf(r) \in {"check", "feature", "plans", "plan", "user"}

\* The error handler of valmid tells the errors of the struct tags (422) from
\* any other it is given (400).
InputStatus(r) ==
    CASE r.input = "valid"       -> 0
      [] r.input = "invalid"     -> 422
      [] r.input = "undecodable" -> 400

\* The status a request is refused with, or 0 if a handler is called. The
\* order is that of the code: a path nobody serves needs a key, too.
Refusal(r) ==
    CASE ~Authorized(r)                                             -> 401
      [] Authorized(r) /\ RoutesAt(r.path) = {}                     -> 404
      [] Authorized(r) /\ RoutesAt(r.path) # {} /\ RoutesFor(r) = {} -> 405
      [] Authorized(r) /\ RoutesFor(r) # {} /\ Hides(r)             -> 404
      [] Authorized(r) /\ RoutesFor(r) # {} /\ ~Hides(r)
                       /\ Validates(r)                              -> InputStatus(r)
      [] OTHER                                                      -> 0

\* GET /healthz: the flag of the shutdown first, then the database.
HealthStatus(draining, database) == IF draining \/ ~database THEN 503 ELSE 200
=============================================================================
