-------------------------- MODULE ClientAuthorizer --------------------------
(***************************************************************************)
(* The client authorizer of an RP process: the goroutine that fetches the  *)
(* certificates of Azure Resource Manager every hour, and the two readers  *)
(* of what it stores, IsAuthorized and IsReady.                            *)
(*                                                                         *)
(* Times are kept as hours gone by, up to one more than any bound.  The    *)
(* HTTP client has no timeout: an answer may take any number of hours.       *)
(***************************************************************************)
EXTENDS Naturals

CONSTANTS
  Certs,      \* the certificates that ARM may publish
  MaxAge      \* the hours a refresh keeps the process ready: 24

ASSUME MaxAgeAssumption == MaxAge \in Nat

VARIABLES
  published,  \* ARM: the certificates it lists...
  gone,       \* ...and for how long it has not listed the others
  validity,   \* of every certificate: "early", "current" or "expired"
  m,          \* a.m.ClientCertificates
  age,        \* hours since lastSuccessfulRefresh
  refresh,    \* the goroutine: "wait", "asked", "answered" or "dead"
  started,    \* hours since now was read by refreshOnce...
  then,       \* ...and the certificates that were current by it
  response,   \* the certificates in the answer
  due         \* the ticker has fired

authVars == <<published, gone, validity, m, age, refresh, started, then, response, due>>

Old == MaxAge + 1
Later(h) == IF h < Old THEN h + 1 ELSE h

AuthInit ==
  /\ published \in SUBSET Certs
  /\ gone = [c \in Certs |-> Old]
  /\ validity \in [Certs -> {"early", "current"}]
  /\ m = {} /\ age = Old
  /\ refresh = "wait" /\ started = Old /\ then = {} /\ response = {} /\ due = TRUE

CurrentCerts == {c \in Certs : validity[c] = "current"}
Current(cs) == cs \cap CurrentCerts # {}

IsAuthorized(c) == c \in m /\ validity[c] = "current"
IsReady == age <= MaxAge /\ Current(m)

---------------------------------------------------------------------------
\* refreshOnce reads the clock and sends its request.
RefreshBegin ==
  /\ refresh = "wait" /\ due
  /\ refresh' = "asked" /\ started' = 0 /\ then' = CurrentCerts /\ due' = FALSE
  /\ UNCHANGED <<published, gone, validity, m, age, response>>

Answer ==
  /\ refresh = "asked"
  /\ refresh' = "answered" /\ response' = published
  /\ UNCHANGED <<published, gone, validity, m, age, started, then, due>>

\* An error, another status than OK, another content type, no JSON.
RefreshFails ==
  /\ refresh = "asked"
  /\ refresh' = "wait" /\ started' = Old /\ then' = {}
  /\ UNCHANGED <<published, gone, validity, m, age, response, due>>

\* A body "null" leaves a nil pointer behind; the panic ends the goroutine.
RefreshPanics ==
  /\ refresh = "asked"
  /\ refresh' = "dead" /\ started' = Old /\ then' = {}
  /\ UNCHANGED <<published, gone, validity, m, age, response, due>>

\* Mutant: the time of the refresh is when it is stored.
RefreshStore_TimeOfEnd ==
  /\ refresh = "answered"
  /\ refresh' = "wait"
  /\ IF response \cap then # {} THEN m' = response /\ age' = 0 ELSE UNCHANGED <<m, age>>
  /\ response' = {} /\ started' = Old /\ then' = {}
  /\ UNCHANGED <<published, gone, validity, due>>

\* Mutant: the time of the refresh is not kept.
RefreshStore_NoTime ==
  /\ refresh = "answered"
  /\ refresh' = "wait"
  /\ IF response \cap then # {} THEN m' = response ELSE UNCHANGED m
  /\ response' = {} /\ started' = Old /\ then' = {}
  /\ UNCHANGED <<published, gone, validity, age, due>>

\* Without a certificate in it that was current at the start an answer is an
\* error.
RefreshStore ==
  /\ refresh = "answered"
  /\ refresh' = "wait"
  /\ IF response \cap then # {} THEN m' = response /\ age' = started ELSE UNCHANGED <<m, age>>
  /\ response' = {} /\ started' = Old /\ then' = {}
  /\ UNCHANGED <<published, gone, validity, due>>

---------------------------------------------------------------------------
\* An hour passes, and certificates become valid and expire.
Hour ==
  /\ gone' = [c \in Certs |-> IF c \in published THEN 0 ELSE Later(gone[c])]
  /\ age' = Later(age) /\ started' = Later(started)
  /\ due' = TRUE
  /\ validity' \in [Certs -> {"early", "current", "expired"}]
  /\ \A c \in Certs : \/ validity'[c] = validity[c]
                      \/ validity[c] = "early" /\ validity'[c] = "current"
                      \/ validity[c] = "current" /\ validity'[c] = "expired"
  /\ UNCHANGED <<published, m, refresh, then, response>>

\* ARM publishes certificates and withdraws others.
Publish ==
  /\ published' \in SUBSET Certs \ {published}
  /\ gone' = [c \in Certs |-> IF c \in published \cup published' THEN 0 ELSE gone[c]]
  /\ UNCHANGED <<validity, m, age, refresh, started, then, response, due>>

AuthNext ==
  \/ RefreshBegin \/ Answer \/ RefreshFails \/ RefreshPanics \/ RefreshStore
  \/ Hour \/ Publish

\* Time passes, the goroutine runs, and requests are not answered with an
\* error for ever.
AuthFairness ==
  /\ WF_authVars(Hour) /\ WF_authVars(RefreshBegin) /\ WF_authVars(RefreshStore)
  /\ WF_authVars(Answer \/ RefreshFails \/ RefreshPanics) /\ SF_authVars(Answer)

AuthSpec == AuthInit /\ [][AuthNext]_authVars /\ AuthFairness

---------------------------------------------------------------------------
\* A process that answers its readiness probe accepts no certificate that ARM
\* stopped listing more than MaxAge hours ago, however long a request of the
\* refresh took (refreshOnce, IsReady, IsAuthorized).
WithdrawnBounded ==
  \A c \in Certs : IsReady /\ IsAuthorized(c) /\ c \notin published => gone[c] <= MaxAge

\* If ARM at last always lists a current certificate and answers within
\* MaxAge hours, the process is ready again and again, whatever answers it
\* got before, unless an empty answer has ended the goroutine (refresh).
ReadyAgain ==
  <>[](Current(published) /\ (refresh \in {"asked", "answered"} => started <= MaxAge))
    => []<>(IsReady \/ refresh = "dead")
===========================================================================
