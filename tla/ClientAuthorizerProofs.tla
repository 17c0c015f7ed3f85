---------------------- MODULE ClientAuthorizerProofs ----------------------
(***************************************************************************)
(* How long a certificate outlives its withdrawal, for any set of          *)
(* certificates and any MaxAge.                                            *)
(***************************************************************************)
EXTENDS ClientAuthorizer, TLAPS

AuthTypeOK ==
  /\ published \in SUBSET Certs /\ m \in SUBSET Certs /\ response \in SUBSET Certs
  /\ gone \in [Certs -> Nat]
  /\ age \in Nat /\ started \in Nat

\* What is in use has not been withdrawn for longer than its age, and what is
\* in an answer not for longer than the request is old: the clock is read
\* before the request is sent.
NotWithdrawnEarlier ==
  \A c \in Certs : c \notin published =>
    /\ c \in m => gone[c] <= age
    /\ refresh = "answered" /\ c \in response => gone[c] <= started

AuthInv == AuthTypeOK /\ NotWithdrawnEarlier

\* The hours that have gone by stay in their order, bounded as they are.
LEMMA LaterLemma ==
  ASSUME NEW a \in Nat, NEW b \in Nat
  PROVE  Later(a) \in Nat /\ (a <= b => Later(a) <= Later(b))
BY MaxAgeAssumption DEF Later, Old

\* At first nothing is in use and nothing is asked.
LEMMA AuthInitLemma == AuthInit => AuthInv
BY MaxAgeAssumption DEF AuthInit, AuthInv, AuthTypeOK, NotWithdrawnEarlier, Old

\* Every step keeps what is in use and in an answer young enough.
LEMMA AuthStepLemma == AuthInv /\ [AuthNext]_authVars => AuthInv'
<1> SUFFICES ASSUME AuthInv, [AuthNext]_authVars
             PROVE  AuthInv'
  OBVIOUS
<1> USE MaxAgeAssumption DEF AuthInv, AuthTypeOK, NotWithdrawnEarlier, Old
<1>1. CASE RefreshBegin
  BY <1>1 DEF RefreshBegin
<1>2. CASE Answer
  BY <1>2 DEF Answer
<1>3. CASE RefreshFails \/ RefreshPanics
  BY <1>3 DEF RefreshFails, RefreshPanics
<1>4. CASE RefreshStore
  <2>1. CASE response \cap then # {}
    BY <1>4, <2>1 DEF RefreshStore
  <2>2. CASE response \cap then = {}
    BY <1>4, <2>2 DEF RefreshStore
  <2> QED BY <2>1, <2>2
<1>5. CASE Hour
  <2>1. gone' \in [Certs -> Nat] /\ age' \in Nat /\ started' \in Nat
    BY <1>5, LaterLemma DEF Hour
  <2>2. ASSUME NEW c \in Certs, c \notin published
        PROVE  /\ c \in m => gone'[c] <= age'
               /\ refresh = "answered" /\ c \in response => gone'[c] <= started'
    BY <1>5, <2>2, LaterLemma DEF Hour
  <2> QED BY <1>5, <2>1, <2>2 DEF Hour
<1>6. CASE Publish
  BY <1>6 DEF Publish
<1>7. CASE UNCHANGED authVars
  BY <1>7 DEF authVars
<1> QED
  BY <1>1, <1>2, <1>3, <1>4, <1>5, <1>6, <1>7 DEF AuthNext

\* A process that is ready accepts no certificate that ARM stopped listing
\* more than MaxAge hours ago, however long any request of refreshOnce took
\* (IsReady, IsAuthorized).
THEOREM WithdrawnBoundedCorrect == AuthSpec => []WithdrawnBounded
<1>1. AuthInv => WithdrawnBounded
  BY MaxAgeAssumption
  DEF AuthInv, AuthTypeOK, NotWithdrawnEarlier, WithdrawnBounded, IsReady, IsAuthorized
<1> QED BY AuthInitLemma, AuthStepLemma, <1>1, PTL DEF AuthSpec
===========================================================================
