------------------------ MODULE FrontendServerProofs ------------------------
(***************************************************************************)
(* The orderly shutdown of the front end, for any number of requests and   *)
(* any times that leave the margins of FrontendServer's assumptions.       *)
(***************************************************************************)
EXTENDS FrontendServer, TLAPS

SrvTypeOK ==
  /\ ready \in BOOLEAN /\ listening \in BOOLEAN /\ probed \in BOOLEAN /\ rotation \in BOOLEAN
  /\ stop \in {"run", "grace", "shutdown", "exited"}
  /\ time \in Nat /\ failed \in 0..NumberOfProbes
  /\ req \in [Requests -> [at : {"none", "read", "handle", "expired"}, age : Nat, late : BOOLEAN]]

\* How long each stage of the shutdown lasts.
Stages ==
  /\ stop = "run" => time = 0
  /\ stop = "grace" => time <= GraceTime
  /\ stop = "shutdown" => GraceTime <= time /\ time <= GraceTime + ShutdownTime
  /\ stop \in {"run", "grace"} => listening

\* The load balancer counts failing probes from SIGTERM on, but for one that
\* came before it in the same interval.
ProbesFail ==
  /\ rotation <=> failed < NumberOfProbes
  /\ stop # "run" => ~ready
  /\ stop # "run" /\ failed < NumberOfProbes => time <= failed + 1
  /\ stop # "run" /\ failed < NumberOfProbes /\ probed => time <= failed
  /\ stop \in {"shutdown", "exited"} => failed = NumberOfProbes

\* A request that is not late began while the process was in rotation, and
\* the server's deadlines bound what it has taken since.
RequestsAge ==
  \A k \in Requests :
    /\ req[k].at = "none" => req[k].age = 0 /\ ~req[k].late
    /\ req[k].at = "read" => req[k].age <= ReadTimeout
    /\ req[k].at = "handle" => req[k].age <= WriteTimeout
    /\ req[k].at = "read" /\ ~req[k].late => time <= NumberOfProbes + req[k].age
    /\ req[k].at = "handle" /\ ~req[k].late => time <= NumberOfProbes + ReadTimeout + req[k].age

SrvInv == SrvTypeOK /\ Stages /\ ProbesFail /\ RequestsAge /\ ~refused /\ ~cut

---------------------------------------------------------------------------
\* At first the process serves, and there is no request.
LEMMA SrvInitLemma == SrvInit => SrvInv
<1> SUFFICES ASSUME SrvInit PROVE SrvInv
  OBVIOUS
<1> USE TimesAreNumbers DEF SrvInit
<1>1. SrvTypeOK
  <2>1. ready \in BOOLEAN /\ listening \in BOOLEAN /\ probed \in BOOLEAN /\ rotation \in BOOLEAN
    OBVIOUS
  <2>2. NoRequest \in [at : {"none", "read", "handle", "expired"}, age : Nat, late : BOOLEAN]
    BY DEF NoRequest
  <2> QED BY <2>1, <2>2 DEF SrvTypeOK
<1>2. Stages /\ ~refused /\ ~cut
  BY DEF Stages
<1>3. ProbesFail
  BY DEF ProbesFail
<1>4. RequestsAge
  BY DEF RequestsAge, NoRequest
<1> QED BY <1>1, <1>2, <1>3, <1>4 DEF SrvInv

\* A probe of a process that is stopping fails.
LEMMA ProbeLemma == ASSUME SrvInv, Probe PROVE SrvInv'
<1> USE TimesAreNumbers DEF SrvInv, Probe, Running
<1>1. failed' \in 0..NumberOfProbes
  BY DEF SrvTypeOK
<1>2. SrvTypeOK'
  BY <1>1 DEF SrvTypeOK
<1>3. Stages' /\ RequestsAge' /\ ~refused' /\ ~cut'
  BY DEF Stages, RequestsAge
<1>4. ASSUME stop # "run"
      PROVE  failed' = IF failed < NumberOfProbes THEN failed + 1 ELSE failed
  BY <1>4 DEF ProbesFail
<1>5. ProbesFail'
  <2>1. rotation' <=> failed' < NumberOfProbes
    OBVIOUS
  <2>2. stop' # "run" => ~ready'
    BY DEF ProbesFail
  <2>3. stop' # "run" /\ failed' < NumberOfProbes => time' <= failed'
    BY <1>4 DEF ProbesFail, SrvTypeOK
  <2>4. stop' \in {"shutdown", "exited"} => failed' = NumberOfProbes
    BY <1>4 DEF ProbesFail, SrvTypeOK
  <2>5. stop' # "run" /\ failed' < NumberOfProbes => time' <= failed' + 1
    BY <1>1, <2>3 DEF SrvTypeOK
  <2> QED BY <2>1, <2>2, <2>3, <2>4, <2>5 DEF ProbesFail
<1> QED BY <1>2, <1>3, <1>5

\* Steps of a request: none begins on a new connection once the process is
\* out of rotation, which it is before it stops listening.
LEMMA RequestLemma ==
  ASSUME SrvInv, NEW k \in Requests,
         Connect(k) \/ Reuse(k) \/ Handle(k) \/ EndRequest(k) \/ Expire(k)
  PROVE  SrvInv'
<1> USE TimesAreNumbers DEF SrvInv
<1>1. UNCHANGED <<ready, listening, stop, time, failed, probed, rotation, cut>>
  BY DEF Connect, Reuse, Handle, EndRequest, Expire
<1>2. Stages' /\ ProbesFail' /\ ~cut'
  BY <1>1 DEF Stages, ProbesFail
<1>3. rotation => listening /\ time <= NumberOfProbes
  BY DEF ProbesFail, Stages, SrvTypeOK
<1>4. CASE Connect(k)
  <2>1. listening
    BY <1>3, <1>4 DEF Connect
  <2>2. ~refused'
    BY <1>4, <2>1 DEF Connect
  <2>3. /\ \A j \in Requests \ {k} : req'[j] = req[j]
        /\ req'[k].at = "read" /\ req'[k].age = 0 /\ ~req'[k].late
    BY <1>4, <2>1 DEF Connect, RequestsAge, SrvTypeOK
  <2>4. SrvTypeOK'
    BY <1>1, <1>4, <2>1 DEF Connect, SrvTypeOK
  <2>5. RequestsAge'
    BY <1>1, <1>3, <1>4, <2>3 DEF Connect, RequestsAge, SrvTypeOK
  <2> QED BY <1>2, <2>2, <2>4, <2>5
<1>5. CASE Reuse(k)
  <2>1. req' = [req EXCEPT ![k] = [at |-> "read", age |-> 0, late |-> stop # "run"]] /\ ~refused'
    BY <1>5 DEF Reuse
  <2>2. SrvTypeOK'
    BY <1>1, <2>1 DEF SrvTypeOK
  <2>3. RequestsAge'
    <3>1. /\ \A j \in Requests \ {k} : req'[j] = req[j]
          /\ req'[k].at = "read" /\ req'[k].age = 0 /\ (~req'[k].late => stop = "run")
      BY <2>1 DEF SrvTypeOK
    <3> QED BY <1>1, <3>1 DEF RequestsAge, SrvTypeOK, Stages
  <2> QED BY <1>2, <2>1, <2>2, <2>3
<1>6. CASE Handle(k)
  <2>1. /\ \A j \in Requests \ {k} : req'[j] = req[j]
        /\ req'[k].at = "handle" /\ req'[k].age = 0 /\ req'[k].late = req[k].late
        /\ ~refused'
    BY <1>6 DEF Handle, SrvTypeOK
  <2>2. SrvTypeOK'
    BY <1>1, <1>6 DEF Handle, SrvTypeOK
  <2>3. RequestsAge'
    BY <1>1, <1>6, <2>1 DEF Handle, RequestsAge, SrvTypeOK
  <2> QED BY <1>2, <2>1, <2>2, <2>3
<1>7. CASE EndRequest(k)
  <2>1. req' = [req EXCEPT ![k] = NoRequest] /\ ~refused'
    BY <1>7 DEF EndRequest
  <2>2. SrvTypeOK'
    BY <1>1, <2>1 DEF SrvTypeOK, NoRequest
  <2>3. RequestsAge'
    BY <1>1, <2>1 DEF RequestsAge, NoRequest, SrvTypeOK
  <2> QED BY <1>2, <2>1, <2>2, <2>3
<1>8. CASE Expire(k)
  <2>1. /\ \A j \in Requests \ {k} : req'[j] = req[j]
        /\ req'[k].at = "expired" /\ ~refused'
    BY <1>8 DEF Expire, SrvTypeOK
  <2>2. SrvTypeOK'
    BY <1>1, <1>8 DEF Expire, SrvTypeOK
  <2>3. RequestsAge'
    BY <1>1, <2>1 DEF RequestsAge, SrvTypeOK
  <2> QED BY <1>2, <2>1, <2>2, <2>3
<1> QED BY <1>4, <1>5, <1>6, <1>7, <1>8

\* Every stage of the shutdown keeps to its time.
LEMMA StageLemma == ASSUME SrvInv, Sigterm \/ Shutdown \/ Done PROVE SrvInv'
<1> USE TimesAreNumbers DEF SrvInv
<1>1. CASE Sigterm
  <2>1. SrvTypeOK' /\ ~refused' /\ ~cut'
    BY <1>1 DEF Sigterm, SrvTypeOK
  <2>2. Stages'
    BY <1>1 DEF Sigterm, Stages
  <2>3. ProbesFail'
    BY <1>1 DEF Sigterm, ProbesFail, SrvTypeOK
  <2>4. RequestsAge'
    BY <1>1 DEF Sigterm, Stages, RequestsAge
  <2> QED BY <2>1, <2>2, <2>3, <2>4
<1>2. CASE Shutdown
  <2>1. SrvTypeOK' /\ RequestsAge' /\ ~refused' /\ ~cut'
    BY <1>2 DEF Shutdown, SrvTypeOK, RequestsAge
  <2>2. Stages'
    BY <1>2 DEF Shutdown, Stages
  <2>3. failed = NumberOfProbes
    BY <1>2, GraceCoversProbes DEF Shutdown, ProbesFail, SrvTypeOK
  <2>4. ProbesFail'
    BY <1>2, <2>3 DEF Shutdown, ProbesFail
  <2> QED BY <2>1, <2>2, <2>4
<1>3. CASE Done
  <2>1. SrvTypeOK' /\ RequestsAge' /\ ~refused'
    BY <1>3 DEF Done, SrvTypeOK, RequestsAge
  <2>2. Stages' /\ ProbesFail'
    BY <1>3 DEF Done, Stages, ProbesFail
  <2>3. ASSUME NEW k \in Requests, req[k].at \in {"read", "handle"}, ~req[k].late
        PROVE  FALSE
    <3>1. time <= NumberOfProbes + ReadTimeout + WriteTimeout
      BY <2>3 DEF RequestsAge, SrvTypeOK
    <3>2. k \in InProgress
      BY <2>3 DEF InProgress
    <3>3. time = GraceTime + ShutdownTime
      BY <1>3, <3>2 DEF Done, Returns
    <3> QED BY <3>1, <3>3, ShutdownCoversRequests DEF SrvTypeOK
  <2>4. ~cut'
    BY <1>3, <2>3 DEF Done
  <2> QED BY <2>1, <2>2, <2>4
<1> QED BY <1>1, <1>2, <1>3

\* An interval ends only when the probe, the deadlines and the stop goroutine
\* have had their turn.
LEMMA BeatLemma == ASSUME SrvInv, Beat PROVE SrvInv'
<1> USE TimesAreNumbers DEF SrvInv
<1>1. UNCHANGED <<ready, listening, stop, failed, rotation, refused, cut>> /\ probed /\ ~probed'
  BY DEF Beat
<1>2. time' \in Nat /\ time' <= time + 1 /\ (stop = "run" => time' = 0)
  BY DEF Beat, SrvTypeOK
<1>3. ASSUME NEW k \in Requests
      PROVE  /\ req'[k].at = req[k].at /\ req'[k].late = req[k].late
             /\ req'[k].age = IF req[k].at \in {"read", "handle"} THEN req[k].age + 1 ELSE req[k].age
  BY DEF Beat, SrvTypeOK
<1>4. SrvTypeOK'
  <2>1. req' \in [Requests -> [at : {"none", "read", "handle", "expired"}, age : Nat, late : BOOLEAN]]
    BY DEF Beat, SrvTypeOK
  <2> QED BY <1>1, <1>2, <2>1 DEF SrvTypeOK, Beat
<1>5. Stages'
  BY <1>1, <1>2 DEF Beat, Stages, Returns, SrvTypeOK
<1>6. ProbesFail'
  <2>1. stop # "run" /\ failed < NumberOfProbes => time <= failed
    BY <1>1 DEF ProbesFail
  <2>2. stop' = stop /\ failed' = failed /\ failed \in Nat /\ time \in Nat
    BY <1>1 DEF SrvTypeOK
  <2>3. stop' # "run" /\ failed' < NumberOfProbes => time' <= failed' + 1
    BY <1>2, <2>1, <2>2
  <2> QED BY <1>1, <2>3 DEF ProbesFail
<1>7. RequestsAge'
  <2> SUFFICES ASSUME NEW k \in Requests
               PROVE  /\ req'[k].at = "none" => req'[k].age = 0 /\ ~req'[k].late
                      /\ req'[k].at = "read" => req'[k].age <= ReadTimeout
                      /\ req'[k].at = "handle" => req'[k].age <= WriteTimeout
                      /\ req'[k].at = "read" /\ ~req'[k].late => time' <= NumberOfProbes + req'[k].age
                      /\ req'[k].at = "handle" /\ ~req'[k].late
                           => time' <= NumberOfProbes + ReadTimeout + req'[k].age
    BY DEF RequestsAge
  <2>1. req[k].age \in Nat
    BY DEF SrvTypeOK
  <2>2. /\ req[k].at = "read" => req[k].age # ReadTimeout
        /\ req[k].at = "handle" => req[k].age # WriteTimeout
    BY DEF Beat
  <2> QED BY <1>2, <1>3, <2>1, <2>2 DEF RequestsAge, SrvTypeOK
<1> QED BY <1>1, <1>4, <1>5, <1>6, <1>7

\* The invariant is inductive.
LEMMA SrvStepLemma == SrvInv /\ [SrvNext]_srvVars => SrvInv'
<1> SUFFICES ASSUME SrvInv, [SrvNext]_srvVars PROVE SrvInv'
  OBVIOUS
<1>1. CASE UNCHANGED srvVars
  BY <1>1 DEF srvVars, SrvInv, SrvTypeOK, Stages, ProbesFail, RequestsAge
<1> QED
  BY <1>1, ProbeLemma, StageLemma, BeatLemma, RequestLemma DEF SrvNext

\* Along every behaviour of the server.
LEMMA SrvInvariant == SrvSpec => []SrvInv
BY SrvInitLemma, SrvStepLemma, PTL DEF SrvSpec

---------------------------------------------------------------------------
\* The wait before Shutdown is long enough for the load balancer to notice,
\* so that no connection is refused, and the timeout of Shutdown for the
\* requests that came before SIGTERM or on a new connection (frontend.Run).
THEOREM NothingLostCorrect == SrvSpec => []NothingLost
<1>1. SrvInv => NothingLost
  BY DEF SrvInv, NothingLost
<1> QED BY <1>1, SrvInvariant, PTL

\* The process exits before docker kills it (frontend.Run and the unit file).
THEOREM ExitsInTimeCorrect == SrvSpec => []ExitsInTime
<1>1. SrvInv => ExitsInTime
  BY TimesAreNumbers, StopCoversShutdown
  DEF SrvInv, SrvTypeOK, Stages, ExitsInTime, Running
<1> QED BY <1>1, SrvInvariant, PTL
===========================================================================
