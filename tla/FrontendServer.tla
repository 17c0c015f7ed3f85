--------------------------- MODULE FrontendServer ---------------------------
(***************************************************************************)
(* How the front end of an RP process stops: rp() on SIGTERM, the stop     *)
(* goroutine of frontend.Run, the readiness probe of the load balancer and *)
(* the requests in progress, until the process exits.                       *)
(*                                                                         *)
(* Time is counted in intervals of the probe, 5 seconds: everything        *)
(* happens on the beat, and what has a deadline has happened when it is    *)
(* over.                                                                   *)
(***************************************************************************)
EXTENDS Naturals

CONSTANTS
  Requests,        \* names for requests: bounds those in progress at once
  NumberOfProbes,  \* failing probes that take a process out of rotation
  GraceTime,       \* time.Sleep(20 * time.Second)
  ShutdownTime,    \* the timeout of Shutdown: 65 seconds
  StopTime,        \* docker stop -t 90
  ReadTimeout,     \* 10 seconds
  WriteTimeout     \* a minute

\* The margins that the comments of frontend.Run ask for, and that of the
\* unit file over both.
ASSUME TimesAreNumbers ==
  /\ NumberOfProbes \in Nat \ {0} /\ GraceTime \in Nat /\ ShutdownTime \in Nat
  /\ StopTime \in Nat /\ ReadTimeout \in Nat /\ WriteTimeout \in Nat
ASSUME GraceCoversProbes == NumberOfProbes < GraceTime
ASSUME ShutdownCoversRequests ==
  NumberOfProbes + ReadTimeout + WriteTimeout < GraceTime + ShutdownTime
ASSUME StopCoversShutdown == GraceTime + ShutdownTime < StopTime

VARIABLES
  ready,      \* f.ready
  listening,  \* the server accepts connections
  stop,       \* "run", "grace", "shutdown" or "exited"
  time,       \* since SIGTERM
  failed,     \* consecutive probes that failed
  probed,     \* the probe of this interval is done
  rotation,   \* the load balancer sends new connections
  req,        \* of every request: [at, age, late]
  refused,    \* history: a connection was refused
  cut         \* history: the exit cut a request short

srvVars == <<ready, listening, stop, time, failed, probed, rotation, req, refused, cut>>

NoRequest == [at |-> "none", age |-> 0, late |-> FALSE]
InProgress == {k \in Requests : req[k].at # "none"}
Running == stop # "exited"

\* NewFrontend has returned.
SrvInit ==
  /\ ready = TRUE /\ listening = TRUE
  /\ stop = "run" /\ time = 0
  /\ failed = 0 /\ probed = FALSE /\ rotation = TRUE
  /\ req = [k \in Requests |-> NoRequest]
  /\ refused = FALSE /\ cut = FALSE

---------------------------------------------------------------------------
\* The load balancer asks /healthz/ready.  The environment's readiness is
\* that of the client authorizer: anything.
Probe ==
  /\ Running /\ ~probed /\ probed' = TRUE
  /\ \E envIsReady \in BOOLEAN :
       failed' = IF ready /\ envIsReady THEN 0 ELSE IF failed < NumberOfProbes THEN failed + 1 ELSE failed
  /\ rotation' = (failed' < NumberOfProbes)
  /\ UNCHANGED <<ready, listening, stop, time, req, refused, cut>>

\* A request on a new connection.
Connect(k) ==
  /\ Running /\ rotation /\ req[k].at = "none"
  /\ req' = IF listening THEN [req EXCEPT ![k].at = "read"] ELSE req
  /\ refused' = (refused \/ ~listening)
  /\ UNCHANGED <<ready, listening, stop, time, failed, probed, rotation, cut>>

\* A request on a connection that was kept alive: no load balancer decides.
Reuse(k) ==
  /\ Running /\ listening /\ req[k].at = "none"
  /\ req' = [req EXCEPT ![k] = [at |-> "read", age |-> 0, late |-> stop # "run"]]
  /\ UNCHANGED <<ready, listening, stop, time, failed, probed, rotation, refused, cut>>

\* The header is read; the write deadline runs from here.
Handle(k) ==
  /\ Running /\ req[k].at = "read"
  /\ req' = [req EXCEPT ![k].at = "handle", ![k].age = 0]
  /\ UNCHANGED <<ready, listening, stop, time, failed, probed, rotation, refused, cut>>

\* The connection ends: the reply is written, a deadline closes it, or a
\* handler returns whose reply nobody waits for any more.
EndRequest(k) ==
  /\ Running /\ req[k].at # "none"
  /\ req' = [req EXCEPT ![k] = NoRequest]
  /\ UNCHANGED <<ready, listening, stop, time, failed, probed, rotation, refused, cut>>

\* No write succeeds after the deadline, but the handler goes on.
Expire(k) ==
  /\ Running /\ req[k].at = "handle" /\ req[k].age = WriteTimeout
  /\ req' = [req EXCEPT ![k].at = "expired", ![k].age = 0]
  /\ UNCHANGED <<ready, listening, stop, time, failed, probed, rotation, refused, cut>>

---------------------------------------------------------------------------
\* SIGTERM closes the stop channel; the goroutine marks the process not ready.
Sigterm ==
  /\ stop = "run" /\ stop' = "grace" /\ time' = 0
  /\ ready' = FALSE
  /\ UNCHANGED <<listening, failed, probed, rotation, req, refused, cut>>

\* Mutant: the server is shut down as soon as it is not ready.
Shutdown_AtOnce ==
  /\ stop = "grace" /\ stop' = "shutdown"
  /\ listening' = FALSE
  /\ UNCHANGED <<ready, time, failed, probed, rotation, req, refused, cut>>

Shutdown ==
  /\ stop = "grace" /\ time = GraceTime /\ stop' = "shutdown"
  /\ listening' = FALSE
  /\ UNCHANGED <<ready, time, failed, probed, rotation, req, refused, cut>>

\* Mutant: no timeout.
Returns_NoTimeout == InProgress = {}

\* Shutdown waits for the requests in progress, up to its timeout.
Returns == InProgress = {} \/ time = GraceTime + ShutdownTime

\* Shutdown returns; close(done) lets rp() return.
Done ==
  /\ stop = "shutdown" /\ Returns
  /\ stop' = "exited"
  /\ cut' = (\E k \in Requests : req[k].at \in {"read", "handle"} /\ ~req[k].late)
  /\ UNCHANGED <<ready, listening, time, failed, probed, rotation, req, refused>>

\* An interval ends when everything due in it has happened.
Beat ==
  /\ Running /\ probed
  /\ \A k \in Requests : ~(req[k].at = "read" /\ req[k].age = ReadTimeout)
                           /\ ~(req[k].at = "handle" /\ req[k].age = WriteTimeout)
  /\ stop = "grace" => time < GraceTime
  /\ stop = "shutdown" => time < StopTime /\ ~Returns
  /\ probed' = FALSE
  /\ time' = IF stop = "run" THEN 0 ELSE time + 1
  /\ req' = [k \in Requests |-> IF req[k].at \in {"read", "handle"} THEN [req[k] EXCEPT !.age = @ + 1] ELSE req[k]]
  /\ UNCHANGED <<ready, listening, stop, failed, rotation, refused, cut>>

SrvNext ==
  \/ Probe \/ Sigterm \/ Shutdown \/ Done \/ Beat
  \/ \E k \in Requests : Connect(k) \/ Reuse(k) \/ Handle(k) \/ EndRequest(k) \/ Expire(k)

SrvSpec == SrvInit /\ [][SrvNext]_srvVars

---------------------------------------------------------------------------
\* As long as the load balancer sends connections to a process, the process
\* accepts them, and the exit cuts no request short that came before SIGTERM
\* or on a new connection, as long as it meets the server's own deadlines:
\* the wait before Shutdown is as long as the probes need, and the timeout of
\* Shutdown long enough (frontend.Run).
NothingLost == ~refused /\ ~cut

\* The process has exited before docker kills it (frontend.Run against the
\* -t 90 of the unit file).
ExitsInTime == Running => time < StopTime
===========================================================================
