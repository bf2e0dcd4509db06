------------------------------ MODULE Registry ------------------------------
(***************************************************************************)
(* The registry of backends (registry.js): backends register themselves    *)
(* and are asked every second whether they are alive.  A check holds on to *)
(* the object that was registered when it was sent; its answer may come    *)
(* after a new registration under the same key, or never, for the time out *)
(* of http.get only reports and nobody listens.                            *)
(***************************************************************************)
EXTENDS Naturals, FiniteSets

CONSTANTS
    Keys,               \* keys of backends
    MaxRegistrations    \* bound: registrations, which number the objects

ASSUME RegistryAssumption == MaxRegistrations \in Nat

Hosts == {"up", "refuses", "hangs"}
Absent == 0

VARIABLES
    host,           \* what a key's host does with a connection
    backends,       \* key -> number of the object registered, or Absent
    alive,          \* the objects that are marked alive
    asked,          \* checks under way, with the registrations before them
    registrations,  \* how many there were
    registeredAt,   \* history: key -> its last registration
    process         \* "runs" or "crashed"

registryVars == <<host, backends, alive, asked, registrations, registeredAt, process>>

RegistryInit ==
    /\ host = [k \in Keys |-> "up"]
    /\ backends = [k \in Keys |-> Absent]
    /\ alive = {} /\ asked = {} /\ registrations = 0
    /\ registeredAt = [k \in Keys |-> 0]
    /\ process = "runs"

-----------------------------------------------------------------------------

\* Mutant of Registered: the entry that is there is written over.
RegisteredInPlace(k) == IF backends[k] = Absent THEN registrations + 1 ELSE backends[k]

\* backends[backend.key] = backend, a new object.
Registered(k) == registrations + 1

Register(k) ==
    /\ process = "runs" /\ registrations < MaxRegistrations
    /\ registrations' = registrations + 1
    /\ backends' = [backends EXCEPT ![k] = Registered(k)]
    /\ alive' = alive \cup {Registered(k)}
    /\ registeredAt' = [registeredAt EXCEPT ![k] = registrations + 1]
    /\ UNCHANGED <<host, asked, process>>

\* A body that is not JSON, or a request without user-agent: nothing catches.
BadRequest ==
    /\ process = "runs"
    /\ process' = "crashed"
    /\ asked' = {} /\ alive' = {}
    /\ backends' = [k \in Keys |-> Absent]
    /\ UNCHANGED <<host, registrations, registeredAt>>

Restart ==
    /\ process = "crashed"
    /\ process' = "runs"
    /\ UNCHANGED <<host, backends, alive, asked, registrations, registeredAt>>

\* checkBackends, every second.
CheckBackends ==
    /\ process = "runs"
    /\ asked' = asked \cup
          {[key |-> k, object |-> backends[k], sent |-> registrations] :
              k \in {k \in Keys : backends[k] # Absent}}
    /\ UNCHANGED <<host, backends, alive, registrations, registeredAt, process>>

\* The status is statusCode; there is no "code" in a response.
ResCode(check) == "undefined"

AfterResponse(check) ==
    IF ResCode(check) = "200" THEN alive \cup {check.object} ELSE alive \ {check.object}

\* Mutant of AfterError: only a response counts.
ErrorIgnored(check) == alive

AfterError(check) == alive \ {check.object}

\* A response, whatever it says, or an error; a host that hangs answers never.
Answered(check) ==
    /\ check \in asked
    /\ asked' = asked \ {check}
    /\ \/ host[check.key] = "up" /\ alive' = AfterResponse(check)
       \/ host[check.key] = "refuses" /\ alive' = AfterError(check)
    /\ UNCHANGED <<host, backends, registrations, registeredAt, process>>

HostChanges(k, h) ==
    /\ host[k] # h
    /\ host' = [host EXCEPT ![k] = h]
    /\ UNCHANGED <<backends, alive, asked, registrations, registeredAt, process>>

RegistryNext ==
    \/ \E k \in Keys : Register(k) \/ \E h \in Hosts : HostChanges(k, h)
    \/ BadRequest
    \/ Restart
    \/ CheckBackends
    \/ \E check \in asked : Answered(check)

RegistrySpec == RegistryInit /\ [][RegistryNext]_registryVars

\* The interval goes on, and a host that answers goes on answering.
RegistryFairness ==
    /\ WF_registryVars(CheckBackends)
    /\ \A k \in Keys : WF_registryVars(\E check \in asked : check.key = k /\ Answered(check))

-----------------------------------------------------------------------------
(* Properties.                                                             *)

RegistryTypeOK ==
    /\ host \in [Keys -> Hosts]
    /\ backends \in [Keys -> 0..MaxRegistrations]
    /\ alive \subseteq 1..MaxRegistrations
    /\ asked \subseteq
          [key : Keys, object : 1..MaxRegistrations, sent : 1..MaxRegistrations]
    /\ registrations \in 0..MaxRegistrations
    /\ registeredAt \in [Keys -> 0..registrations]
    /\ process \in {"runs", "crashed"}

IsAlive(k) == backends[k] # Absent /\ backends[k] \in alive

\* A backend that has just registered is marked offline only by a check that
\* was sent after it did, not by one of its predecessor that is answered late.
LateAnswersAreIgnored ==
    [][\A k \in Keys :
          IsAlive(k) /\ ~IsAlive(k)' /\ process' = "runs" =>
              \E check \in asked \ asked' :
                  check.key = k /\ check.sent >= registeredAt[k]]_registryVars

\* A backend whose host refuses connections from some time on is not listed as
\* alive for ever, whatever was registered and lost before.
OfflineIsNoticed ==
    \A k \in Keys : <>[](host[k] = "refuses") => []<>~IsAlive(k)
=============================================================================
