---------------------------- MODULE RuntimeDaemon ----------------------------
(***************************************************************************)
(* The runtime daemon (apps/runtime-daemon): requests to start or verify a *)
(* package on local stdio launch its process and stay in flight while the  *)
(* supervisor waits for it to exit and launches it again; other requests   *)
(* stop a package; SIGTERM shuts the daemon down.  The registry by which a *)
(* process is found is keyed by package.                                   *)
(*                                                                         *)
(* Requests that the pipeline rejects before it supervises, and those for  *)
(* remote servers, launch nothing and are left out.  One action is what    *)
(* happens in a turn of the event loop.                                    *)
(***************************************************************************)
EXTENDS Integers

CONSTANTS
  Runs,        \* slots for start and verify requests in flight together
  Packages,
  NoRun,       \* no entry in the registry
  MaxRestarts, \* options.maxRestarts of the supervisor
  MaxRequests  \* bound: start and verify requests

ASSUME DaemonAssumption ==
  /\ NoRun \notin Runs /\ "none" \notin Packages
  /\ MaxRestarts \in Nat /\ MaxRequests \in Nat

VARIABLES
  run,       \* the requests in flight, each with the process it waits for
  registry,  \* createProcessRegistry: whose process is listed under a package
  phase,     \* "serving", "closing" (server.close called) or "stopped"
  crowded,   \* history: packages that have had two runs at a time
  requests   \* what has been used of the bound

vars == <<run, registry, phase, crowded, requests>>

Points == {"idle", "launch", "register", "health", "wait", "backoff"}
\* child is the process of the attempt ("told": it has been sent SIGTERM), exit how
\* it has ended, connected whether the client still waits for the answer.
Run == [pc : Points, package : Packages \cup {"none"}, attempt : 0..MaxRestarts + 1,
        child : {"none", "alive", "told"}, exit : {"none", "zero", "other"},
        healthy : BOOLEAN, connected : BOOLEAN]

Idle == [pc |-> "idle", package |-> "none", attempt |-> 0, child |-> "none",
         exit |-> "none", healthy |-> FALSE, connected |-> FALSE]

At(r, point)  == run[r].pc = point
InFlight(p)   == {r \in Runs : run[r].package = p}

Init ==
  /\ run = [r \in Runs |-> Idle]
  /\ registry = [p \in Packages |-> NoRun]
  /\ phase = "serving"
  /\ crowded = {}
  /\ requests = 0

(***************************************************************************)
(* A start or verify request: the pipeline up to supervise, then supervise *)
(***************************************************************************)
Start(r, p) ==
  /\ phase = "serving" /\ At(r, "idle")
  /\ requests < MaxRequests /\ requests' = requests + 1
  /\ run' = [run EXCEPT ![r] = [Idle EXCEPT !.pc = "launch", !.package = p, !.attempt = 1,
                                            !.connected = TRUE]]
  /\ crowded' = IF InFlight(p) = {} THEN crowded ELSE crowded \cup {p}
  /\ UNCHANGED <<registry, phase>>

\* spawn: a process, or a failed handle that is unhealthy and has exited with 1.
Launch(r) ==
  /\ At(r, "launch")
  /\ \/ run' = [run EXCEPT ![r].pc = "register", ![r].child = "alive"]
     \/ run' = [run EXCEPT ![r].pc = "wait", ![r].exit = "other"]
  /\ UNCHANGED <<registry, phase, crowded, requests>>

\* The 'spawn' event: onSpawn puts the process in the place of any other of the
\* package, and the exit listener is set.
Register(r) ==
  /\ At(r, "register")
  /\ run' = [run EXCEPT ![r].pc = "health"]
  /\ registry' = [registry EXCEPT ![run[r].package] = r]
  /\ UNCHANGED <<phase, crowded, requests>>

HealthCheckImpatient(r) ==                                              \* mutant
  /\ At(r, "health")
  /\ \E healthy \in (IF run[r].child = "none" THEN {FALSE} ELSE BOOLEAN) :
       run' = [run EXCEPT ![r].pc = "wait", ![r].healthy = healthy,
                          ![r].exit = IF healthy THEN @ ELSE "other"]
  /\ UNCHANGED <<registry, phase, crowded, requests>>
\* The answer to 'initialize', or the end of the process, or the timeout.  An
\* unhealthy process is waited for like any other.
HealthCheck(r) ==
  /\ At(r, "health")
  /\ \E healthy \in (IF run[r].child = "none" THEN {FALSE} ELSE BOOLEAN) :
       run' = [run EXCEPT ![r].pc = "wait", ![r].healthy = healthy]
  /\ UNCHANGED <<registry, phase, crowded, requests>>

ExitListed(r) ==                                                        \* mutant
  /\ run[r].child # "none" /\ run[r].pc \in {"health", "wait"}
  /\ \E exit \in {"zero", "other"} :
       run' = [run EXCEPT ![r].child = "none", ![r].exit = exit]
  /\ UNCHANGED <<registry, phase, crowded, requests>>
\* The 'exit' event: by itself or on SIGTERM, which a process may handle and then
\* exit with 0.  onExit removes whatever entry the package has.
Exit(r) ==
  /\ run[r].child # "none" /\ run[r].pc \in {"health", "wait"}
  /\ \E exit \in {"zero", "other"} :
       run' = [run EXCEPT ![r].child = "none", ![r].exit = exit]
  /\ registry' = [registry EXCEPT ![run[r].package] = NoRun]
  /\ UNCHANGED <<phase, crowded, requests>>

LastAttempt(r) == run[r].attempt > MaxRestarts

\* waitForExit: the request is answered, or another attempt follows after a while.
Exited(r) ==
  /\ At(r, "wait") /\ run[r].exit # "none"
  /\ run' = IF (run[r].exit = "zero" /\ run[r].healthy) \/ LastAttempt(r)
            THEN [run EXCEPT ![r] = Idle]
            ELSE [run EXCEPT ![r].pc = "backoff"]
  /\ UNCHANGED <<registry, phase, crowded, requests>>

BackoffForever(r) ==                                                    \* mutant
  /\ At(r, "backoff")
  /\ run' = [run EXCEPT ![r].pc = "launch", ![r].exit = "none", ![r].healthy = FALSE]
  /\ UNCHANGED <<registry, phase, crowded, requests>>
Backoff(r) ==
  /\ At(r, "backoff")
  /\ run' = [run EXCEPT ![r].pc = "launch", ![r].attempt = @ + 1, ![r].exit = "none",
                        ![r].healthy = FALSE]
  /\ UNCHANGED <<registry, phase, crowded, requests>>

\* The control plane gives up after 30 seconds; the run goes on.
Disconnect(r) ==
  /\ run[r].connected
  /\ run' = [run EXCEPT ![r].connected = FALSE]
  /\ UNCHANGED <<registry, phase, crowded, requests>>

(***************************************************************************)
(* Stop and shutdown                                                       *)
(***************************************************************************)
\* The runs with the processes of S told to terminate.
Terminated(S) ==
  [r \in Runs |-> IF r \in S THEN [run[r] EXCEPT !.child = "told"]
                  ELSE run[r]]

\* POST /v1/runtime/stop: SIGTERM to the listed process, if there is one.
Stop(p) ==
  /\ phase = "serving"
  /\ registry[p] # NoRun
  /\ run' = Terminated({registry[p]})
  /\ registry' = [registry EXCEPT ![p] = NoRun]
  /\ UNCHANGED <<phase, crowded, requests>>

\* SIGTERM to the daemon: shutdownAll and server.close.
Close ==
  /\ phase = "serving"
  /\ phase' = "closing"
  /\ run' = Terminated({registry[p] : p \in Packages})
  /\ registry' = [p \in Packages |-> NoRun]
  /\ UNCHANGED <<crowded, requests>>

\* The server is closed when no connection is left, and the daemon exits.  It waits
\* for no process: one that is alive by then, told to terminate or not, outlives it.
Leave ==
  /\ phase = "closing"
  /\ \A r \in Runs : ~run[r].connected
  /\ phase' = "stopped"
  /\ run' = [r \in Runs |-> [Idle EXCEPT !.child = run[r].child]]
  /\ registry' = [p \in Packages |-> NoRun]
  /\ UNCHANGED <<crowded, requests>>

Step(r) ==
  \/ Launch(r)
  \/ Register(r)
  \/ HealthCheck(r)
  \/ Exited(r)
  \/ Backoff(r)

Next ==
  \/ \E r \in Runs, p \in Packages : Start(r, p)
  \/ \E r \in Runs : Step(r) \/ Exit(r) \/ Disconnect(r)
  \/ \E p \in Packages : Stop(p)
  \/ Close
  \/ Leave

Spec == Init /\ [][Next]_vars

\* The event loop and the timers go on, and processes exit at some time: nothing
\* in the daemon makes them.
Fairness ==
  /\ \A r \in Runs : WF_vars(Step(r)) /\ WF_vars(Exit(r))
  /\ WF_vars(Leave)

LiveSpec == Spec /\ Fairness

(***************************************************************************)
(* Properties                                                              *)
(***************************************************************************)
TypeOK ==
  /\ run \in [Runs -> Run]
  /\ registry \in [Packages -> Runs \cup {NoRun}]
  /\ phase \in {"serving", "closing", "stopped"}
  /\ crowded \subseteq Packages
  /\ requests \in 0..MaxRequests

\* As long as the daemon runs its supervisor loses no process: it launches another
\* one, and answers, only after the last one has exited.
NoProcessIsLost ==
  phase # "stopped" =>
    \A r \in Runs : run[r].pc \in {"idle", "launch", "backoff"} => run[r].child = "none"

\* The registry tells the truth, restarts, exits and stops notwithstanding: what is
\* listed lives, and as long as a package has one run at a time its process is
\* listed unless it has been told to terminate.
RegistryTellsTheTruth ==
  /\ \A p \in Packages : registry[p] # NoRun =>
       run[registry[p]].package = p /\ run[registry[p]].child = "alive"
  /\ phase # "stopped" => \A r \in Runs :
       run[r].child = "alive" /\ ~At(r, "register") /\ run[r].package \notin crowded =>
         registry[run[r].package] = r

\* If processes exit at some time every request is answered, however unhealthy they are
\* and whoever else stops them, and a shutdown comes to its end.
EverythingEnds ==
  /\ \A r \in Runs : ~At(r, "idle") ~> At(r, "idle")
  /\ phase = "closing" ~> phase = "stopped"
=============================================================================
