------------------------- MODULE RuntimeDaemonProofs -------------------------
(***************************************************************************)
(* Theorems about RuntimeDaemon, for any requests and packages, any number *)
(* of restarts, stops at any time and a shutdown.                          *)
(***************************************************************************)
EXTENDS RuntimeDaemon, TLAPS

(***************************************************************************)
(* The inductive invariant.                                                *)
(***************************************************************************)
\* What a request knows at each point of the supervisor's loop.
Sound(r) ==
  /\ run[r].package = "none" <=> At(r, "idle")
  /\ At(r, "backoff") => run[r].attempt <= MaxRestarts
  /\ run[r].pc \in {"launch", "register"} => run[r].exit = "none"
  /\ At(r, "register") => run[r].child = "alive"
  /\ run[r].exit # "none" => run[r].child = "none"
  /\ run[r].pc \in {"health", "wait"} /\ run[r].exit = "none" => run[r].child # "none"
  /\ phase # "stopped" /\ run[r].pc \in {"idle", "launch", "backoff"} => run[r].child = "none"
  /\ phase = "stopped" => At(r, "idle")

\* The process that the registry has under p is one of p, alive, and registered.
Listed(p) ==
  registry[p] # NoRun => /\ run[registry[p]].package = p
                         /\ run[registry[p]].child = "alive"
                         /\ run[registry[p]].pc \in {"health", "wait"}

\* A process that the registry should have.
Visible(r) == run[r].child = "alive" /\ ~At(r, "register") /\ run[r].package \notin crowded

\* Two requests for one package at a time have been noticed.
Noticed == \A r, q \in Runs : r # q /\ run[r].package = run[q].package =>
             run[r].package \in crowded \cup {"none"}

IInv ==
  /\ TypeOK
  /\ \A r \in Runs : Sound(r)
  /\ \A p \in Packages : Listed(p)
  /\ phase # "stopped" => \A r \in Runs : Visible(r) => registry[run[r].package] = r
  /\ Noticed

(***************************************************************************)
(* Steps that leave the registry alone: the request that takes one keeps   *)
(* its package or ends, and brings no process to light.                    *)
(***************************************************************************)
Quiet(r) ==
  /\ run' \in [Runs -> Run]
  /\ \A q \in Runs : q # r => run'[q] = run[q]
  /\ run'[r].package \in {run[r].package, "none"}
  /\ run'[r].child = "alive" /\ run'[r].pc # "register" =>
       /\ run[r].child = "alive" /\ run[r].pc # "register"
       /\ run'[r].package = run[r].package
  /\ run[r].child = "alive" /\ run[r].pc \in {"health", "wait"} =>
       /\ run'[r].child = "alive" /\ run'[r].pc \in {"health", "wait"}
       /\ run'[r].package = run[r].package
  /\ UNCHANGED <<registry, phase, crowded>>

LEMMA RunType == Idle \in Run
BY DaemonAssumption DEF Idle, Run, Points

LEMMA Moved ==
  ASSUME run \in [Runs -> Run], NEW r \in Runs, NEW x \in Run,
         run' = [run EXCEPT ![r] = x]
  PROVE  /\ run' \in [Runs -> Run]
         /\ run'[r] = x
         /\ \A q \in Runs : q # r => run'[q] = run[q]
OBVIOUS

LEMMA LaunchIsQuiet ==
  ASSUME IInv, NEW r \in Runs, Launch(r)
  PROVE  Quiet(r) /\ Sound(r)' /\ requests' = requests
<1>1. run[r] \in Run /\ run \in [Runs -> Run] /\ Sound(r) /\ phase # "stopped"
  BY DEF IInv, TypeOK, Sound, Launch, At
<1>2. run[r].pc = "launch" /\ run[r].child = "none" /\ run[r].exit = "none"
  BY <1>1 DEF Launch, At, Sound
<1>3. CASE run' = [run EXCEPT ![r].pc = "register", ![r].child = "alive"]
  <2>1. PICK x : x = [run[r] EXCEPT !.pc = "register", !.child = "alive"]
    OBVIOUS
  <2>2. /\ x \in Run /\ x.pc = "register" /\ x.child = "alive" /\ x.exit = "none"
        /\ x.package = run[r].package /\ x.attempt = run[r].attempt
    BY <1>1, <1>2, <2>1 DEF Run, Points
  <2>3. run' = [run EXCEPT ![r] = x]
    BY <1>3, <2>1
  <2>4. run' \in [Runs -> Run] /\ run'[r] = x /\ \A q \in Runs : q # r => run'[q] = run[q]
    BY <1>1, <2>2, <2>3, Moved
  <2> QED BY <1>1, <1>2, <2>2, <2>4 DEF Launch, Quiet, Sound, At
<1>4. CASE run' = [run EXCEPT ![r].pc = "wait", ![r].exit = "other"]
  <2>1. PICK x : x = [run[r] EXCEPT !.pc = "wait", !.exit = "other"]
    OBVIOUS
  <2>2. /\ x \in Run /\ x.pc = "wait" /\ x.child = "none" /\ x.exit = "other"
        /\ x.package = run[r].package /\ x.attempt = run[r].attempt
    BY <1>1, <1>2, <2>1 DEF Run, Points
  <2>3. run' = [run EXCEPT ![r] = x]
    BY <1>4, <2>1
  <2>4. run' \in [Runs -> Run] /\ run'[r] = x /\ \A q \in Runs : q # r => run'[q] = run[q]
    BY <1>1, <2>2, <2>3, Moved
  <2> QED BY <1>1, <1>2, <2>2, <2>4 DEF Launch, Quiet, Sound, At
<1> QED BY <1>3, <1>4 DEF Launch

LEMMA HealthCheckIsQuiet ==
  ASSUME IInv, NEW r \in Runs, HealthCheck(r)
  PROVE  Quiet(r) /\ Sound(r)' /\ requests' = requests
<1>1. run[r] \in Run /\ run \in [Runs -> Run] /\ Sound(r) /\ run[r].pc = "health"
  BY DEF IInv, TypeOK, Sound, HealthCheck, At
<1>2. PICK healthy \in BOOLEAN :
        run' = [run EXCEPT ![r].pc = "wait", ![r].healthy = healthy]
  BY DEF HealthCheck
<1>3. PICK x : x = [run[r] EXCEPT !.pc = "wait", !.healthy = healthy]
  OBVIOUS
<1>4. /\ x \in Run /\ x.pc = "wait" /\ x.child = run[r].child /\ x.exit = run[r].exit
      /\ x.package = run[r].package /\ x.attempt = run[r].attempt
  BY <1>1, <1>3 DEF Run, Points
<1>5. run' = [run EXCEPT ![r] = x]
  BY <1>2, <1>3
<1>6. run' \in [Runs -> Run] /\ run'[r] = x /\ \A q \in Runs : q # r => run'[q] = run[q]
  BY <1>1, <1>4, <1>5, Moved
<1> QED BY <1>1, <1>4, <1>6 DEF HealthCheck, Quiet, Sound, At

LEMMA ExitedIsQuiet ==
  ASSUME IInv, NEW r \in Runs, Exited(r)
  PROVE  Quiet(r) /\ Sound(r)' /\ requests' = requests
<1>1. /\ run[r] \in Run /\ run \in [Runs -> Run] /\ Sound(r)
      /\ run[r].pc = "wait" /\ run[r].exit # "none" /\ run[r].child = "none"
  BY DEF IInv, TypeOK, Sound, Exited, At
<1>2. CASE run' = [run EXCEPT ![r] = Idle]
  <2>1. run' \in [Runs -> Run] /\ run'[r] = Idle /\ \A q \in Runs : q # r => run'[q] = run[q]
    BY <1>1, <1>2, RunType, Moved
  <2> QED BY <1>1, <2>1 DEF Exited, Quiet, Sound, At, Idle
<1>3. CASE ~LastAttempt(r) /\ run' = [run EXCEPT ![r].pc = "backoff"]
  <2>1. PICK x : x = [run[r] EXCEPT !.pc = "backoff"]
    OBVIOUS
  <2>2. /\ x \in Run /\ x.pc = "backoff" /\ x.child = "none" /\ x.exit = run[r].exit
        /\ x.package = run[r].package /\ x.attempt = run[r].attempt
    BY <1>1, <2>1 DEF Run, Points
  <2>3. run' = [run EXCEPT ![r] = x]
    BY <1>3, <2>1
  <2>4. run' \in [Runs -> Run] /\ run'[r] = x /\ \A q \in Runs : q # r => run'[q] = run[q]
    BY <1>1, <2>2, <2>3, Moved
  <2>5. x.attempt <= MaxRestarts
    BY <1>1, <1>3, <2>2, DaemonAssumption DEF LastAttempt, Run
  <2> QED BY <1>1, <2>2, <2>4, <2>5 DEF Exited, Quiet, Sound, At
<1> QED BY <1>2, <1>3 DEF Exited

LEMMA BackoffIsQuiet ==
  ASSUME IInv, NEW r \in Runs, Backoff(r)
  PROVE  Quiet(r) /\ Sound(r)' /\ requests' = requests
<1>1. /\ run[r] \in Run /\ run \in [Runs -> Run] /\ Sound(r) /\ phase # "stopped"
      /\ run[r].pc = "backoff" /\ run[r].child = "none" /\ run[r].attempt <= MaxRestarts
  BY DEF IInv, TypeOK, Sound, Backoff, At
<1>2. PICK x : x = [run[r] EXCEPT !.pc = "launch", !.attempt = @ + 1, !.exit = "none",
                                  !.healthy = FALSE]
  OBVIOUS
<1>3. run[r].attempt + 1 \in 0..MaxRestarts + 1
  BY <1>1, DaemonAssumption DEF Run
<1>4. /\ x \in Run /\ x.pc = "launch" /\ x.child = "none" /\ x.exit = "none"
      /\ x.package = run[r].package
  BY <1>1, <1>2, <1>3 DEF Run, Points
<1>5. run' = [run EXCEPT ![r] = x]
  BY <1>2 DEF Backoff
<1>6. run' \in [Runs -> Run] /\ run'[r] = x /\ \A q \in Runs : q # r => run'[q] = run[q]
  BY <1>1, <1>4, <1>5, Moved
<1> QED BY <1>1, <1>4, <1>6 DEF Backoff, Quiet, Sound, At

LEMMA DisconnectIsQuiet ==
  ASSUME IInv, NEW r \in Runs, Disconnect(r)
  PROVE  Quiet(r) /\ Sound(r)' /\ requests' = requests
<1>1. run[r] \in Run /\ run \in [Runs -> Run] /\ Sound(r)
  BY DEF IInv, TypeOK
<1>2. PICK x : x = [run[r] EXCEPT !.connected = FALSE]
  OBVIOUS
<1>3. /\ x \in Run /\ x.pc = run[r].pc /\ x.child = run[r].child /\ x.exit = run[r].exit
      /\ x.package = run[r].package /\ x.attempt = run[r].attempt
  BY <1>1, <1>2 DEF Run
<1>4. run' = [run EXCEPT ![r] = x]
  BY <1>2 DEF Disconnect
<1>5. run' \in [Runs -> Run] /\ run'[r] = x /\ \A q \in Runs : q # r => run'[q] = run[q]
  BY <1>1, <1>3, <1>4, Moved
<1> QED BY <1>1, <1>3, <1>5 DEF Disconnect, Quiet, Sound, At

\* Such a step keeps the invariant.
LEMMA QuietKeeps ==
  ASSUME IInv, NEW r \in Runs, Quiet(r), Sound(r)', requests' \in 0..MaxRequests
  PROVE  IInv'
<1>1. TypeOK'
  BY DEF IInv, TypeOK, Quiet
<1>2. \A q \in Runs : Sound(q)'
  <2>1. ASSUME NEW q \in Runs, q # r PROVE Sound(q)'
    BY <2>1 DEF IInv, Quiet, Sound, At
  <2> QED BY <2>1
<1>3. \A p \in Packages : Listed(p)'
  BY DEF IInv, TypeOK, Quiet, Listed
<1>4. (phase # "stopped" => \A q \in Runs : Visible(q) => registry[run[q].package] = q)'
  <2>1. SUFFICES ASSUME phase # "stopped", NEW q \in Runs, Visible(q)'
                 PROVE  registry'[run'[q].package] = q
    BY DEF Quiet
  <2>2. Visible(q) /\ run'[q].package = run[q].package
    BY <2>1 DEF Quiet, Visible, At
  <2> QED BY <2>1, <2>2 DEF IInv, Quiet
<1>5. Noticed'
  BY DEF IInv, Quiet, Noticed
<1> QED BY <1>1, <1>2, <1>3, <1>4, <1>5 DEF IInv

(***************************************************************************)
(* The other steps.                                                        *)
(***************************************************************************)
LEMMA StartKeeps ==
  ASSUME IInv, NEW r \in Runs, NEW p \in Packages, Start(r, p)
  PROVE  IInv'
<1>0. /\ run \in [Runs -> Run] /\ At(r, "idle") /\ phase = "serving" /\ phase' = phase
      /\ registry' = registry
  BY DEF IInv, TypeOK, Start
<1>1. PICK x : x = [Idle EXCEPT !.pc = "launch", !.package = p, !.attempt = 1,
                                !.connected = TRUE]
  OBVIOUS
<1>2. /\ x \in Run /\ x.pc = "launch" /\ x.package = p /\ x.child = "none" /\ x.exit = "none"
      /\ run' \in [Runs -> Run] /\ run'[r] = x /\ \A q \in Runs : q # r => run'[q] = run[q]
  <2>1. Idle \in Run /\ Idle.child = "none" /\ Idle.exit = "none"
    BY RunType DEF Idle
  <2>2. /\ x \in Run /\ x.pc = "launch" /\ x.package = p
        /\ x.child = "none" /\ x.exit = "none"
    <3>1. 1 \in 0..MaxRestarts + 1
      BY DaemonAssumption
    <3>2. PICK i : i = Idle
      OBVIOUS
    <3>3. x = [i EXCEPT !.pc = "launch", !.package = p, !.attempt = 1, !.connected = TRUE]
      BY <1>1, <3>2
    <3> QED BY <2>1, <3>1, <3>2, <3>3 DEF Run, Points
  <2>3. run' = [run EXCEPT ![r] = x]
    BY <1>1 DEF Start
  <2> QED BY <1>0, <2>2, <2>3, Moved
<1>3. run[r].package = "none" /\ p # "none" /\ run[r].pc = "idle"
  BY <1>0, DaemonAssumption DEF IInv, Sound, At
<1>4. TypeOK'
  BY <1>2, DaemonAssumption DEF Start, IInv, TypeOK
<1>5. \A q \in Runs : Sound(q)'
  <2>1. ASSUME NEW q \in Runs, q # r PROVE Sound(q)'
    BY <2>1, <1>0, <1>2 DEF IInv, Sound, At
  <2>2. Sound(r)'
    BY <1>0, <1>2, <1>3 DEF Sound, At
  <2> QED BY <2>1, <2>2
<1>6. \A q \in Packages : Listed(q)'
  <2>1. SUFFICES ASSUME NEW q \in Packages, registry[q] # NoRun PROVE Listed(q)'
    BY <1>0 DEF Listed
  <2>2. registry[q] \in Runs /\ Listed(q)
    BY <2>1 DEF IInv, TypeOK
  <2>3. registry[q] # r
    BY <2>1, <2>2, <1>3 DEF Listed
  <2> QED BY <2>2, <2>3, <1>0, <1>2 DEF Listed
<1>7. \A q \in Runs : Visible(q)' => registry'[run'[q].package] = q
  <2>1. SUFFICES ASSUME NEW q \in Runs, Visible(q)' PROVE registry'[run'[q].package] = q
    OBVIOUS
  <2>2. q # r
    BY <2>1, <1>2 DEF Visible
  <2>3. Visible(q) /\ run'[q] = run[q]
    BY <2>1, <2>2, <1>2 DEF Visible, At, Start
  <2> QED BY <2>3, <1>0 DEF IInv
<1>8. Noticed'
  <2>1. ASSUME NEW q \in Runs, q # r, run[q].package = p PROVE p \in crowded'
    BY <2>1 DEF Start, InFlight
  <2>2. crowded \subseteq crowded'
    BY DEF Start
  <2>3. run'[r].package = p
    BY <1>2
  <2> QED BY <2>1, <2>2, <2>3, <1>2 DEF Noticed, IInv
<1> QED BY <1>0, <1>4, <1>5, <1>6, <1>7, <1>8 DEF IInv

LEMMA RegisterKeeps ==
  ASSUME IInv, NEW r \in Runs, Register(r)
  PROVE  IInv'
<1>1. /\ run[r] \in Run /\ run \in [Runs -> Run] /\ registry \in [Packages -> Runs \cup {NoRun}]
      /\ Sound(r) /\ run[r].pc = "register" /\ run[r].child = "alive" /\ phase # "stopped"
      /\ run[r].package \in Packages
  BY DEF IInv, TypeOK, Sound, Register, At, Run
<1>2. PICK x : x = [run[r] EXCEPT !.pc = "health"]
  OBVIOUS
<1>3. /\ x \in Run /\ x.pc = "health" /\ x.child = "alive" /\ x.exit = run[r].exit
      /\ x.package = run[r].package /\ x.attempt = run[r].attempt
  BY <1>1, <1>2 DEF Run, Points
<1>4. run' = [run EXCEPT ![r] = x]
  BY <1>2 DEF Register
<1>5. run' \in [Runs -> Run] /\ run'[r] = x /\ \A q \in Runs : q # r => run'[q] = run[q]
  BY <1>1, <1>3, <1>4, Moved
<1>6. /\ registry' \in [Packages -> Runs \cup {NoRun}]
      /\ registry'[run[r].package] = r
      /\ \A p \in Packages : p # run[r].package => registry'[p] = registry[p]
      /\ phase' = phase /\ crowded' = crowded /\ requests' = requests
  BY <1>1 DEF Register
<1>7. TypeOK'
  BY <1>5, <1>6 DEF IInv, TypeOK
<1>8. \A q \in Runs : Sound(q)'
  <2>1. ASSUME NEW q \in Runs, q # r PROVE Sound(q)'
    BY <2>1, <1>5, <1>6 DEF IInv, Sound, At
  <2>2. Sound(r)'
    BY <1>1, <1>3, <1>5, <1>6 DEF Sound, At
  <2> QED BY <2>1, <2>2
<1>9. \A p \in Packages : Listed(p)'
  <2>1. ASSUME NEW p \in Packages, p # run[r].package PROVE Listed(p)'
    <3>1. SUFFICES ASSUME registry[p] # NoRun PROVE Listed(p)'
      BY <2>1, <1>6 DEF Listed
    <3>2. registry[p] \in Runs /\ Listed(p) /\ registry[p] # r
      BY <3>1, <1>1 DEF IInv, Listed
    <3> QED BY <2>1, <3>2, <1>5, <1>6 DEF Listed
  <2>2. ASSUME NEW p \in Packages, p = run[r].package PROVE Listed(p)'
    BY <2>2, <1>3, <1>5, <1>6 DEF Listed
  <2> QED BY <2>1, <2>2
<1>10. \A q \in Runs : Visible(q)' => registry'[run'[q].package] = q
  <2>1. ASSUME NEW q \in Runs, q # r, Visible(q)' PROVE registry'[run'[q].package] = q
    <3>1. Visible(q) /\ run'[q] = run[q] /\ run[q].package \notin crowded
      BY <2>1, <1>5, <1>6 DEF Visible, At
    <3>2. run[q].package # "none" /\ run[q] \in Run
      BY <2>1, <3>1, <1>1 DEF IInv, Sound, At, Visible, TypeOK
    <3>3. run[q].package # run[r].package /\ run[q].package \in Packages
      BY <2>1, <3>1, <3>2, <1>1 DEF IInv, Noticed, Run
    <3> QED BY <2>1, <3>1, <3>3, <1>1, <1>6 DEF IInv
  <2> QED BY <2>1, <1>3, <1>5, <1>6
<1>11. Noticed'
  BY <1>3, <1>5, <1>6 DEF IInv, Noticed
<1> QED BY <1>7, <1>8, <1>9, <1>10, <1>11 DEF IInv

LEMMA ExitKeeps ==
  ASSUME IInv, NEW r \in Runs, Exit(r)
  PROVE  IInv'
<1>1. /\ run[r] \in Run /\ run \in [Runs -> Run] /\ registry \in [Packages -> Runs \cup {NoRun}]
      /\ Sound(r) /\ run[r].pc \in {"health", "wait"} /\ phase # "stopped"
      /\ run[r].package \in Packages
  BY DEF IInv, TypeOK, Sound, Exit, At, Run
<1>2. PICK exit \in {"zero", "other"} :
        run' = [run EXCEPT ![r].child = "none", ![r].exit = exit]
  BY DEF Exit
<1>3. PICK x : x = [run[r] EXCEPT !.child = "none", !.exit = exit]
  OBVIOUS
<1>4. /\ x \in Run /\ x.pc = run[r].pc /\ x.child = "none" /\ x.exit # "none"
      /\ x.package = run[r].package /\ x.attempt = run[r].attempt
  BY <1>1, <1>3 DEF Run
<1>5. run' = [run EXCEPT ![r] = x]
  BY <1>2, <1>3
<1>6. run' \in [Runs -> Run] /\ run'[r] = x /\ \A q \in Runs : q # r => run'[q] = run[q]
  BY <1>1, <1>4, <1>5, Moved
<1>7. /\ registry' \in [Packages -> Runs \cup {NoRun}]
      /\ registry'[run[r].package] = NoRun
      /\ \A p \in Packages : p # run[r].package => registry'[p] = registry[p]
      /\ phase' = phase /\ crowded' = crowded /\ requests' = requests
  BY <1>1 DEF Exit
<1>8. TypeOK'
  BY <1>6, <1>7 DEF IInv, TypeOK
<1>9. \A q \in Runs : Sound(q)'
  <2>1. ASSUME NEW q \in Runs, q # r PROVE Sound(q)'
    BY <2>1, <1>6, <1>7 DEF IInv, Sound, At
  <2>2. Sound(r)'
    BY <1>1, <1>4, <1>6, <1>7 DEF Sound, At
  <2> QED BY <2>1, <2>2
<1>10. \A p \in Packages : Listed(p)'
  <2>1. SUFFICES ASSUME NEW p \in Packages, p # run[r].package, registry[p] # NoRun
                 PROVE  Listed(p)'
    BY <1>7 DEF Listed
  <2>2. registry[p] \in Runs /\ Listed(p) /\ registry[p] # r
    BY <2>1, <1>1 DEF IInv, Listed
  <2> QED BY <2>1, <2>2, <1>6, <1>7 DEF Listed
<1>11. \A q \in Runs : Visible(q)' => registry'[run'[q].package] = q
  <2>1. SUFFICES ASSUME NEW q \in Runs, Visible(q)' PROVE registry'[run'[q].package] = q
    OBVIOUS
  <2>2. q # r
    BY <2>1, <1>4, <1>6 DEF Visible
  <2>3. Visible(q) /\ run'[q] = run[q] /\ run[q].package \notin crowded
    BY <2>1, <2>2, <1>6, <1>7 DEF Visible, At
  <2>4. run[q].package # "none" /\ run[q] \in Run
    BY <2>1, <2>3, <1>1 DEF IInv, Sound, At, Visible, TypeOK
  <2>5. run[q].package # run[r].package /\ run[q].package \in Packages
    BY <2>1, <2>2, <2>3, <2>4, <1>1 DEF IInv, Noticed, Run
  <2> QED BY <2>1, <2>3, <2>5, <1>1, <1>7 DEF IInv
<1>12. Noticed'
  BY <1>4, <1>6, <1>7 DEF IInv, Noticed
<1> QED BY <1>8, <1>9, <1>10, <1>11, <1>12 DEF IInv

LEMMA TerminatedFacts ==
  ASSUME run \in [Runs -> Run], NEW S, run' = Terminated(S)
  PROVE  /\ run' \in [Runs -> Run]
         /\ \A r \in Runs : /\ run'[r].pc = run[r].pc /\ run'[r].package = run[r].package
                            /\ run'[r].attempt = run[r].attempt /\ run'[r].exit = run[r].exit
                            /\ r \in S => run'[r].child = "told"
                            /\ r \notin S => run'[r] = run[r]
<1>1. ASSUME NEW r \in Runs
      PROVE  /\ run'[r] \in Run
             /\ run'[r].pc = run[r].pc /\ run'[r].package = run[r].package
             /\ run'[r].attempt = run[r].attempt /\ run'[r].exit = run[r].exit
             /\ r \in S => run'[r].child = "told"
             /\ r \notin S => run'[r] = run[r]
  <2>1. CASE r \in S
    <3>1. PICK x : x = [run[r] EXCEPT !.child = "told"]
      OBVIOUS
    <3>2. run'[r] = x
      BY <2>1, <3>1 DEF Terminated
    <3>3. run[r] \in Run
      OBVIOUS
    <3>4. /\ x \in Run /\ x.pc = run[r].pc /\ x.package = run[r].package
          /\ x.attempt = run[r].attempt /\ x.exit = run[r].exit /\ x.child = "told"
      BY <3>1, <3>3 DEF Run
    <3> QED BY <2>1, <3>2, <3>4
  <2>2. CASE r \notin S
    BY <2>2 DEF Terminated
  <2> QED BY <2>1, <2>2
<1>2. run' = [r \in Runs |-> run'[r]]
  BY DEF Terminated
<1> QED BY <1>1, <1>2

\* Terminating listed processes, and nothing else, and taking them off the registry
\* keeps the invariant.
LEMMA TerminationKeeps ==
  ASSUME IInv, NEW L \in SUBSET Packages,
         run' = Terminated({registry[p] : p \in L}),
         registry' = [p \in Packages |-> IF p \in L THEN NoRun ELSE registry[p]],
         phase = "serving", phase' \in {"serving", "closing"},
         UNCHANGED <<crowded, requests>>
  PROVE  IInv'
<1> DEFINE S == {registry[p] : p \in L}
<1>0. run \in [Runs -> Run] /\ registry \in [Packages -> Runs \cup {NoRun}]
  BY DEF IInv, TypeOK
<1>1. /\ run' \in [Runs -> Run]
      /\ \A r \in Runs : /\ run'[r].pc = run[r].pc /\ run'[r].package = run[r].package
                         /\ run'[r].attempt = run[r].attempt /\ run'[r].exit = run[r].exit
                         /\ r \in S => run'[r].child = "told"
                         /\ r \notin S => run'[r] = run[r]
  BY <1>0, TerminatedFacts
<1>2. \A r \in Runs : r \in S => run[r].child = "alive" /\ run[r].pc \in {"health", "wait"}
                                 /\ run[r].package \in L
  BY <1>0, DaemonAssumption DEF IInv, Listed
<1> HIDE DEF S
<1>3. TypeOK'
  BY <1>0, <1>1 DEF IInv, TypeOK
<1>4. ASSUME NEW r \in Runs PROVE Sound(r)'
  <2>1. Sound(r)
    BY DEF IInv
  <2>2. CASE r \in S
    BY <1>1, <1>2, <2>1, <2>2 DEF Sound, At
  <2>3. CASE r \notin S
    BY <1>1, <2>1, <2>3 DEF Sound, At
  <2> QED BY <2>2, <2>3
<1>5. \A p \in Packages : Listed(p)'
  <2>1. SUFFICES ASSUME NEW p \in Packages, p \notin L, registry[p] # NoRun PROVE Listed(p)'
    BY DEF Listed
  <2>2. registry[p] \in Runs /\ Listed(p) /\ registry'[p] = registry[p]
    BY <2>1, <1>0 DEF IInv
  <2>3. registry[p] \notin S
    BY <2>1, <2>2, <1>2 DEF Listed
  <2> QED BY <2>1, <2>2, <2>3, <1>1 DEF Listed
<1>6. \A r \in Runs : Visible(r)' => registry'[run'[r].package] = r
  <2>1. SUFFICES ASSUME NEW r \in Runs, Visible(r)' PROVE registry'[run'[r].package] = r
    OBVIOUS
  <2>2. r \notin S /\ run'[r] = run[r] /\ Visible(r)
    BY <2>1, <1>1 DEF Visible, At
  <2>3. registry[run[r].package] = r
    BY <2>2 DEF IInv
  <2>4. run[r].package \in Packages
    BY <2>2, <1>0 DEF IInv, Sound, Visible, At, Run
  <2>5. run[r].package \notin L
    BY <2>2, <2>3, <2>4 DEF S
  <2> QED BY <2>2, <2>3, <2>4, <2>5
<1>7. Noticed'
  BY <1>1 DEF IInv, Noticed
<1> QED BY <1>3, <1>4, <1>5, <1>6, <1>7 DEF IInv

LEMMA StopKeeps ==
  ASSUME IInv, NEW p \in Packages, Stop(p)
  PROVE  IInv'
<1>1. registry \in [Packages -> Runs \cup {NoRun}]
  BY DEF IInv, TypeOK
<1>2. {registry[q] : q \in {p}} = {registry[p]}
  OBVIOUS
<1>3. registry' = [q \in Packages |-> IF q \in {p} THEN NoRun ELSE registry[q]]
  BY <1>1 DEF Stop
<1> QED BY <1>2, <1>3, TerminationKeeps DEF Stop

LEMMA CloseKeeps ==
  ASSUME IInv, Close
  PROVE  IInv'
<1>1. registry' = [p \in Packages |-> IF p \in Packages THEN NoRun ELSE registry[p]]
  BY DEF Close
<1> QED BY <1>1, TerminationKeeps DEF Close

LEMMA LeaveKeeps ==
  ASSUME IInv, Leave
  PROVE  IInv'
<1>1. run \in [Runs -> Run]
  BY DEF IInv, TypeOK
<1>2. ASSUME NEW r \in Runs
      PROVE  /\ run'[r] \in Run /\ run'[r].pc = "idle" /\ run'[r].package = "none"
             /\ run'[r].exit = "none"
  <2>1. run'[r] = [Idle EXCEPT !.child = run[r].child]
    BY DEF Leave
  <2> QED BY <1>1, <2>1, RunType DEF Run, Idle, Points
<1>3. TypeOK'
  <2>1. run' = [r \in Runs |-> run'[r]]
    BY DEF Leave
  <2> QED BY <1>2, <2>1 DEF Leave, IInv, TypeOK
<1>4. \A r \in Runs : Sound(r)'
  BY <1>2 DEF Leave, Sound, At
<1>5. (\A p \in Packages : Listed(p))' /\ phase' = "stopped"
  BY DEF Leave, Listed
<1>6. Noticed'
  BY <1>2 DEF Noticed
<1> QED BY <1>3, <1>4, <1>5, <1>6 DEF IInv

(***************************************************************************)
(* The theorems.                                                           *)
(***************************************************************************)
LEMMA Initially == Init => IInv
<1> SUFFICES ASSUME Init PROVE IInv
  OBVIOUS
<1>1. TypeOK
  BY RunType, DaemonAssumption DEF Init, TypeOK
<1> QED BY <1>1 DEF Init, IInv, Idle, Sound, Listed, Visible, Noticed, At

LEMMA Inductive == IInv /\ [Next]_vars => IInv'
<1> SUFFICES ASSUME IInv, [Next]_vars PROVE IInv'
  OBVIOUS
<1>0. requests \in 0..MaxRequests
  BY DEF IInv, TypeOK
<1>1. CASE \E r \in Runs, p \in Packages : Start(r, p)
  BY <1>1, StartKeeps
<1>2. CASE \E r \in Runs : Step(r)
  BY <1>0, <1>2, LaunchIsQuiet, RegisterKeeps, HealthCheckIsQuiet, ExitedIsQuiet,
     BackoffIsQuiet, QuietKeeps DEF Step
<1>3. CASE \E r \in Runs : Exit(r)
  BY <1>3, ExitKeeps
<1>4. CASE \E r \in Runs : Disconnect(r)
  BY <1>0, <1>4, DisconnectIsQuiet, QuietKeeps
<1>5. CASE \E p \in Packages : Stop(p)
  BY <1>5, StopKeeps
<1>6. CASE Close
  BY <1>6, CloseKeeps
<1>7. CASE Leave
  BY <1>7, LeaveKeeps
<1>8. CASE UNCHANGED vars
  BY <1>8 DEF vars, IInv, TypeOK, Sound, Listed, Visible, Noticed, At
<1> QED BY <1>1, <1>2, <1>3, <1>4, <1>5, <1>6, <1>7, <1>8 DEF Next

THEOREM Invariance == Spec => []IInv
BY Initially, Inductive, PTL DEF Spec

\* Every reachable state has the types of TypeOK: a request never makes more than
\* MaxRestarts + 1 attempts, however they end and whoever stops them.
THEOREM TypeCorrect == Spec => []TypeOK
<1>1. IInv => TypeOK
  BY DEF IInv
<1> QED BY <1>1, Invariance, PTL

\* The supervisor leaves no process behind when it launches another or answers.
THEOREM SupervisorLosesNoProcess == Spec => []NoProcessIsLost
<1>1. IInv => NoProcessIsLost
  BY DEF IInv, Sound, NoProcessIsLost
<1> QED BY <1>1, Invariance, PTL

\* What the registry lists is alive and of that package, and the process of a package
\* that never had two runs at a time is listed until it is told to terminate.
THEOREM TheRegistryIsRight == Spec => []RegistryTellsTheTruth
<1>1. IInv => RegistryTellsTheTruth
  BY DEF IInv, Listed, Visible, RegistryTellsTheTruth
<1> QED BY <1>1, Invariance, PTL

\* What a request waits for can still come: as long as no exit has been seen there is a
\* process, alive or told to terminate, whoever stops, exits or replaces what.
WaitsForTheLiving ==
  \A r \in Runs : run[r].pc \in {"health", "wait"} /\ run[r].exit = "none" =>
                    run[r].child # "none"

\* No request is left waiting for a process that is gone: the 'exit' event that it
\* needs has not been, or has been noted (the safety half of EverythingEnds).
THEOREM NobodyWaitsForTheDead == Spec => []WaitsForTheLiving
<1>1. IInv => WaitsForTheLiving
  BY DEF IInv, Sound, WaitsForTheLiving
<1> QED BY <1>1, Invariance, PTL
=============================================================================
