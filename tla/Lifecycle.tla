----------------------------- MODULE Lifecycle ------------------------------
(***************************************************************************)
(* How the processes start, serve and stop: the run functions of cmd/*,    *)
(* RunMigrations, the fraud worker's runtime, and the calls between them.  *)
(* A process walks the steps of its boot sequence, any of which may fail   *)
(* and end it; it then serves, one call at a time, until a signal, a       *)
(* listener's error or a kill.  A stopped process is started again.        *)
(***************************************************************************)
EXTENDS Rotation

CONSTANTS Upstream,     \* the service that a service calls
          Deployments,  \* sets of services that run together
          MaxFails,     \* boot steps and listeners that fail
          MaxSignals,   \* SIGTERMs
          MaxKills,     \* processes killed
          MaxCuts,      \* connections that break
          MaxChecks,    \* pool health checks that meet an unlock
          MaxLosses     \* sessions that end while they hold the lock for a migration

VARIABLES phase,    \* phase[s]: one of Phases
          step,     \* step[s]: the boot step it is at
          signalled,\* signalled[s]: its context is cancelled
          lock,     \* the service whose session holds the migration lock, and
                    \* the services that lost theirs and go on without it
          call,     \* call[s]: the call its handler is serving
          conn,     \* conn[s]: it has a connection to its upstream
          refused,  \* the clients and servers whose last handshake failed
          faults    \* how often each fault has happened

Phases == {"down", "boot", "serve", "drain", "close", "abort"}

process == <<phase, step, signalled, lock, call, conn, refused, faults>>
vars == <<rotation, process>>

(***************************************************************************)
(* The boot sequences, one per run function.  "connect" stands for the     *)
(* configuration, the tracer and the database; "open" and "listen" for     *)
(* the producer, the consumer, the dials and the listeners around them.    *)
(***************************************************************************)
\* Mutant: the lock is released before the files are run.
RunMigrationsEarly == <<"lock", "unlock", "migrate">>

RunMigrations == <<"lock", "migrate", "unlock">>

GatewayBoot == <<"client">>

SagaBoot ==
  <<"connect">> \o RunMigrations \o <<"client", "open", "resume", "listen", "server">>

WalletBoot == <<"connect">> \o RunMigrations \o <<"open", "server">>

LedgerBoot == <<"connect">> \o RunMigrations \o <<"open", "server">>

VerificationBoot == <<"connect">> \o RunMigrations \o <<"open", "server">>

ProcessorBoot == <<"connect">> \o RunMigrations \o <<"open">>

NotificationBoot == <<"open">>

ApiBoot == <<"connect">>

RailBoot == <<"open">>

WorkerBoot == <<"connect", "client", "open">>

Boot == [gateway |-> GatewayBoot, saga |-> SagaBoot, wallet |-> WalletBoot,
         ledger |-> LedgerBoot, verification |-> VerificationBoot,
         processor |-> ProcessorBoot, notification |-> NotificationBoot,
         api |-> ApiBoot, rail |-> RailBoot, worker |-> WorkerBoot]

(***************************************************************************)
(* The services with files; the steps that run under the context the       *)
(* signal cancels; the servers whose stop has no deadline (GracefulStop)   *)
(* and those whose stop has one (http.Server.Shutdown, 10 s;               *)
(* WorkerRuntime.shutdown, 30 s).                                          *)
(***************************************************************************)
Certified == {s \in DOMAIN Boot : {"client", "server"} \cap Range(Boot[s]) # {}}

Cancellable == {"connect", "lock", "migrate", "resume"}

Graceful == {"saga", "wallet", "ledger", "verification"}

Timed == {"gateway", "api", "rail", "worker"}

\* A deployment is of these services, and None is none of them.
ASSUME DeploymentAssumption ==
  \A d \in Deployments : d \subseteq DOMAIN Boot /\ None \notin d

\* Whoever calls, or is called, over gRPC has files.
ASSUME UpstreamAssumption ==
  \A c \in DOMAIN Upstream : {c, Upstream[c]} \subseteq Certified

Deployed == DOMAIN phase

At(s) == Boot[s][step[s]]

Booting(s, name) ==
  s \in Deployed /\ phase[s] = "boot" /\ At(s) = name

Calls(c, s) == c \in DOMAIN Upstream \cap Deployed /\ Upstream[c] = s

Accepting(s) == s \in Deployed /\ phase[s] = "serve"

\* The end e takes part in a handshake that s is making.
Shaking(s, e) ==
  call[s] = "shake" /\ e \in {<<s, "client">>, <<Upstream[s], "server">>}

Happened(fault) == faults' = [faults EXCEPT ![fault] = @ + 1]

Init ==
  /\ \E d \in Deployments :
        /\ RotationInit(d \cap Certified)
        /\ phase = [s \in d |-> "down"]
        /\ step = [s \in d |-> 1]
        /\ signalled = [s \in d |-> FALSE]
        /\ call = [s \in d |-> "none"]
        /\ conn = [s \in d |-> FALSE]
  /\ lock = [holder |-> None, lost |-> {}]
  /\ refused = {}
  /\ faults = [fail |-> 0, signal |-> 0, kill |-> 0, check |-> 0, cut |-> 0, loss |-> 0]

Start(s) ==
  /\ phase[s] = "down"
  /\ phase' = [phase EXCEPT ![s] = "boot"]
  /\ step' = [step EXCEPT ![s] = 1]
  /\ UNCHANGED <<rotation, signalled, lock, call, conn, refused, faults>>

\* Mutant: a signal that came during the boot is forgotten.
AdvanceServes(s) ==
  LET last == step[s] = Len(Boot[s]) IN
  /\ step' = [step EXCEPT ![s] = IF last THEN @ ELSE @ + 1]
  /\ phase' = [phase EXCEPT ![s] = IF last THEN "serve" ELSE @]

(***************************************************************************)
(* The last step of a boot ends in select: a context cancelled meanwhile   *)
(* stops the service at once.                                              *)
(***************************************************************************)
Advance(s) ==
  LET last == step[s] = Len(Boot[s])
      then == IF signalled[s] THEN "drain" ELSE "serve"
  IN  /\ step' = [step EXCEPT ![s] = IF last THEN @ ELSE @ + 1]
      /\ phase' = [phase EXCEPT ![s] = IF last THEN then ELSE @]

\* The session of s that holds the lock, if there is one, lets go of it.
Freed(s) == [holder |-> IF lock.holder = s THEN None ELSE lock.holder,
             lost |-> lock.lost \ {s}]

(***************************************************************************)
(* The process ends: its deferred closes, or the kernel, end its database  *)
(* sessions, which frees an advisory lock, and its connections; the call   *)
(* it was serving is cut.                                                  *)
(***************************************************************************)
Exit(s) ==
  /\ phase' = [phase EXCEPT ![s] = "down"]
  /\ step' = [step EXCEPT ![s] = 1]
  /\ signalled' = [signalled EXCEPT ![s] = FALSE]
  /\ lock' = Freed(s)
  /\ call' = [call EXCEPT ![s] = "none"]
  /\ conn' = [c \in Deployed |->
                conn[c] /\ c # s /\ ~Calls(c, s)]
  /\ creds' = [e \in Ends |-> IF e[1] = s THEN None ELSE creds[e]]
  /\ reading' = [e \in Ends |-> IF e[1] = s \/ Shaking(s, e) THEN None ELSE reading[e]]
  /\ floor' = [e \in Ends |-> IF reading'[e] = None THEN 0 ELSE floor[e]]
  /\ UNCHANGED <<disk, gen, expired, refused>>

(***************************************************************************)
(* Boot steps.                                                             *)
(***************************************************************************)
BootStep(s) ==
  /\ \E name \in {"connect", "migrate", "open", "listen"} : Booting(s, name)
  /\ ~(signalled[s] /\ At(s) \in Cancellable)
  /\ Advance(s)
  /\ UNCHANGED <<rotation, signalled, lock, call, conn, refused, faults>>

BootCancelled(s) ==
  /\ phase[s] = "boot"
  /\ signalled[s]
  /\ At(s) \in Cancellable
  /\ Exit(s)
  /\ UNCHANGED faults

BootFails(s) ==
  /\ phase[s] = "boot"
  /\ faults.fail < MaxFails
  /\ Exit(s)
  /\ Happened("fail")

\* pg_advisory_lock: a session-level lock, taken through the pool.
TakeLock(s) ==
  /\ Booting(s, "lock")
  /\ ~signalled[s]
  /\ lock.holder = None
  /\ lock' = [holder |-> s, lost |-> lock.lost]
  /\ Advance(s)
  /\ UNCHANGED <<rotation, signalled, call, conn, refused, faults>>

(***************************************************************************)
(* The deferred unlock also goes through the pool.  When the health check  *)
(* of the pool holds the idle session at that moment, the unlock runs in   *)
(* another session, which does not hold the lock.  Where there is no lock  *)
(* to release, it does nothing, and its error is dropped.                  *)
(***************************************************************************)
Unlock(s) ==
  /\ Booting(s, "unlock")
  /\ \/ lock' = Freed(s) /\ UNCHANGED faults
     \/ /\ lock.holder = s
        /\ faults.check < MaxChecks
        /\ Happened("check")
        /\ UNCHANGED lock
  /\ Advance(s)
  /\ UNCHANGED <<rotation, signalled, call, conn, refused>>

Locked(s) == Booting(s, "migrate") \/ Booting(s, "unlock")

\* pgxpool ends a session that has been idle, or has lived, for too long.
SessionEnds(s) ==
  /\ lock.holder = s
  /\ ~Locked(s)
  /\ lock' = Freed(s)
  /\ UNCHANGED <<rotation, phase, step, signalled, call, conn, refused, faults>>

(***************************************************************************)
(* The same under a migration: every Exec of RunMigrations takes a session *)
(* from the pool and gives it back, and one that grew too old while it     *)
(* waited for the lock, or whose connection broke, is closed there and     *)
(* then.  The files go on in another session.                              *)
(***************************************************************************)
SessionLost(s) ==
  /\ lock.holder = s
  /\ Locked(s)
  /\ faults.loss < MaxLosses
  /\ Happened("loss")
  /\ lock' = [holder |-> None, lost |-> lock.lost \cup {s}]
  /\ UNCHANGED <<rotation, phase, step, signalled, call, conn, refused>>

\* newRotating: an eager load that fails fast; the worker's never fails.
LoadBegins(s, role) ==
  /\ Booting(s, role)
  /\ reading[<<s, role>>] = None
  /\ Begin({<<s, role>>})
  /\ UNCHANGED <<disk, gen, expired, creds, process>>

LoadEnds(s, role) ==
  LET e == <<s, role>> IN
  /\ Booting(s, role)
  /\ LastRead(e)
  /\ \/ /\ s \in Once \/ Parses(ReadNext(e))
        /\ creds' = [creds EXCEPT ![e] = ReadNext(e)]
        /\ reading' = [reading EXCEPT ![e] = None]
        /\ floor' = [floor EXCEPT ![e] = 0]
        /\ Advance(s)
        /\ UNCHANGED <<disk, gen, expired, signalled, lock, call, conn, refused>>
     \/ s \notin Once /\ ~Parses(ReadNext(e)) /\ Exit(s)
  /\ UNCHANGED faults

(***************************************************************************)
(* ResumeNonTerminal: with a saga to resume it calls upstream, and the     *)
(* first error ends the process.                                           *)
(***************************************************************************)
ResumeBegins(s) ==
  /\ Booting(s, "resume")
  /\ ~signalled[s]
  /\ call[s] = "none"
  /\ \/ Advance(s) /\ UNCHANGED call
     \/ call' = [call EXCEPT ![s] = "ask"] /\ UNCHANGED <<phase, step>>
  /\ UNCHANGED <<rotation, signalled, lock, conn, refused, faults>>

\* Mutant: an upstream that is not there yet is waited for, not reported.
ResumeEndsWaiting(s) ==
  /\ Booting(s, "resume")
  /\ ~signalled[s]
  /\ call[s] = "done"
  /\ call' = [call EXCEPT ![s] = "none"]
  /\ Advance(s)
  /\ UNCHANGED <<rotation, signalled, lock, conn, refused, faults>>

ResumeEnds(s) ==
  /\ Booting(s, "resume")
  /\ ~signalled[s]
  /\ \/ /\ call[s] = "done"
        /\ call' = [call EXCEPT ![s] = "none"]
        /\ Advance(s)
        /\ UNCHANGED <<rotation, signalled, lock, conn, refused>>
     \/ call[s] = "failed" /\ Exit(s)
  /\ UNCHANGED faults

(***************************************************************************)
(* Calls.  A service that nobody here calls is called from outside; a      *)
(* service with an upstream calls it on the way, the others run a          *)
(* statement on the pool if they have one.                                 *)
(***************************************************************************)
Sets(s, state) == call' = [call EXCEPT ![s] = state]

Arrive(s) ==
  /\ s \in Graceful \cup Timed
  /\ ~ \E c \in Deployed : Calls(c, s)
  /\ phase[s] = "serve"
  /\ call[s] = "none"
  /\ Sets(s, "run")
  /\ UNCHANGED <<rotation, phase, step, signalled, lock, conn, refused, faults>>

Handle(s) ==
  /\ \/ call[s] = "run" /\ \E u \in Deployed : Calls(s, u) /\ Sets(s, "ask")
     \/ /\ call[s] = "run"
        /\ ~ \E u \in Deployed : Calls(s, u)
        /\ Sets(s, IF "connect" \in Range(Boot[s]) THEN "sql" ELSE "done")
     \/ call[s] = "sql" /\ Sets(s, "done")
     \/ /\ call[s] \in {"done", "failed"}
        /\ phase[s] # "boot"
        /\ ~ \E c \in Deployed : Calls(c, s) /\ call[c] = "wait"
        /\ Sets(s, "none")
  /\ UNCHANGED <<rotation, phase, step, signalled, lock, conn, refused, faults>>

\* Without a connection a call waits for a handshake, or fails Unavailable.
Dial(s, u) ==
  /\ Calls(s, u)
  /\ call[s] = "ask"
  /\ ~conn[s]
  /\ \/ /\ Accepting(u)
        /\ Begin({e \in {<<s, "client">>, <<u, "server">>} : e[1] \notin Once})
        /\ Sets(s, "shake")
        /\ refused' = refused \ {<<s, u>>}
     \/ ~Accepting(u) /\ Sets(s, "failed") /\ UNCHANGED <<reading, floor, refused>>
  /\ UNCHANGED <<disk, gen, expired, creds, phase, step, signalled, lock, conn, faults>>

\* Both ends have their credentials: the handshake itself.
Shake(s, u) ==
  LET ends == {<<s, "client">>, <<u, "server">>}
      ok   == Trusts(creds[<<s, "client">>], creds[<<u, "server">>])
  IN
  /\ Calls(s, u)
  /\ call[s] = "shake"
  /\ Accepting(u)
  /\ \A e \in ends : e[1] \in Once \/ reading[e] = Ready
  /\ reading' = [e \in Ends |-> IF e \in ends THEN None ELSE reading[e]]
  /\ floor' = [e \in Ends |-> IF e \in ends THEN 0 ELSE floor[e]]
  /\ conn' = [conn EXCEPT ![s] = ok]
  /\ refused' = IF ok THEN refused ELSE refused \cup {<<s, u>>}
  /\ Sets(s, IF ok THEN "ask" ELSE "failed")
  /\ UNCHANGED <<disk, gen, expired, creds, phase, step, signalled, lock, faults>>

\* The server went away during the handshake.
ShakeLost(s, u) ==
  /\ Calls(s, u)
  /\ call[s] = "shake"
  /\ ~Accepting(u) \/ reading[<<u, "server">>] = None
  /\ reading' = [e \in Ends |->
        IF e = <<s, "client">> \/ (e = <<u, "server">> /\ phase[u] # "boot")
        THEN None ELSE reading[e]]
  /\ floor' = [e \in Ends |-> IF reading'[e] = None THEN 0 ELSE floor[e]]
  /\ Sets(s, "failed")
  /\ UNCHANGED <<disk, gen, expired, creds, phase, step, signalled, lock, conn,
                 refused, faults>>

Ask(s, u) ==
  /\ Calls(s, u)
  /\ call[s] = "ask"
  /\ conn[s]
  /\ call[u] = "none"
  /\ call' = [call EXCEPT ![s] = "wait", ![u] = "run"]
  /\ UNCHANGED <<rotation, phase, step, signalled, lock, conn, refused, faults>>

\* The answer, or Unavailable when the server's process ended under the call.
Receive(s, u) ==
  /\ Calls(s, u)
  /\ call[s] = "wait"
  /\ call[u] \in {"done", "failed", "none"}
  /\ call' = [call EXCEPT ![s] = IF call[u] = "done" THEN "done" ELSE "failed",
                          ![u] = "none"]
  /\ UNCHANGED <<rotation, phase, step, signalled, lock, conn, refused, faults>>

\* The connection breaks, under a call or not; the server does not notice.
Disconnect(s) ==
  /\ conn[s]
  /\ faults.cut < MaxCuts
  /\ Happened("cut")
  /\ conn' = [conn EXCEPT ![s] = FALSE]
  /\ call' = [call EXCEPT ![s] = IF @ = "wait" THEN "failed" ELSE @]
  /\ UNCHANGED <<rotation, phase, step, signalled, lock, refused>>

(***************************************************************************)
(* Stopping.                                                               *)
(***************************************************************************)
\* Stop accepting: the listener closes and every connection gets a GOAWAY.
HangUp(s) == conn' = [c \in Deployed |-> conn[c] /\ ~Calls(c, s)]

\* The worker installs its handler after its boot: a signal before that is a kill.
Signal(s) ==
  /\ phase[s] \in (IF s = "worker" THEN {"serve"} ELSE {"boot", "serve"})
  /\ ~signalled[s]
  /\ faults.signal < MaxSignals
  /\ Happened("signal")
  /\ signalled' = [signalled EXCEPT ![s] = TRUE]
  /\ \/ phase[s] = "boot" /\ UNCHANGED <<phase, conn>>
     \/ phase[s] = "serve" /\ phase' = [phase EXCEPT ![s] = "drain"] /\ HangUp(s)
  /\ UNCHANGED <<rotation, step, lock, call, refused>>

\* Mutant: the server is stopped, not drained.
DrainedAtOnce(s) ==
  /\ phase[s] = "drain"
  /\ phase' = [phase EXCEPT ![s] = "close"]
  /\ UNCHANGED <<rotation, step, signalled, lock, call, conn, refused, faults>>

\* GracefulStop or Shutdown returns once the handlers have.
Drained(s) ==
  /\ phase[s] = "drain"
  /\ call[s] = "none"
  /\ phase' = [phase EXCEPT ![s] = "close"]
  /\ UNCHANGED <<rotation, step, signalled, lock, call, conn, refused, faults>>

\* Shutdown and the worker's wait give up after their time.
DrainTimesOut(s) ==
  /\ s \in Timed
  /\ phase[s] = "drain"
  /\ call[s] # "none"
  /\ phase' = [phase EXCEPT ![s] = "abort"]
  /\ UNCHANGED <<rotation, step, signalled, lock, call, conn, refused, faults>>

\* A listener's error ends run at once, without a drain.
ListenerFails(s) ==
  /\ phase[s] = "serve"
  /\ faults.fail < MaxFails
  /\ Happened("fail")
  /\ phase' = [phase EXCEPT ![s] = "abort"]
  /\ HangUp(s)
  /\ UNCHANGED <<rotation, step, signalled, lock, call, refused>>

\* The deferred closes; the pool waits for the statements under way.
Close(s) ==
  /\ phase[s] \in {"close", "abort"}
  /\ call[s] # "sql"
  /\ Exit(s)
  /\ UNCHANGED faults

Kill(s) ==
  /\ phase[s] # "down"
  /\ faults.kill < MaxKills
  /\ Exit(s)
  /\ Happened("kill")

-----------------------------------------------------------------------------
(* What a process does by itself, what happens to it, and the operator.    *)

Progress(s) ==
  \/ Start(s) \/ BootStep(s) \/ BootCancelled(s) \/ Unlock(s)
  \/ \E role \in {"client", "server"} :
        \/ LoadBegins(s, role) \/ LoadEnds(s, role)
        \/ /\ <<s, role>> \in Ends
           /\ Read(<<s, role>>) \/ Swap(<<s, role>>)
           /\ UNCHANGED process
  \/ ResumeBegins(s) \/ ResumeEnds(s) \/ Handle(s)
  \/ \E u \in Deployed :
        Dial(s, u) \/ Shake(s, u) \/ ShakeLost(s, u) \/ Ask(s, u) \/ Receive(s, u)
  \/ Drained(s) \/ Close(s)

Happens(s) ==
  \/ Arrive(s) \/ BootFails(s) \/ ListenerFails(s) \/ Signal(s) \/ Kill(s)
  \/ Disconnect(s) \/ DrainTimesOut(s) \/ SessionLost(s)

Next ==
  \/ \E s \in Deployed : Progress(s) \/ TakeLock(s) \/ SessionEnds(s) \/ Happens(s)
  \/ Operator /\ UNCHANGED process

Spec == Init /\ [][Next]_vars

(***************************************************************************)
(* A process that can go on goes on; the advisory lock has a fair queue;   *)
(* no session of a pool lives for ever; a half-written file is completed.  *)
(***************************************************************************)
FairSpec ==
  /\ Spec
  /\ \A s \in UNION Deployments :
        /\ WF_vars(s \in Deployed /\ (Progress(s) \/ TakeLock(s)))
        /\ SF_vars(s \in Deployed /\ TakeLock(s))
  /\ WF_vars(\E s \in Deployed : SessionEnds(s))
  /\ WF_vars(Writing /\ UNCHANGED process)

-----------------------------------------------------------------------------
(***************************************************************************)
(* Two services that start together run the migration files at the same    *)
(* time only if one of them lost, while it ran them, the session that took *)
(* the lock (RunMigrations' advisory lock): whoever dies, whoever runs on  *)
(* without a lock, and whichever session the unlock ran in.                *)
(***************************************************************************)
MigrationsSerial ==
  \A s, t \in {r \in Deployed : Booting(r, "migrate")} :
     s # t => {s, t} \cap lock.lost # {}

(***************************************************************************)
(* As 08-kubernetes-and-helm.md states it, without the exception:          *)
(* "concurrently starting services safely serialize migration execution".  *)
(***************************************************************************)
MigrationsNeverOverlap ==
  \A s, t \in {r \in Deployed : Booting(r, "migrate")} : s = t

(***************************************************************************)
(* A gRPC server that stops on a signal closes its connections, producer   *)
(* and pool only when the calls it accepted have returned, and accepts     *)
(* none afterwards (GracefulStop before the deferred closes).              *)
(***************************************************************************)
AcceptedCallsFinish ==
  \A s \in Deployed : phase[s] = "close" => call[s] = "none"

(***************************************************************************)
(* "a rotation in progress never fails a handshake" (mtls.go): two ends    *)
(* that re-read their files agree, whatever half-written or torn mixture   *)
(* each has read, unless one still holds a leaf from before the generation *)
(* that is being replaced, or a pool that is neither of the two bundles:   *)
(* an older bundle, or the part of a bundle that had been written, which   *)
(* parse takes for a whole one.                                            *)
(***************************************************************************)
Outdated(e) ==
  \/ creds[e].cert < gen - 1
  \/ creds[e].ca \notin {Bundle[h] : h \in {gen - 1, gen} \cap Generations}

HandshakeSucceeds ==
  [][\A p \in refused' \ refused :
        \/ p[1] \in Once \/ p[2] \in Once
        \/ Outdated(<<p[1], "client">>)' \/ Outdated(<<p[2], "server">>)']_vars

(***************************************************************************)
(* A handshake that begins once a new generation is on disk uses it: no    *)
(* restart is needed (current re-reads before every handshake).  One that  *)
(* a write falls into uses nothing older than the last one did.            *)
(***************************************************************************)
RotationTakesEffect ==
  \A e \in Ends : reading[e] = Ready => creds[e].cert >= floor[e]

(***************************************************************************)
(* As mtls.go states it, without the exception: "the last good credentials *)
(* keep serving, so a rotation in progress never fails a handshake".       *)
(***************************************************************************)
HandshakeNeverFails == \A p \in refused : p[1] \in Once

(***************************************************************************)
(* A worker that restarts at any point in the renewal window has working   *)
(* credentials afterwards (phase5-cert-rotation.md: "Any routine rollout   *)
(* satisfies it"): a handshake of it fails only if its server is outdated. *)
(***************************************************************************)
WorkerHandshakeNeverFails ==
  [][\A p \in refused' \ refused :
        p[1] \notin Once \/ Outdated(<<p[2], "server">>)']_vars

(***************************************************************************)
(* Every service comes to serve, again and again: whichever boot step      *)
(* failed, whoever died holding the migration lock, and although the saga  *)
(* cannot start before its upstream serves.                                *)
(***************************************************************************)
EveryServiceStarts == []<>(\A s \in Deployed : phase[s] = "serve")

(***************************************************************************)
(* Every signalled service stops, in whatever order the services are       *)
(* signalled and although GracefulStop has no deadline.                    *)
(***************************************************************************)
EveryStopEnds == []<>(\A s \in Deployed : ~signalled[s])

-----------------------------------------------------------------------------
(***************************************************************************)
(* The inductive invariant.  A service past TakeLock and not yet past      *)
(* Unlock holds the lock or has lost its session; a connection leads to a  *)
(* server that accepts calls; leaves expire when nobody uses them; and     *)
(* what an end has read is in order (ReadInv), with credentials only after *)
(* the step of the boot that loads them.                                   *)
(***************************************************************************)
ProcessOK ==
  /\ Deployed \in Deployments
  /\ DOMAIN disk = Deployed \cap Certified
  /\ phase \in [Deployed -> Phases]
  /\ DOMAIN step = Deployed /\ \A s \in Deployed : step[s] \in DOMAIN Boot[s]
  /\ {DOMAIN signalled, DOMAIN call, DOMAIN conn} = {Deployed}
  /\ {DOMAIN creds, DOMAIN reading, DOMAIN floor} = {Ends}

HoldsLock(s) == Locked(s) => lock.holder = s \/ s \in lock.lost

Served(c) == conn[c] => \A s \in Deployed : Calls(c, s) => phase[s] = "serve"

Loaded(e) ==
  creds[e] # None =>
     /\ phase[e[1]] # "down"
     /\ phase[e[1]] = "boot" =>
           \A i \in DOMAIN Boot[e[1]] : Boot[e[1]][i] = e[2] => i < step[e[1]]

LifecycleInv ==
  /\ ProcessOK /\ DiskInv /\ ExpiryInv
  /\ \A s \in Deployed : HoldsLock(s) /\ Served(s)
  /\ AcceptedCallsFinish
  /\ \A e \in Ends : ReadInv(e) /\ Loaded(e)

=============================================================================
