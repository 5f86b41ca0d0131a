-------------------------- MODULE LifecycleProofs ---------------------------
(***************************************************************************)
(* What the services keep while they start, serve and stop, for every      *)
(* deployment of them, any number of faults and any generations of         *)
(* credentials whose consecutive ones trust each other: migrations are     *)
(* serial, accepted calls finish, a rotation takes effect at the next      *)
(* handshake, and the handshakes of a rotation succeed.                    *)
(***************************************************************************)
EXTENDS Lifecycle, TLAPS

-----------------------------------------------------------------------------
(* The boot sequences.                                                     *)

Steps == {"connect", "lock", "migrate", "unlock", "client", "server", "open", "resume", "listen"}

\* RunMigrations takes the lock before the files and releases it after them,
\* and no step of the boot b has a name twice among the two loads.
InOrder(b) ==
  /\ b \in Seq(Steps) /\ Len(b) > 0
  /\ b[1] \notin {"migrate", "unlock"}
  /\ \A i \in 1..Len(b) - 1 : /\ b[i + 1] = "migrate" => b[i] = "lock"
                              /\ b[i + 1] = "unlock" => b[i] = "migrate"
  /\ \A i, j \in 1..Len(b) : b[i] \in {"client", "server"} /\ b[i] = b[j] => i = j

\* What a sequence u of steps that continues s with t has where.
Continues(u, s, t) ==
  /\ u \in Seq(Steps) /\ Len(u) = Len(s) + Len(t)
  /\ \A i \in 1..Len(s) : u[i] = s[i]
  /\ \A i \in 1..Len(t) : u[Len(s) + i] = t[i]

\* So does the concatenation of s and t.
LEMMA Concatenation ==
  ASSUME NEW s \in Seq(Steps), NEW t \in Seq(Steps)
  PROVE  Continues(s \o t, s, t)
BY DEF Continues

\* The steps of a boot that migrates: connect, RunMigrations and the rest.
Migrates(b, rest) ==
  /\ b \in Seq(Steps) /\ Len(b) = 4 + Len(rest)
  /\ b[1] = "connect" /\ b[2] = "lock" /\ b[3] = "migrate" /\ b[4] = "unlock"
  /\ \A i \in 1..Len(rest) : b[4 + i] = rest[i]

\* It is the concatenation the run functions make.
LEMMA Migration ==
  ASSUME NEW rest \in Seq(Steps), NEW b, b = <<"connect">> \o RunMigrations \o rest
  PROVE  Migrates(b, rest)
<1>1. PICK a : a = <<"connect">> \o RunMigrations
  BY Zenon
<1>2. /\ a \in Seq(Steps) /\ Len(a) = 4
      /\ a[1] = "connect" /\ a[2] = "lock" /\ a[3] = "migrate" /\ a[4] = "unlock"
  <2>1. /\ <<"connect">> \in Seq(Steps) /\ RunMigrations \in Seq(Steps)
        /\ Len(<<"connect">>) = 1 /\ Len(RunMigrations) = 3
        /\ RunMigrations[1] = "lock" /\ RunMigrations[2] = "migrate" /\ RunMigrations[3] = "unlock"
    BY DEF RunMigrations, Steps
  <2>2. PICK c : c = <<"connect">>
    BY Zenon
  <2>3. c \in Seq(Steps) /\ Len(c) = 1 /\ c[1] = "connect" /\ a = c \o RunMigrations
    BY <1>1, <2>1, <2>2
  <2>4. /\ a \in Seq(Steps) /\ Len(a) = Len(c) + Len(RunMigrations)
        /\ \A i \in 1..Len(c) : a[i] = c[i]
        /\ \A i \in 1..Len(RunMigrations) : a[Len(c) + i] = RunMigrations[i]
    BY Zenon, <2>1, <2>3, Concatenation DEF Continues
  <2>5. /\ 1 \in 1..Len(c) /\ \A i \in {1, 2, 3} : i \in 1..Len(RunMigrations)
        /\ Len(c) + 1 = 2 /\ Len(c) + 2 = 3 /\ Len(c) + 3 = 4 /\ Len(a) = 4
    BY <2>1, <2>3, <2>4
  <2> QED BY Zenon, <2>1, <2>3, <2>4, <2>5
<1>3. b = a \o rest
  BY Zenon, <1>1
<1>4. /\ b \in Seq(Steps) /\ Len(b) = Len(a) + Len(rest)
      /\ \A i \in 1..Len(a) : b[i] = a[i]
      /\ \A i \in 1..Len(rest) : b[Len(a) + i] = rest[i]
  <2>1. a \in Seq(Steps)
    BY Zenon, <1>2
  <2>2. Continues(a \o rest, a, rest)
    BY Zenon, <2>1, Concatenation
  <2>3. Continues(b, a, rest)
    BY Zenon, <1>3, <2>2
  <2> QED BY Zenon, <2>3 DEF Continues
<1>5. \A i \in {1, 2, 3, 4} : i \in 1..Len(a)
  BY <1>2
<1> QED BY Zenon, <1>2, <1>4, <1>5 DEF Migrates

\* A boot that migrates is in order if the rest has neither of the names twice and
\* no step of a migration.
LEMMA MigratesInOrder ==
  ASSUME NEW rest \in Seq(Steps), NEW b, b = <<"connect">> \o RunMigrations \o rest,
         \A i \in 1..Len(rest) : rest[i] \notin {"migrate", "unlock"},
         \A i, j \in 1..Len(rest) : rest[i] \in {"client", "server"} /\ rest[i] = rest[j] => i = j
  PROVE  InOrder(b)
<1>1. /\ b \in Seq(Steps) /\ Len(b) = 4 + Len(rest)
      /\ b[1] = "connect" /\ b[2] = "lock" /\ b[3] = "migrate" /\ b[4] = "unlock"
      /\ \A i \in 1..Len(rest) : b[4 + i] = rest[i]
  <2>1. Migrates(b, rest)
    BY Zenon, Migration
  <2> QED BY Zenon, <2>1 DEF Migrates
<1>2. Len(rest) \in Nat
  OBVIOUS
<1>3. \A i \in 1..Len(b) : i \in {1, 2, 3, 4} \/ (i - 4 \in 1..Len(rest) /\ b[i] = rest[i - 4])
  BY <1>1, <1>2
<1>4. ASSUME NEW i \in 1..Len(b) - 1
      PROVE  /\ b[i + 1] = "migrate" => b[i] = "lock"
             /\ b[i + 1] = "unlock" => b[i] = "migrate"
  BY <1>1, <1>2, <1>3, <1>4
<1>5. ASSUME NEW i \in 1..Len(b), NEW j \in 1..Len(b), b[i] \in {"client", "server"}, b[i] = b[j]
      PROVE  i = j
  <2>1. i \notin {1, 2, 3, 4} /\ j \notin {1, 2, 3, 4}
    BY Zenon, <1>1, <1>5
  <2>2. /\ i - 4 \in 1..Len(rest) /\ b[i] = rest[i - 4]
        /\ j - 4 \in 1..Len(rest) /\ b[j] = rest[j - 4]
    BY Zenon, <1>3, <1>5, <2>1
  <2>3. i - 4 = j - 4
    BY Zenon, <1>5, <2>2
  <2> QED BY <1>2, <1>5, <2>2, <2>3
<1>6. Len(b) > 0
  <2>1. PICK k \in Nat : Len(b) = 4 + k
    BY Zenon, <1>1, <1>2
  <2>2. 4 + k > 0
    OBVIOUS
  <2> QED BY Zenon, <2>1, <2>2
<1>7. "connect" \notin {"migrate", "unlock"}
  OBVIOUS
<1> QED BY Zenon, <1>1, <1>4, <1>5, <1>6, <1>7 DEF InOrder

\* So is every boot sequence.
LEMMA BootsInOrder == \A s \in DOMAIN Boot : InOrder(Boot[s])
<1>1. InOrder(SagaBoot)
  <2>1. PICK rest : rest = <<"client", "open", "resume", "listen", "server">>
    BY Zenon
  <2>2. SagaBoot = <<"connect">> \o RunMigrations \o rest
    BY Zenon, <2>1 DEF SagaBoot
  <2>3. rest \in Seq(Steps)
    BY <2>1 DEF Steps
  <2>4. \A i \in 1..Len(rest) : rest[i] \notin {"migrate", "unlock"}
    BY <2>1
  <2>5. \A i, j \in 1..Len(rest) : rest[i] \in {"client", "server"} /\ rest[i] = rest[j] => i = j
    BY <2>1
  <2> QED BY Zenon, <2>2, <2>3, <2>4, <2>5, MigratesInOrder
<1>2. ASSUME NEW b, b = <<"connect">> \o RunMigrations \o <<"open", "server">>
      PROVE  InOrder(b)
  <2>1. PICK rest : rest = <<"open", "server">>
    BY Zenon
  <2>2. b = <<"connect">> \o RunMigrations \o rest
    BY Zenon, <1>2, <2>1
  <2>3. rest \in Seq(Steps)
    BY <2>1 DEF Steps
  <2>4. \A i \in 1..Len(rest) : rest[i] \notin {"migrate", "unlock"}
    BY <2>1
  <2>5. \A i, j \in 1..Len(rest) : rest[i] \in {"client", "server"} /\ rest[i] = rest[j] => i = j
    BY <2>1
  <2> QED BY Zenon, <2>2, <2>3, <2>4, <2>5, MigratesInOrder
<1>3. InOrder(ProcessorBoot)
  <2>1. PICK rest : rest = <<"open">>
    BY Zenon
  <2>2. ProcessorBoot = <<"connect">> \o RunMigrations \o rest
    BY Zenon, <2>1 DEF ProcessorBoot
  <2>3. rest \in Seq(Steps)
    BY <2>1 DEF Steps
  <2>4. \A i \in 1..Len(rest) : rest[i] \notin {"migrate", "unlock"}
    BY <2>1
  <2>5. \A i, j \in 1..Len(rest) : rest[i] \in {"client", "server"} /\ rest[i] = rest[j] => i = j
    BY <2>1
  <2> QED BY Zenon, <2>2, <2>3, <2>4, <2>5, MigratesInOrder
<1>4. ASSUME NEW a \in Steps \ {"migrate", "unlock"} PROVE InOrder(<<a>>)
  BY <1>4 DEF InOrder
<1>5. InOrder(WorkerBoot)
  <2>1. WorkerBoot \in Seq(Steps) /\ Len(WorkerBoot) = 3
    BY DEF WorkerBoot, Steps
  <2>2. WorkerBoot[1] = "connect" /\ WorkerBoot[2] = "client" /\ WorkerBoot[3] = "open"
    BY DEF WorkerBoot
  <2> QED BY <2>1, <2>2 DEF InOrder
<1>6. InOrder(WalletBoot) /\ InOrder(LedgerBoot) /\ InOrder(VerificationBoot)
  BY Zenon, <1>2 DEF WalletBoot, LedgerBoot, VerificationBoot
<1>7. InOrder(GatewayBoot) /\ InOrder(NotificationBoot) /\ InOrder(ApiBoot) /\ InOrder(RailBoot)
  BY <1>4 DEF GatewayBoot, NotificationBoot, ApiBoot, RailBoot, Steps
<1> QED BY <1>1, <1>3, <1>5, <1>6, <1>7 DEF Boot

-----------------------------------------------------------------------------
(* Steps of a process.                                                     *)

\* The services of a deployment, and where their boots stand.
LEMMA Services ==
  ASSUME ProcessOK
  PROVE  /\ None \notin Deployed
         /\ \A s \in Deployed : /\ s \in DOMAIN Boot /\ InOrder(Boot[s])
                                /\ Len(Boot[s]) \in Nat /\ Len(Boot[s]) > 0
                                /\ DOMAIN Boot[s] = 1..Len(Boot[s])
                                /\ step[s] \in 1..Len(Boot[s])
<1>1. None \notin Deployed /\ Deployed \subseteq DOMAIN Boot
  BY Zenon, DeploymentAssumption DEF ProcessOK
<1>2. ASSUME NEW b, InOrder(b) PROVE Len(b) \in Nat /\ Len(b) > 0 /\ DOMAIN b = 1..Len(b)
  BY <1>2 DEF InOrder
<1>3. \A s \in Deployed : InOrder(Boot[s])
  BY Zenon, <1>1, BootsInOrder
<1>4. \A s \in Deployed : step[s] \in DOMAIN Boot[s]
  BY Zenon DEF ProcessOK
<1> QED BY Zenon, <1>1, <1>2, <1>3, <1>4

\* Nothing but the places of the services in their boots, and their phases, is
\* where it was; phases and steps are well typed.
Placed ==
  /\ Deployed' = Deployed
  /\ phase' \in [Deployed -> Phases]
  /\ DOMAIN step' = Deployed
  /\ \A t \in Deployed : step'[t] \in DOMAIN Boot[t]

\* The service s does the next step of its boot, or ends it; the others stay.
Walked(s) ==
  /\ Placed
  /\ \A t \in Deployed \ {s} : phase'[t] = phase[t] /\ step'[t] = step[t]
  /\ \/ phase'[s] = "boot" /\ step'[s] = step[s] + 1
     \/ phase'[s] \in {"serve", "drain"}

\* Advance does.
LEMMA AdvanceWalks ==
  ASSUME ProcessOK, NEW s \in Deployed, phase[s] = "boot", Advance(s)
  PROVE  Walked(s)
<1>1. /\ Len(Boot[s]) \in Nat /\ DOMAIN Boot[s] = 1..Len(Boot[s]) /\ step[s] \in 1..Len(Boot[s])
  BY Zenon, Services
<1>2. phase \in [Deployed -> Phases] /\ DOMAIN step = Deployed
  BY Zenon DEF ProcessOK
<1>3. \A t \in Deployed : step[t] \in DOMAIN Boot[t]
  BY Zenon DEF ProcessOK
<1>4. DOMAIN phase' = Deployed /\ DOMAIN step' = Deployed
  BY Zenon, <1>2 DEF Advance
<1>5. \A t \in Deployed \ {s} : phase'[t] = phase[t] /\ step'[t] = step[t]
  BY Zenon, <1>2 DEF Advance
<1>6. CASE step[s] = Len(Boot[s])
  <2>1. PICK then \in {"serve", "drain"} : phase' = [phase EXCEPT ![s] = then]
    BY Zenon, <1>6 DEF Advance
  <2>2. phase'[s] \in {"serve", "drain"} /\ phase' \in [Deployed -> Phases]
    BY <1>2, <2>1 DEF Phases
  <2>3. step'[s] = step[s]
    BY Zenon, <1>2, <1>6 DEF Advance
  <2>4. \A t \in Deployed : step'[t] \in DOMAIN Boot[t]
    BY Zenon, <1>3, <1>5, <2>3
  <2> QED BY Zenon, <1>4, <1>5, <2>2, <2>4 DEF Walked, Placed, Deployed
<1>7. CASE step[s] # Len(Boot[s])
  <2>1. phase' = [phase EXCEPT ![s] = phase[s]] /\ step' = [step EXCEPT ![s] = step[s] + 1]
    BY Zenon, <1>7 DEF Advance
  <2>2. phase'[s] = phase[s] /\ step'[s] = step[s] + 1 /\ phase' \in [Deployed -> Phases]
    BY <1>2, <2>1
  <2>3. step[s] + 1 \in DOMAIN Boot[s]
    BY <1>1, <1>7
  <2>4. \A t \in Deployed : step'[t] \in DOMAIN Boot[t]
    BY Zenon, <1>3, <1>5, <2>2, <2>3
  <2> QED BY Zenon, <1>4, <1>5, <2>2, <2>4 DEF Walked, Placed, Deployed
<1> QED BY Zenon, <1>6, <1>7

\* A service comes to be between TakeLock and Unlock only from the step before.
LEMMA WalkedLocked ==
  ASSUME ProcessOK, NEW s \in Deployed, phase[s] = "boot", Walked(s)
  PROVE  /\ Locked(s)' => At(s) \in {"lock", "migrate"}
         /\ \A t \in Deployed \ {s} : Locked(t)' => Locked(t)
<1>1. /\ InOrder(Boot[s]) /\ Len(Boot[s]) \in Nat
      /\ DOMAIN Boot[s] = 1..Len(Boot[s]) /\ step[s] \in 1..Len(Boot[s])
  BY Zenon, Services
<1>2. ASSUME Locked(s)' PROVE At(s) \in {"lock", "migrate"}
  <2>1. phase'[s] = "boot" /\ Boot[s][step'[s]] \in {"migrate", "unlock"}
    BY Zenon, <1>2 DEF Locked, Booting, At
  <2>2. step'[s] = step[s] + 1 /\ step'[s] \in DOMAIN Boot[s]
    BY Zenon, <2>1 DEF Walked, Placed
  <2>3. step[s] \in 1..Len(Boot[s]) - 1
    BY <1>1, <2>2
  <2> QED BY Zenon, <1>1, <2>1, <2>2, <2>3 DEF InOrder, At
<1>3. ASSUME NEW t \in Deployed \ {s}, Locked(t)' PROVE Locked(t)
  BY Zenon, <1>3 DEF Locked, Booting, At, Walked, Placed
<1> QED BY Zenon, <1>2, <1>3

\* Parts of the invariant that a step keeps if what they speak of stays.

\* The places, and the domains of what a process has, as ProcessOK has them.
LEMMA PlacesKept ==
  ASSUME ProcessOK, Placed, DOMAIN disk' = DOMAIN disk,
         DOMAIN signalled' = Deployed, DOMAIN call' = Deployed, DOMAIN conn' = Deployed,
         DOMAIN creds' = Ends, DOMAIN reading' = Ends, DOMAIN floor' = Ends
  PROVE  ProcessOK'
<1>1. Ends' = Ends
  BY Zenon DEF Ends
<1>2. DOMAIN disk' = Deployed' \cap Certified
  BY Zenon DEF ProcessOK, Placed
<1> QED BY Zenon, <1>1, <1>2 DEF ProcessOK, Placed

\* A step in which no service comes to be between TakeLock and Unlock.
LEMMA LockKept ==
  ASSUME LifecycleInv, Deployed' = Deployed, lock' = lock,
         \A t \in Deployed : Locked(t)' => Locked(t)
  PROVE  \A t \in Deployed' : HoldsLock(t)'
BY Zenon DEF LifecycleInv, HoldsLock

\* c keeps its connection, loses it, or has one to a server that accepts calls.
Connects(c) ==
  conn'[c] => conn[c] \/ \A s \in Deployed : Calls(c, s) => phase'[s] = "serve"

\* A step that makes no others and breaks those to a server that stops serving.
LEMMA ServedKept ==
  ASSUME LifecycleInv, Deployed' = Deployed,
         \A c \in Deployed : Connects(c),
         \A s \in Deployed : phase[s] = "serve" =>
            phase'[s] = "serve" \/ \A c \in Deployed : Calls(c, s) => ~conn'[c]
  PROVE  \A c \in Deployed' : Served(c)'
<1> SUFFICES ASSUME NEW c \in Deployed, conn'[c], NEW s \in Deployed, Calls(c, s)'
             PROVE  phase'[s] = "serve"
  BY Zenon DEF Served
<1>1. Calls(c, s)
  BY Zenon DEF Calls
<1>2. conn[c] => phase[s] = "serve"
  BY Zenon, <1>1 DEF LifecycleInv, Served
<1> QED BY Zenon, <1>1, <1>2 DEF Connects

\* Where a service that has credentials may go.
Onward(t) ==
  \/ phase'[t] = phase[t] /\ step'[t] = step[t]
  \/ phase'[t] = "boot" /\ phase[t] = "boot" /\ step'[t] = step[t] + 1
  \/ phase'[t] \notin {"down", "boot"}

\* A step that gives an end credentials only past their step of the boot, and takes
\* those of a service that goes elsewhere.
LEMMA LoadedKept ==
  ASSUME LifecycleInv, Deployed' = Deployed, Ends' = Ends,
         \A e \in Ends : creds'[e] # None => Loaded(e)' \/ (creds[e] # None /\ Onward(e[1]))
  PROVE  \A e \in Ends' : Loaded(e)'
<1> SUFFICES ASSUME NEW e \in Ends, creds'[e] # None, ~Loaded(e)' PROVE Loaded(e)'
  BY Zenon DEF Loaded
<1>1. creds[e] # None /\ Onward(e[1]) /\ Loaded(e)
  BY Zenon DEF LifecycleInv
<1>2. PICK s : s = e[1]
  BY Zenon
<1>3. s \in Deployed
  BY Zenon, <1>2 DEF LifecycleInv, ProcessOK, Ends
<1>4. /\ phase[s] # "down"
      /\ phase[s] = "boot" => \A i \in DOMAIN Boot[s] : Boot[s][i] = e[2] => i < step[s]
  BY Zenon, <1>1, <1>2 DEF Loaded
<1>5. /\ phase'[s] # "down"
      /\ phase'[s] = "boot" => \A i \in DOMAIN Boot[s] : Boot[s][i] = e[2] => i < step'[s]
  <2>1. CASE phase'[s] = phase[s] /\ step'[s] = step[s]
    BY Zenon, <1>4, <2>1
  <2>2. CASE phase'[s] = "boot" /\ phase[s] = "boot" /\ step'[s] = step[s] + 1
    <3>1. PICK n : n = step[s]
      BY Zenon
    <3>2. n \in 1..Len(Boot[s]) /\ Len(Boot[s]) \in Nat /\ DOMAIN Boot[s] = 1..Len(Boot[s])
      BY Zenon, <1>3, <3>1, Services DEF LifecycleInv
    <3>3. \A i \in DOMAIN Boot[s] : i < n => i < n + 1
      BY <3>2
    <3> QED BY Zenon, <1>4, <2>2, <3>1, <3>3
  <2>3. CASE phase'[s] \notin {"down", "boot"}
    BY Zenon, <2>3
  <2> QED BY Zenon, <1>1, <1>2, <2>1, <2>2, <2>3 DEF Onward
<1> QED BY Zenon, <1>2, <1>5 DEF Loaded

\* A step that puts s into another phase, not into its boot.
LEMMA PhaseMoves ==
  ASSUME ProcessOK, NEW s \in Deployed, NEW x \in Phases \ {"boot"},
         phase' = [phase EXCEPT ![s] = x], step' = step
  PROVE  /\ Placed /\ phase'[s] = x
         /\ \A t \in Deployed \ {s} : phase'[t] = phase[t]
         /\ \A t \in Deployed : Locked(t)' => Locked(t)
<1>1. phase \in [Deployed -> Phases] /\ DOMAIN step = Deployed
  BY Zenon DEF ProcessOK
<1>2. /\ phase' \in [Deployed -> Phases] /\ DOMAIN phase' = Deployed /\ phase'[s] = x
      /\ \A t \in Deployed \ {s} : phase'[t] = phase[t]
  BY Zenon, <1>1
<1>3. Placed
  BY Zenon, <1>1, <1>2 DEF Placed, ProcessOK, Deployed
<1>4. \A t \in Deployed : Locked(t)' => Locked(t)
  BY Zenon, <1>2, <1>3 DEF Locked, Booting, At, Placed
<1> QED BY Zenon, <1>2, <1>3, <1>4

\* The end e of a connection keeps what it has, or ends a read or a handshake.
Forgets(e) ==
  /\ disk'[e[1]] = disk[e[1]] /\ gen' = gen
  /\ \/ creds'[e] = creds[e] /\ reading'[e] = None /\ floor'[e] = 0
     \/ creds'[e] = None /\ reading'[e] = None /\ floor'[e] = 0
     \/ creds'[e] = creds[e] /\ reading'[e] = reading[e] /\ floor'[e] = floor[e]

\* Then what it has is still in order.
LEMMA ReadForgotten ==
  ASSUME LifecycleInv, NEW e \in Ends, Forgets(e)
  PROVE  ReadInv(e)'
<1>1. ReadInv(e) /\ None # Ready /\ 0 \in Nat
  BY Zenon, MaterialAssumption DEF LifecycleInv
<1>2. LeafBound(e[1])' = LeafBound(e[1])
  BY Zenon DEF LeafBound, Forgets
<1>3. creds'[e] = creds[e] => (Held(e)' <=> Held(e)) /\ LastGood(e)' = LastGood(e)
  BY Zenon, <1>2 DEF Held, LastGood
<1>4. CASE creds'[e] \in {creds[e], None} /\ reading'[e] = None /\ floor'[e] = 0
  BY Zenon, <1>1, <1>3, <1>4 DEF ReadInv, Reads
<1>5. CASE creds'[e] = creds[e] /\ reading'[e] = reading[e] /\ floor'[e] = floor[e]
  <2>1. Between(e, reading[e]) => Between(e, reading[e])'
    BY Zenon, <1>2, <1>3, <1>5 DEF Between
  <2>2. Whole(e) => Whole(e)'
    BY Zenon, <1>5 DEF Whole, Forgets
  <2> QED BY Zenon, <1>1, <1>3, <1>5, <2>1, <2>2 DEF ReadInv, Reads
<1> QED BY Zenon, <1>4, <1>5 DEF Forgets

\* No step but the operator's makes a leaf expire or a file change, and a handshake
\* that begins finds the files as they are.
LEMMA ExpiryKept ==
  ASSUME ExpiryInv, UNCHANGED <<disk, gen, expired>>, Ends' = Ends,
         \A e \in Ends : reading'[e] # None =>
            \/ reading[e] # None /\ floor'[e] = floor[e]
            \/ RolledOut(e[1]) => floor'[e] = gen
  PROVE  ExpiryInv'
<1>1. CASE expired < gen
  BY Zenon, <1>1 DEF ExpiryInv
<1>2. CASE /\ expired = gen
           /\ \A s \in DOMAIN disk : RolledOut(s)
           /\ \A e \in Ends : reading[e] # None => floor[e] = gen
  <2>1. \A s \in DOMAIN disk' : RolledOut(s)'
    BY Zenon, <1>2 DEF RolledOut
  <2>2. \A e \in Ends : e[1] \in DOMAIN disk
    BY Zenon DEF Ends
  <2>3. \A e \in Ends' : reading'[e] # None => floor'[e] = gen'
    BY Zenon, <1>2, <2>2
  <2> QED BY Zenon, <1>2, <2>1, <2>3 DEF ExpiryInv
<1> QED BY Zenon, <1>1, <1>2 DEF ExpiryInv

\* The other services keep what they have of the lock.
LEMMA FreedOthers ==
  ASSUME NEW s, NEW t, t # s
  PROVE  /\ lock.holder = t => Freed(s).holder = t
         /\ t \in lock.lost => t \in Freed(s).lost
BY DEF Freed

\* The end of a process frees the lock and takes its connections and credentials.
LEMMA ExitStep ==
  ASSUME LifecycleInv, NEW s \in Deployed, Exit(s)
  PROVE  LifecycleInv'
<1>1. ProcessOK
  BY Zenon DEF LifecycleInv
<1>2. 1 \in DOMAIN Boot[s]
  <2>1. Len(Boot[s]) \in Nat /\ Len(Boot[s]) > 0 /\ DOMAIN Boot[s] = 1..Len(Boot[s])
    BY Zenon, <1>1, Services
  <2> QED BY <2>1
<1>3. /\ phase' \in [Deployed -> Phases] /\ DOMAIN phase' = Deployed /\ phase'[s] = "down"
      /\ \A t \in Deployed \ {s} : phase'[t] = phase[t]
  <2>1. phase \in [Deployed -> Phases] /\ phase' = [phase EXCEPT ![s] = "down"]
    BY Zenon, <1>1 DEF ProcessOK, Exit
  <2> QED BY <2>1 DEF Phases
<1>4. /\ DOMAIN step' = Deployed /\ step'[s] = 1
      /\ \A t \in Deployed \ {s} : step'[t] = step[t]
  BY Zenon, <1>1 DEF ProcessOK, Exit
<1>5. /\ DOMAIN call' = Deployed /\ call'[s] = "none"
      /\ \A t \in Deployed \ {s} : call'[t] = call[t]
  BY Zenon, <1>1 DEF ProcessOK, Exit
<1>6. Placed
  BY Zenon, <1>1, <1>2, <1>3, <1>4 DEF Placed, ProcessOK, Deployed
<1>7. ProcessOK'
  <2>1. /\ DOMAIN disk' = DOMAIN disk /\ DOMAIN signalled' = Deployed /\ DOMAIN conn' = Deployed
        /\ DOMAIN creds' = Ends /\ DOMAIN reading' = Ends /\ DOMAIN floor' = Ends
    BY Zenon, <1>1 DEF ProcessOK, Exit
  <2> QED BY Zenon, <1>1, <1>5, <1>6, <2>1, PlacesKept
<1>8. DiskInv'
  BY Zenon DEF LifecycleInv, DiskInv, Exit
<1>9. Deployed' = Deployed /\ Ends' = Ends
  BY Zenon, <1>6 DEF Placed, Ends, Exit
<1>10. ASSUME NEW t \in Deployed PROVE HoldsLock(t)'
  <2> SUFFICES ASSUME Locked(t)' PROVE lock'.holder = t \/ t \in lock'.lost
    BY Zenon DEF HoldsLock
  <2>1. t # s /\ Locked(t)
    BY Zenon, <1>3, <1>4, <1>9 DEF Locked, Booting, At
  <2>2. lock.holder = t \/ t \in lock.lost
    BY Zenon, <2>1 DEF LifecycleInv, HoldsLock
  <2>3. /\ lock.holder = t => lock'.holder = t
        /\ t \in lock.lost => t \in lock'.lost
    BY Zenon, <2>1, FreedOthers DEF Exit
  <2> QED BY Zenon, <2>2, <2>3
<1>11. \A c \in Deployed' : Served(c)'
  <2>1. \A c \in Deployed : conn'[c] => conn[c] /\ ~Calls(c, s)
    BY Zenon DEF Exit
  <2>2. \A c \in Deployed : Connects(c)
    BY Zenon, <2>1 DEF Connects
  <2> QED BY Zenon, <1>3, <1>9, <2>1, <2>2, ServedKept
<1>12. AcceptedCallsFinish'
  BY Zenon, <1>3, <1>5, <1>9 DEF AcceptedCallsFinish, LifecycleInv
<1>13. ExpiryInv' /\ \A e \in Ends : ReadInv(e)'
  <2>1. UNCHANGED <<disk, gen, expired>>
    BY Zenon DEF Exit
  <2>2. ASSUME NEW e \in Ends PROVE Forgets(e)
    <3>1. CASE reading'[e] = None
      BY Zenon, <2>1, <3>1 DEF Exit, Forgets
    <3>2. CASE reading'[e] # None
      BY Zenon, <2>1, <3>2 DEF Exit, Forgets
    <3> QED BY Zenon, <3>1, <3>2
  <2>3. \A e \in Ends : reading'[e] # None => reading[e] # None /\ floor'[e] = floor[e]
    BY Zenon, <2>2 DEF Forgets
  <2> QED BY Zenon, <1>9, <2>1, <2>2, <2>3, ExpiryKept, ReadForgotten DEF LifecycleInv
<1>14. \A e \in Ends' : Loaded(e)'
  <2>1. ASSUME NEW e \in Ends, creds'[e] # None PROVE creds[e] # None /\ Onward(e[1])
    <3>1. e[1] # s /\ creds'[e] = creds[e]
      BY Zenon, <2>1 DEF Exit
    <3>2. e[1] \in Deployed
      BY Zenon, <1>1 DEF ProcessOK, Ends
    <3> QED BY Zenon, <1>3, <1>4, <2>1, <3>1, <3>2 DEF Onward
  <2> QED BY Zenon, <1>9, <2>1, LoadedKept
<1> QED BY Zenon, <1>7, <1>8, <1>9, <1>10, <1>11, <1>12, <1>13, <1>14 DEF LifecycleInv

-----------------------------------------------------------------------------
(* Steps that leave the files, and what has been read of them, alone.      *)

\* What such a step has to respect.
Respects ==
  /\ Placed
  /\ DOMAIN signalled' = Deployed /\ DOMAIN call' = Deployed /\ DOMAIN conn' = Deployed
  /\ \A t \in Deployed : HoldsLock(t)'
  /\ \A c \in Deployed : Connects(c)
  /\ \A s \in Deployed : phase[s] = "serve" =>
        phase'[s] = "serve" \/ \A c \in Deployed : Calls(c, s) => ~conn'[c]
  /\ \A s \in Deployed : phase'[s] = "close" => call'[s] = "none"
  /\ \A t \in Deployed : phase[t] = "down" \/ Onward(t)

\* What a step does to the files, to what has been read and to the credentials, if
\* it gives those only past their step of the boot.
FilesKept ==
  /\ DOMAIN disk' = DOMAIN disk /\ DiskInv' /\ ExpiryInv'
  /\ DOMAIN creds' = Ends /\ DOMAIN reading' = Ends /\ DOMAIN floor' = Ends
  /\ \A e \in Ends : ReadInv(e)' /\ (creds'[e] # None => creds[e] # None \/ Loaded(e)')

\* Then it keeps the invariant.
LEMMA ReadStep ==
  ASSUME LifecycleInv, FilesKept, Respects
  PROVE  LifecycleInv'
<1>1. ProcessOK
  BY Zenon DEF LifecycleInv
<1>2. ProcessOK'
  <2>1. /\ Placed /\ DOMAIN disk' = DOMAIN disk
        /\ DOMAIN signalled' = Deployed /\ DOMAIN call' = Deployed /\ DOMAIN conn' = Deployed
        /\ DOMAIN creds' = Ends /\ DOMAIN reading' = Ends /\ DOMAIN floor' = Ends
    BY Zenon DEF Respects, FilesKept
  <2> QED BY Zenon, <1>1, <2>1, PlacesKept
<1>3. Deployed' = Deployed /\ Ends' = Ends
  BY Zenon DEF Respects, FilesKept, Placed, Ends
<1>4. DiskInv' /\ ExpiryInv' /\ \A e \in Ends : ReadInv(e)'
  BY Zenon DEF FilesKept
<1>5. \A c \in Deployed' : Served(c)'
  BY Zenon, <1>3, ServedKept DEF Respects
<1>6. AcceptedCallsFinish'
  BY Zenon, <1>3 DEF AcceptedCallsFinish, Respects
<1>7. \A e \in Ends' : Loaded(e)'
  <2>1. ASSUME NEW e \in Ends, creds'[e] # None, ~Loaded(e)'
        PROVE  creds[e] # None /\ Onward(e[1])
    <3>1. creds[e] # None /\ e[1] \in Deployed
      BY Zenon, <1>1, <2>1 DEF ProcessOK, Ends, FilesKept
    <3>2. phase[e[1]] # "down"
      BY Zenon, <3>1 DEF LifecycleInv, Loaded
    <3> QED BY Zenon, <3>1, <3>2 DEF Respects
  <2> QED BY Zenon, <1>3, <2>1, LoadedKept
<1>8. \A t \in Deployed : HoldsLock(t)'
  BY Zenon DEF Respects
<1> QED BY Zenon, <1>2, <1>3, <1>4, <1>5, <1>6, <1>7, <1>8 DEF LifecycleInv

\* So does one that leaves all of that alone.
LEMMA RespectedStep ==
  ASSUME LifecycleInv, UNCHANGED rotation, Respects
  PROVE  LifecycleInv'
<1>1. DOMAIN creds' = Ends /\ DOMAIN reading' = Ends /\ DOMAIN floor' = Ends
  BY Zenon DEF LifecycleInv, ProcessOK, rotation
<1>2. UNCHANGED <<disk, gen, expired, creds, reading, floor>> /\ Ends' = Ends
  BY Zenon DEF rotation, Ends
<1>3. DiskInv'
  BY Zenon, <1>2 DEF LifecycleInv, DiskInv
<1>4. ExpiryInv'
  BY Zenon, <1>2, ExpiryKept DEF LifecycleInv
<1>5. \A e \in Ends : Forgets(e)
  BY Zenon, <1>2 DEF Forgets
<1>6. \A e \in Ends : ReadInv(e)' /\ (creds'[e] # None => creds[e] # None)
  BY Zenon, <1>2, <1>5, ReadForgotten
<1> QED BY Zenon, <1>1, <1>2, <1>3, <1>4, <1>6, ReadStep DEF FilesKept

\* The next step of a boot, in which the lock is as it should be afterwards.
LEMMA BootRespects ==
  ASSUME LifecycleInv, UNCHANGED <<signalled, conn>>, NEW s \in Deployed,
         phase[s] = "boot", Advance(s), DOMAIN call' = Deployed,
         \A t \in Deployed \ {s} : call'[t] = call[t],
         \A t \in Deployed : HoldsLock(t)'
  PROVE  Respects
<1>1. ProcessOK
  BY Zenon DEF LifecycleInv
<1>2. Walked(s)
  BY Zenon, <1>1, AdvanceWalks
<1>3. DOMAIN signalled' = Deployed /\ DOMAIN conn' = Deployed
  BY Zenon, <1>1 DEF ProcessOK
<1>4. \A t \in Deployed : phase[t] = "serve" => phase'[t] = "serve"
  BY Zenon, <1>2 DEF Walked
<1>5. \A t \in Deployed : phase'[t] = "close" => call'[t] = "none"
  BY Zenon, <1>2 DEF Walked, LifecycleInv, AcceptedCallsFinish
<1>6. \A t \in Deployed : Onward(t) /\ Connects(t)
  BY Zenon, <1>2 DEF Walked, Onward, Connects
<1> QED BY Zenon, <1>2, <1>3, <1>4, <1>5, <1>6 DEF Respects, Walked

\* It keeps the invariant when it reads no file.
LEMMA BootAdvances ==
  ASSUME LifecycleInv, UNCHANGED <<rotation, signalled, conn>>, NEW s \in Deployed,
         phase[s] = "boot", Advance(s), DOMAIN call' = Deployed,
         \A t \in Deployed \ {s} : call'[t] = call[t],
         \A t \in Deployed : HoldsLock(t)'
  PROVE  LifecycleInv'
BY Zenon, BootRespects, RespectedStep

\* The lock does not change while a service boots past another step.
LEMMA OtherBootStep ==
  ASSUME LifecycleInv, NEW s \in Deployed, phase[s] = "boot", Advance(s), lock' = lock,
         At(s) # "lock"
  PROVE  \A t \in Deployed : HoldsLock(t)'
<1>1. ProcessOK /\ Walked(s)
  BY Zenon, AdvanceWalks DEF LifecycleInv
<1>2. Locked(s)' => At(s) = "migrate"
  BY Zenon, <1>1, WalkedLocked
<1>3. At(s) = "migrate" => Locked(s)
  BY Zenon DEF Locked, Booting
<1>4. \A t \in Deployed : Locked(t)' => Locked(t)
  BY Zenon, <1>1, <1>2, <1>3, WalkedLocked
<1>5. Deployed' = Deployed
  BY Zenon, <1>1 DEF Walked, Placed
<1> QED BY Zenon, <1>4, <1>5, LockKept

\* TakeLock finds the lock free, so a service between it and Unlock has lost its
\* session; Unlock leaves with the lock or without it.
LEMMA LockSteps ==
  ASSUME LifecycleInv, NEW s \in Deployed, TakeLock(s) \/ Unlock(s)
  PROVE  LifecycleInv'
<1>1. ProcessOK
  BY Zenon DEF LifecycleInv
<1>2. /\ UNCHANGED <<rotation, signalled, conn>> /\ phase[s] = "boot" /\ Advance(s)
      /\ call' = call
  BY Zenon DEF TakeLock, Unlock, Booting
<1>3. Walked(s) /\ DOMAIN call' = Deployed
  BY Zenon, <1>1, <1>2, AdvanceWalks DEF ProcessOK
<1>4. \A t \in Deployed \ {s} : Locked(t)' => Locked(t)
  BY Zenon, <1>1, <1>2, <1>3, WalkedLocked
<1>5. \A t \in Deployed : Locked(t) => lock.holder = t \/ t \in lock.lost
  BY Zenon DEF LifecycleInv, HoldsLock
<1>6. \A t \in Deployed : HoldsLock(t)'
  <2>1. CASE TakeLock(s)
    <3>1. lock.holder = None /\ lock'.holder = s /\ lock'.lost = lock.lost
      BY <2>1 DEF TakeLock
    <3>2. None \notin Deployed
      BY Zenon, <1>1, Services
    <3> QED BY Zenon, <1>4, <1>5, <3>1, <3>2 DEF HoldsLock
  <2>2. CASE Unlock(s)
    <3>1. At(s) = "unlock" /\ Locked(s)
      BY Zenon, <2>2 DEF Unlock, Locked, Booting
    <3>2. lock' \in {lock, Freed(s)}
      BY Zenon, <2>2 DEF Unlock
    <3>3. Locked(s)' => At(s) \in {"lock", "migrate"}
      BY Zenon, <1>1, <1>2, <1>3, WalkedLocked
    <3>4. ~Locked(s)'
      BY <3>1, <3>3
    <3>5. \A t \in Deployed \ {s} : /\ lock.holder = t => lock'.holder = t
                                    /\ t \in lock.lost => t \in lock'.lost
      BY Zenon, <3>2, FreedOthers
    <3>6. ASSUME NEW t \in Deployed, Locked(t)' PROVE lock'.holder = t \/ t \in lock'.lost
      <4>1. t # s
        BY Zenon, <3>4, <3>6
      <4>2. lock.holder = t \/ t \in lock.lost
        BY Zenon, <1>4, <1>5, <3>6, <4>1
      <4> QED BY Zenon, <3>5, <4>1, <4>2
    <3> QED BY Zenon, <3>6 DEF HoldsLock
  <2> QED BY Zenon, <2>1, <2>2
<1> QED BY Zenon, <1>2, <1>3, <1>6, BootAdvances

\* A step that leaves every service where it is, and the call of one that has
\* drained alone.
LEMMA CallRespects ==
  ASSUME LifecycleInv, UNCHANGED <<phase, step, signalled>>,
         \A t \in Deployed : HoldsLock(t)',
         DOMAIN call' = Deployed, DOMAIN conn' = Deployed,
         \A c \in Deployed : Connects(c),
         \A t \in Deployed : phase[t] = "close" => call'[t] = call[t]
  PROVE  Respects
<1>1. Placed /\ \A t \in Deployed : Onward(t)
  BY Zenon DEF Placed, Deployed, Onward, LifecycleInv, ProcessOK
<1> QED BY Zenon, <1>1 DEF Respects, ProcessOK, LifecycleInv, AcceptedCallsFinish

\* It keeps the invariant when it reads no file and makes no connection.
LEMMA CallStep ==
  ASSUME LifecycleInv, UNCHANGED <<rotation, phase, step, signalled>>,
         \A t \in Deployed : HoldsLock(t)',
         DOMAIN call' = Deployed, DOMAIN conn' = Deployed,
         \A c \in Deployed : conn'[c] => conn[c],
         \A t \in Deployed : phase[t] = "close" => call'[t] = call[t]
  PROVE  LifecycleInv'
<1>1. \A c \in Deployed : Connects(c)
  BY Zenon DEF Connects
<1> QED BY Zenon, <1>1, CallRespects, RespectedStep

\* As long as it keeps the lock, a service that keeps its place has it.
LEMMA PlaceKeepsLock ==
  ASSUME LifecycleInv, UNCHANGED <<phase, step, lock>>
  PROVE  \A t \in Deployed : HoldsLock(t)'
BY Zenon DEF LifecycleInv, HoldsLock, Locked, Booting, At, Deployed

\* The steps of a boot that neither take nor give back the lock, and read no file.
LEMMA BootSteps ==
  ASSUME LifecycleInv, NEW s \in Deployed,
         BootStep(s) \/ ResumeBegins(s) \/ ResumeEnds(s)
  PROVE  LifecycleInv'
<1>1. ProcessOK /\ DOMAIN call = Deployed
  BY Zenon DEF LifecycleInv, ProcessOK
<1>2. phase[s] = "boot" /\ At(s) # "lock"
  <2>1. CASE BootStep(s)
    BY <2>1 DEF BootStep, Booting
  <2>2. CASE ResumeBegins(s) \/ ResumeEnds(s)
    BY <2>2 DEF ResumeBegins, ResumeEnds, Booting
  <2> QED BY Zenon, <2>1, <2>2
<1>3. CASE Advance(s) /\ UNCHANGED <<rotation, signalled, lock, conn>>
           /\ (call' = call \/ call' = [call EXCEPT ![s] = "none"])
  <2>1. \A t \in Deployed : HoldsLock(t)'
    BY Zenon, <1>2, <1>3, OtherBootStep
  <2>2. DOMAIN call' = Deployed /\ \A t \in Deployed \ {s} : call'[t] = call[t]
    BY Zenon, <1>1, <1>3
  <2> QED BY Zenon, <1>2, <1>3, <2>1, <2>2, BootAdvances
<1>4. CASE /\ UNCHANGED <<rotation, phase, step, signalled, lock, conn>>
           /\ call' = [call EXCEPT ![s] = "ask"]
  <2>1. DOMAIN call' = Deployed /\ DOMAIN conn' = Deployed
    BY Zenon, <1>1, <1>4 DEF ProcessOK
  <2>2. \A t \in Deployed : phase[t] = "close" => call'[t] = call[t]
    BY Zenon, <1>1, <1>2, <1>4
  <2> QED BY Zenon, <1>4, <2>1, <2>2, PlaceKeepsLock, CallStep
<1>5. CASE Exit(s)
  BY Zenon, <1>5, ExitStep
<1> QED BY Zenon, <1>3, <1>4, <1>5 DEF BootStep, ResumeBegins, ResumeEnds

\* A process that is started is at the first step of its boot, without credentials.
LEMMA StartStep ==
  ASSUME LifecycleInv, NEW s \in Deployed, Start(s)
  PROVE  LifecycleInv'
<1>1. ProcessOK
  BY Zenon DEF LifecycleInv
<1>2. /\ phase \in [Deployed -> Phases] /\ DOMAIN step = Deployed
      /\ \A t \in Deployed : step[t] \in DOMAIN Boot[t]
  BY Zenon, <1>1 DEF ProcessOK
<1>3. InOrder(Boot[s]) /\ Len(Boot[s]) \in Nat /\ Len(Boot[s]) > 0 /\ DOMAIN Boot[s] = 1..Len(Boot[s])
  BY Zenon, <1>1, Services
<1>4. 1 \in DOMAIN Boot[s] /\ Boot[s][1] \notin {"migrate", "unlock"}
  BY <1>3 DEF InOrder
<1>5. phase' = [phase EXCEPT ![s] = "boot"] /\ step' = [step EXCEPT ![s] = 1]
  BY Zenon DEF Start
<1>6. /\ phase' \in [Deployed -> Phases] /\ DOMAIN phase' = Deployed /\ phase'[s] = "boot"
      /\ \A t \in Deployed \ {s} : phase'[t] = phase[t]
  BY <1>2, <1>5 DEF Phases
<1>7. DOMAIN step' = Deployed /\ step'[s] = 1 /\ \A t \in Deployed \ {s} : step'[t] = step[t]
  BY Zenon, <1>2, <1>5
<1>8. Placed
  BY Zenon, <1>2, <1>4, <1>6, <1>7 DEF Placed, Deployed
<1>9. \A t \in Deployed : Locked(t)' => Locked(t)
  BY Zenon, <1>4, <1>6, <1>7, <1>8 DEF Placed, Locked, Booting, At
<1>10. Deployed' = Deployed /\ lock' = lock /\ phase[s] = "down"
  BY Zenon, <1>8 DEF Placed, Start
<1>11. \A t \in Deployed : HoldsLock(t)'
  BY Zenon, <1>9, <1>10, LockKept
<1>12. \A t \in Deployed : /\ phase[t] = "serve" => phase'[t] = "serve"
                           /\ phase'[t] = "close" => phase[t] = "close"
                           /\ phase[t] = "down" \/ Onward(t)
  BY Zenon, <1>6, <1>7, <1>10 DEF Onward
<1>13. UNCHANGED <<rotation, signalled, call, conn>>
  BY Zenon DEF Start
<1>14. Respects
  BY Zenon, <1>1, <1>8, <1>11, <1>12, <1>13 DEF Respects, Connects, ProcessOK, LifecycleInv, AcceptedCallsFinish
<1> QED BY Zenon, <1>13, <1>14, RespectedStep

\* Calls to a service upstream: a drained server has no connection on which one
\* could come.
LEMMA AskSteps ==
  ASSUME LifecycleInv, NEW s \in Deployed, NEW u \in Deployed, Ask(s, u) \/ Receive(s, u)
  PROVE  LifecycleInv'
<1>1. DOMAIN call = Deployed /\ DOMAIN conn = Deployed
  BY Zenon DEF LifecycleInv, ProcessOK
<1>2. \A t \in Deployed : phase[t] = "close" => call[t] = "none"
  BY Zenon DEF LifecycleInv, AcceptedCallsFinish
<1>3. UNCHANGED <<rotation, phase, step, signalled, lock, conn>>
  BY Zenon DEF Ask, Receive
<1>4. PICK x, y : call' = [call EXCEPT ![s] = x, ![u] = y] /\ (Receive(s, u) => y = "none")
  <2>1. CASE Ask(s, u) /\ ~Receive(s, u)
    BY Zenon, <2>1 DEF Ask
  <2>2. CASE Receive(s, u)
    BY Zenon, <2>2 DEF Receive
  <2> QED BY Zenon, <2>1, <2>2
<1>5. phase[s] # "close"
  <2>1. call[s] # "none"
    BY DEF Ask, Receive
  <2> QED BY Zenon, <1>2, <2>1
<1>6. Ask(s, u) => phase[u] # "close"
  BY DEF Ask, LifecycleInv, Served
<1>7. /\ DOMAIN call' = Deployed
      /\ \A t \in Deployed : phase[t] = "close" => call'[t] = call[t]
  <2>1. DOMAIN call' = Deployed /\ \A t \in Deployed \ {s, u} : call'[t] = call[t]
    BY Zenon, <1>1, <1>4
  <2>2. u # s => call'[u] = y
    BY Zenon, <1>1, <1>4
  <2>3. phase[u] = "close" => call'[u] = call[u]
    BY Zenon, <1>2, <1>4, <1>5, <1>6, <2>2
  <2> QED BY Zenon, <1>5, <2>1, <2>3
<1> QED BY Zenon, <1>1, <1>3, <1>7, PlaceKeepsLock, CallStep

\* Calls from outside, the work of a handler, and broken connections.
LEMMA CallSteps ==
  ASSUME LifecycleInv, NEW s \in Deployed, Arrive(s) \/ Handle(s) \/ Disconnect(s)
  PROVE  LifecycleInv'
<1>1. DOMAIN call = Deployed /\ DOMAIN conn = Deployed
  BY Zenon DEF LifecycleInv, ProcessOK
<1>2. \A t \in Deployed : phase[t] = "close" => call[t] = "none"
  BY Zenon DEF LifecycleInv, AcceptedCallsFinish
<1>3. CASE Arrive(s) \/ Handle(s)
  <2>1. PICK x : call' = [call EXCEPT ![s] = x]
    BY Zenon, <1>3 DEF Arrive, Handle, Sets
  <2>2. UNCHANGED <<rotation, phase, step, signalled, lock, conn>>
    BY Zenon, <1>3 DEF Arrive, Handle
  <2>3. phase[s] # "close"
    <3>1. phase[s] = "serve" \/ call[s] # "none"
      BY <1>3 DEF Arrive, Handle
    <3> QED BY Zenon, <1>2, <3>1
  <2>4. /\ DOMAIN call' = Deployed
        /\ \A t \in Deployed : phase[t] = "close" => call'[t] = call[t]
    BY Zenon, <1>1, <2>1, <2>3
  <2> QED BY Zenon, <1>1, <2>2, <2>4, PlaceKeepsLock, CallStep
<1>4. CASE Disconnect(s)
  <2>1. UNCHANGED <<rotation, phase, step, signalled, lock>> /\ conn' = [conn EXCEPT ![s] = FALSE]
    BY Zenon, <1>4 DEF Disconnect
  <2>2. call' = [call EXCEPT ![s] = IF call[s] = "wait" THEN "failed" ELSE call[s]]
    BY Zenon, <1>4 DEF Disconnect
  <2>3. DOMAIN conn' = Deployed /\ \A c \in Deployed : conn'[c] => conn[c]
    BY Zenon, <1>1, <2>1
  <2>4. phase[s] = "close" => call[s] # "wait"
    BY <1>2
  <2>5. /\ DOMAIN call' = Deployed
        /\ \A t \in Deployed : phase[t] = "close" => call'[t] = call[t]
    BY Zenon, <1>1, <2>2, <2>4
  <2> QED BY Zenon, <2>1, <2>3, <2>5, PlaceKeepsLock, CallStep
<1> QED BY Zenon, <1>3, <1>4

\* The steps of a service that stops serving: they hang up before anything else,
\* and only a service without a call is drained.
LEMMA StopSteps ==
  ASSUME LifecycleInv, NEW s \in Deployed,
         Signal(s) \/ ListenerFails(s) \/ Drained(s) \/ DrainTimesOut(s)
  PROVE  LifecycleInv'
<1>1. ProcessOK
  BY Zenon DEF LifecycleInv
<1>2. UNCHANGED <<rotation, step, lock, call>>
  BY Zenon DEF Signal, ListenerFails, Drained, DrainTimesOut
<1>3. DOMAIN signalled' = Deployed /\ DOMAIN call' = Deployed
  BY Zenon, <1>1 DEF ProcessOK, Signal, ListenerFails, Drained, DrainTimesOut
<1>4. CASE phase' = phase
  <2>1. conn' = conn
    <3>1. \A x : x # phase[s] => phase # [phase EXCEPT ![s] = x]
      BY Zenon, <1>1 DEF ProcessOK
    <3>2. Signal(s) /\ ~(phase[s] = "serve" /\ phase' = [phase EXCEPT ![s] = "drain"])
      BY <1>4, <3>1 DEF Signal, ListenerFails, Drained, DrainTimesOut
    <3> QED BY Zenon, <3>2 DEF Signal
  <2>2. /\ DOMAIN conn' = Deployed /\ \A c \in Deployed : conn'[c] => conn[c]
        /\ \A t \in Deployed : phase[t] = "close" => call'[t] = call[t]
    BY Zenon, <1>1, <1>2, <2>1 DEF ProcessOK
  <2>3. Placed /\ \A t \in Deployed : Onward(t)
    BY Zenon, <1>1, <1>2, <1>4 DEF Placed, Deployed, Onward, ProcessOK
  <2>4. \A t \in Deployed : HoldsLock(t)'
    BY Zenon, <1>2, <1>4, PlaceKeepsLock
  <2>5. Respects
    BY Zenon, <1>2, <1>3, <1>4, <2>2, <2>3, <2>4 DEF Respects, Connects, LifecycleInv, AcceptedCallsFinish
  <2> QED BY Zenon, <1>2, <2>5, RespectedStep
<1>5. ASSUME NEW x \in {"drain", "close", "abort"}, phase' = [phase EXCEPT ![s] = x],
             DOMAIN conn' = Deployed, \A c \in Deployed : conn'[c] => conn[c],
             phase[s] = "serve" => \A c \in Deployed : Calls(c, s) => ~conn'[c],
             x = "close" => call[s] = "none"
      PROVE  LifecycleInv'
  <2>1. x \in Phases \ {"boot"} /\ x # "down"
    BY <1>5 DEF Phases
  <2>2. /\ Placed /\ phase'[s] = x
        /\ \A t \in Deployed \ {s} : phase'[t] = phase[t]
        /\ \A t \in Deployed : Locked(t)' => Locked(t)
    BY Zenon, <1>1, <1>2, <1>5, <2>1, PhaseMoves
  <2>3. \A t \in Deployed : HoldsLock(t)'
    BY Zenon, <1>2, <2>2, LockKept DEF Placed
  <2>4. \A t \in Deployed : Onward(t)
    BY Zenon, <1>2, <2>1, <2>2 DEF Onward
  <2>5. \A t \in Deployed : phase'[t] = "close" => call'[t] = "none"
    BY Zenon, <1>2, <1>5, <2>2 DEF LifecycleInv, AcceptedCallsFinish
  <2>6. Respects
    BY Zenon, <1>3, <1>5, <2>2, <2>3, <2>4, <2>5 DEF Respects, Connects
  <2> QED BY Zenon, <1>2, <2>6, RespectedStep
<1>6. CASE HangUp(s) /\ (Signal(s) \/ ListenerFails(s))
  <2>1. /\ DOMAIN conn' = Deployed /\ \A c \in Deployed : conn'[c] => conn[c]
        /\ \A c \in Deployed : Calls(c, s) => ~conn'[c]
    BY Zenon, <1>6 DEF HangUp
  <2>2. CASE phase' = [phase EXCEPT ![s] = "drain"] \/ phase' = [phase EXCEPT ![s] = "abort"]
    <3>1. PICK x : x \in {"drain", "abort"} /\ phase' = [phase EXCEPT ![s] = x]
      BY Zenon, <2>2
    <3>2. x \in {"drain", "close", "abort"} /\ x # "close"
      BY <3>1
    <3> QED BY Zenon, <1>5, <2>1, <3>1, <3>2
  <2> QED BY Zenon, <1>4, <1>6, <2>2 DEF Signal, ListenerFails
<1>7. CASE Drained(s) \/ DrainTimesOut(s)
  <2>1. conn' = conn /\ DOMAIN conn = Deployed /\ phase[s] # "serve"
    BY <1>1, <1>7 DEF Drained, DrainTimesOut, ProcessOK
  <2>2. CASE Drained(s)
    BY Zenon, <1>5, <2>1, <2>2 DEF Drained
  <2>3. CASE DrainTimesOut(s)
    <3>1. phase' = [phase EXCEPT ![s] = "abort"] /\ "abort" # "close"
      BY Zenon, <2>3 DEF DrainTimesOut
    <3> QED BY Zenon, <1>5, <2>1, <3>1
  <2> QED BY Zenon, <1>7, <2>2, <2>3
<1> QED BY Zenon, <1>4, <1>6, <1>7 DEF Signal, ListenerFails

\* A session of the pool ends, and with it a lock that no migration needs, or the
\* lock of a migration that goes on without it.
LEMMA SessionSteps ==
  ASSUME LifecycleInv, NEW s \in Deployed, SessionEnds(s) \/ SessionLost(s)
  PROVE  LifecycleInv'
<1>1. UNCHANGED <<rotation, phase, step, signalled, call, conn>> /\ lock.holder = s
  BY Zenon DEF SessionEnds, SessionLost
<1>2. DOMAIN call' = Deployed /\ DOMAIN conn' = Deployed
  BY Zenon, <1>1 DEF LifecycleInv, ProcessOK
<1>3. \A t \in Deployed : Locked(t)' => Locked(t)
  BY Zenon, <1>1 DEF Locked, Booting, At, Deployed
<1>4. \A t \in Deployed : Locked(t) => lock.holder = t \/ t \in lock.lost
  BY Zenon DEF LifecycleInv, HoldsLock
<1>5. CASE SessionEnds(s)
  <2>1. lock' = Freed(s) /\ ~Locked(s)
    BY Zenon, <1>5 DEF SessionEnds
  <2>2. \A t \in Deployed : HoldsLock(t)'
    BY Zenon, <1>3, <1>4, <2>1, FreedOthers DEF HoldsLock
  <2> QED BY Zenon, <1>1, <1>2, <2>2, CallStep
<1>6. CASE SessionLost(s)
  <2>1. s \in lock'.lost /\ \A t \in lock.lost : t \in lock'.lost
    BY <1>6 DEF SessionLost
  <2>2. \A t \in Deployed : HoldsLock(t)'
    BY Zenon, <1>1, <1>3, <1>4, <2>1 DEF HoldsLock
  <2> QED BY Zenon, <1>1, <1>2, <2>2, CallStep
<1> QED BY Zenon, <1>5, <1>6

\* The steps that end a process.
LEMMA EndSteps ==
  ASSUME LifecycleInv, NEW s \in Deployed,
         BootCancelled(s) \/ BootFails(s) \/ Close(s) \/ Kill(s)
  PROVE  LifecycleInv'
<1>1. Exit(s)
  BY Zenon DEF BootCancelled, BootFails, Close, Kill
<1> QED BY Zenon, <1>1, ExitStep

-----------------------------------------------------------------------------
(* The files and what is read of them.                                     *)

\* What a copy of some of the files has.
LEMMA CopyHas ==
  ASSUME NEW m \in Copies
  PROVE  /\ DOMAIN m \subseteq FileNames
         /\ m = [name \in DOMAIN m |-> m[name]]
         /\ "cert" \in DOMAIN m => m["cert"] \in Leaves
         /\ "key" \in DOMAIN m => m["key"] \in Leaves
         /\ "ca" \in DOMAIN m => m["ca"] \in Bundles
<1>1. PICK names \in SUBSET FileNames, cert \in Leaves, key \in Leaves, ca \in Bundles :
        m = Copy(names, cert, key, ca)
  BY SMT DEF Copies
<1>2. DOMAIN m = names
  BY Zenon, <1>1 DEF Copy
<1>6. m = [name \in DOMAIN m |-> m[name]]
  BY <1>1, <1>2 DEF Copy
<1>3. "cert" \in names => m["cert"] = cert
  BY <1>1 DEF Copy, Content
<1>4. "key" \in names => m["key"] = key
  BY <1>1 DEF Copy, Content
<1>5. "ca" \in names => m["ca"] = ca
  BY <1>1 DEF Copy, Content
<1> QED BY Zenon, <1>2, <1>3, <1>4, <1>5, <1>6

\* And whatever has that is a copy.
LEMMA IsCopy ==
  ASSUME NEW m, DOMAIN m \subseteq FileNames, m = [name \in DOMAIN m |-> m[name]],
         "cert" \in DOMAIN m => m["cert"] \in Leaves,
         "key" \in DOMAIN m => m["key"] \in Leaves,
         "ca" \in DOMAIN m => m["ca"] \in Bundles
  PROVE  m \in Copies
<1>1. None \in Leaves /\ \E ca : ca \in Bundles
  <2>1. 1 \in Generations
    BY Zenon, MaterialAssumption
  <2> QED BY <2>1 DEF Leaves, Bundles
<1>2. PICK cert \in Leaves : "cert" \in DOMAIN m => m["cert"] = cert
  BY Zenon, <1>1
<1>3. PICK key \in Leaves : "key" \in DOMAIN m => m["key"] = key
  BY Zenon, <1>1
<1>4. PICK ca \in Bundles : "ca" \in DOMAIN m => m["ca"] = ca
  BY Zenon, <1>1
<1>5. m = Copy(DOMAIN m, cert, key, ca)
  BY <1>2, <1>3, <1>4 DEF Copy, Content, FileNames
<1> QED BY SMT, <1>2, <1>3, <1>4, <1>5 DEF Copies

\* A generation is a copy that parses; its bundle has at least the CA that signed it.
LEMMA MaterialIsCopy ==
  ASSUME NEW g \in Generations
  PROVE  /\ Material(g) \in Copies /\ DOMAIN Material(g) = FileNames
         /\ Material(g).cert = g /\ Parses(Material(g)) /\ g \in Nat /\ g # 0
<1>1. /\ DOMAIN Material(g) = FileNames /\ Material(g) = [name \in DOMAIN Material(g) |-> Material(g)[name]]
      /\ Material(g)["cert"] = g /\ Material(g)["key"] = g /\ Material(g)["ca"] = Bundle[g]
  BY DEF Material, FileNames
<1>2. g \in Leaves /\ Bundle[g] \in Bundles
  BY Zenon DEF Leaves, Bundles
<1>3. Material(g) \in Copies
  BY Zenon, <1>1, <1>2, IsCopy
<1>4. g \in Nat /\ g # 0 /\ g # None
  BY MaterialAssumption
<1>5. Bundle[g] # <<>>
  <2>1. g - g \in {-1, 0, 1}
    BY <1>4
  <2>2. Issuer[g] \in Range(Bundle[g])
    BY Zenon, <2>1, OverlapAssumption DEF Generations
  <2>3. DOMAIN Bundle[g] # {}
    BY Zenon, <2>2 DEF Range
  <2>4. DOMAIN <<>> = {}
    OBVIOUS
  <2> QED BY Zenon, <2>3, <2>4
<1>6. Material(g).cert = g /\ Material(g).key = g /\ Material(g).ca = Bundle[g]
  BY DEF Material
<1> QED BY Zenon, <1>1, <1>3, <1>4, <1>5, <1>6 DEF Parses

\* Nothing read yet is a copy.
LEMMA NothingIsCopy == <<>> \in Copies
<1>1. DOMAIN <<>> = {} /\ <<>> = [name \in DOMAIN <<>> |-> <<>>[name]]
  OBVIOUS
<1>2. DOMAIN <<>> \subseteq FileNames /\ "cert" \notin DOMAIN <<>> /\ "key" \notin DOMAIN <<>>
      /\ "ca" \notin DOMAIN <<>>
  BY Zenon, <1>1
<1> QED BY Zenon, <1>1, <1>2, IsCopy

\* What a file may hold.
Fits(f, content) ==
  /\ f = "cert" => content \in Leaves
  /\ f = "key" => content \in Leaves
  /\ f = "ca" => content \in Bundles

Added(m, f, content) ==
  [name \in DOMAIN m \cup {f} |-> IF name = f THEN content ELSE m[name]]

\* A copy with one more file, or another content of one, is a copy.
LEMMA FileAdded ==
  ASSUME NEW m \in Copies, NEW f \in FileNames, NEW content, Fits(f, content), NEW o,
         o = Added(m, f, content)
  PROVE  o \in Copies /\ DOMAIN o = DOMAIN m \cup {f}
<1>1. DOMAIN o = DOMAIN m \cup {f}
  BY Zenon DEF Added
<1>2. o = [name \in DOMAIN o |-> o[name]]
  BY <1>1 DEF Added
<1>3. \A name \in DOMAIN o : o[name] = IF name = f THEN content ELSE m[name]
  BY Zenon, <1>1 DEF Added
<1>4. DOMAIN o \subseteq FileNames
  BY Zenon, <1>1, CopyHas
<1>5. "cert" \in DOMAIN o => o["cert"] \in Leaves
  BY Zenon, <1>1, <1>3, CopyHas DEF Fits
<1>6. "key" \in DOMAIN o => o["key"] \in Leaves
  BY Zenon, <1>1, <1>3, CopyHas DEF Fits
<1>7. "ca" \in DOMAIN o => o["ca"] \in Bundles
  BY Zenon, <1>1, <1>3, CopyHas DEF Fits
<1> QED BY Zenon, <1>1, <1>2, <1>4, <1>5, <1>6, <1>7, IsCopy

\* The files of a copy fit.
LEMMA CopyFits ==
  ASSUME NEW m \in Copies, NEW f \in DOMAIN m
  PROVE  Fits(f, m[f])
BY Zenon, CopyHas DEF Fits

\* What the operator writes fits: all of a file, or half of it.
LEMMA WrittenFits ==
  ASSUME gen \in Generations, NEW f \in FileNames, NEW content,
         content \in HalfWritten(f) \/ content = Material(gen)[f]
  PROVE  Fits(f, content)
<1>1. CASE content = Material(gen)[f]
  BY Zenon, <1>1, MaterialIsCopy, CopyFits
<1>2. CASE content \in HalfWritten(f)
  <2>1. f = "cert" => content \in Leaves
    BY <1>2 DEF HalfWritten, Leaves
  <2>2. f # "key"
    BY <1>2 DEF HalfWritten
  <2>3. f = "ca" => content \in ProperPrefixes(Bundle[gen])
    BY <1>2 DEF HalfWritten
  <2>4. f = "ca" => content \in Bundles
    BY <2>3 DEF Bundles
  <2> QED BY Zenon, <2>1, <2>2, <2>4 DEF Fits
<1> QED BY Zenon, <1>1, <1>2

\* The newest leaf of a service's files is of no later generation than the last.
LEMMA BoundIsNumber ==
  ASSUME DiskInv, NEW s \in DOMAIN disk
  PROVE  LeafBound(s) \in Int /\ LeafBound(s) <= gen
<1>1. PICK c, g : c = disk[s].cert /\ g = gen
  BY Zenon
<1>2. g \in Nat /\ g - 1 \in Int /\ g - 1 <= g
  <2>1. g \in Nat
    BY Zenon, <1>1, MaterialIsCopy DEF DiskInv
  <2> QED BY <2>1
<1>3. c # None => c \in Int /\ c <= g
  <2>1. disk[s] \in Copies /\ "cert" \in DOMAIN disk[s]
    BY DEF DiskInv, FileNames
  <2>2. c # None => c \in Nat
    BY Zenon, <1>1, <2>1, CopyHas, MaterialIsCopy DEF Leaves
  <2>3. c # None => c <= g
    BY Zenon, <1>1 DEF DiskInv
  <2> QED BY <2>2, <2>3
<1> QED BY Zenon, <1>1, <1>2, <1>3 DEF LeafBound

\* The operator has rewritten a file of s, and has not gone back.
Rewritten(s) ==
  /\ DOMAIN disk' = DOMAIN disk /\ DiskInv' /\ gen' = gen
  /\ \A t \in DOMAIN disk : t # s => disk'[t] = disk[t]
  /\ LeafBound(s) <= LeafBound(s)' /\ LeafBound(s)' \in Int

\* A write does that.
LEMMA WriteKeepsDisk ==
  ASSUME DiskInv, NEW s \in DOMAIN disk, NEW f \in FileNames, Write(s, f)
  PROVE  Rewritten(s)
<1>1. PICK content : /\ \/ content \in HalfWritten(f) /\ disk[s][f] = Material(gen - 1)[f]
                        \/ content = Material(gen)[f]
                     /\ disk' = [disk EXCEPT ![s][f] = content]
  BY Zenon DEF Write
<1>2. gen' = gen /\ gen \in Generations
  BY Zenon DEF Write, DiskInv
<1>3. Fits(f, content)
  BY Zenon, <1>1, <1>2, WrittenFits
<1>4. DOMAIN disk' = DOMAIN disk /\ \A t \in DOMAIN disk : t # s => disk'[t] = disk[t]
  BY Zenon, <1>1
<1>5. disk[s] \in Copies /\ DOMAIN disk[s] = FileNames
  BY Zenon DEF DiskInv
<1>6. disk'[s] = [name \in DOMAIN disk[s] \cup {f} |-> IF name = f THEN content ELSE disk[s][name]]
  <2>1. disk'[s] = [disk[s] EXCEPT ![f] = content]
    BY Zenon, <1>1
  <2>2. DOMAIN disk[s] \cup {f} = DOMAIN disk[s]
    BY Zenon, <1>5
  <2> QED BY <2>1, <2>2
<1>7. disk'[s] \in Copies /\ DOMAIN disk'[s] = FileNames
  <2>1. PICK m : m = disk[s]
    BY Zenon
  <2>2. PICK o : o = disk'[s]
    BY Zenon
  <2>3. m \in Copies /\ o = Added(m, f, content)
    BY Zenon, <1>5, <1>6, <2>1, <2>2 DEF Added
  <2>4. o \in Copies /\ DOMAIN o = DOMAIN m \cup {f}
    BY Zenon, <1>3, <2>3, FileAdded
  <2> QED BY Zenon, <1>5, <2>1, <2>2, <2>4
<1>8. PICK g : g = gen
  BY Zenon
<1>9. g \in Nat /\ g - 1 \in Int /\ g - 1 <= g - 1 /\ g - 1 <= g /\ g <= g /\ g # None
  <2>1. g \in Nat
    BY Zenon, <1>2, <1>8, MaterialIsCopy
  <2>2. g # None
    BY Zenon, <1>2, <1>8, MaterialAssumption
  <2> QED BY <2>1, <2>2
<1>10. LeafBound(s) \in Int /\ LeafBound(s) <= g
  BY Zenon, <1>8, BoundIsNumber
<1>11. CASE f # "cert"
  <2>1. disk'[s].cert = disk[s].cert
    BY <1>5, <1>6, <1>11 DEF FileNames
  <2>2. LeafBound(s)' = LeafBound(s)
    BY Zenon, <1>2, <2>1 DEF LeafBound
  <2>3. LeafBound(s) <= LeafBound(s)
    BY <1>10
  <2>4. disk'[s].cert # None => disk'[s].cert <= gen'
    BY Zenon, <1>2, <2>1 DEF DiskInv
  <2>5. DiskInv'
    BY Zenon, <1>2, <1>4, <1>7, <2>4 DEF DiskInv
  <2> QED BY Zenon, <1>2, <1>4, <1>10, <2>2, <2>3, <2>5 DEF Rewritten
<1>12. CASE f = "cert"
  <2>1. disk'[s].cert = content
    BY <1>5, <1>6, <1>12 DEF FileNames
  <2>2. CASE content \in HalfWritten(f) /\ disk[s][f] = Material(gen - 1)[f]
    <3>1. content = None
      BY <1>12, <2>2 DEF HalfWritten
    <3>2. disk[s].cert = g - 1
      BY <1>8, <1>12, <2>2 DEF Material
    <3>3. LeafBound(s) = g - 1 /\ LeafBound(s)' = g - 1
      BY Zenon, <1>2, <1>8, <2>1, <3>1, <3>2 DEF LeafBound
    <3>4. DiskInv'
      BY Zenon, <1>2, <1>4, <1>7, <2>1, <3>1 DEF DiskInv
    <3> QED BY Zenon, <1>2, <1>4, <1>9, <3>3, <3>4 DEF Rewritten
  <2>3. CASE content = Material(gen)[f]
    <3>1. content = g
      BY <1>8, <1>12, <2>3 DEF Material
    <3>2. LeafBound(s)' = g
      BY Zenon, <1>9, <2>1, <3>1 DEF LeafBound
    <3>3. DiskInv'
      BY Zenon, <1>2, <1>4, <1>7, <1>8, <1>9, <2>1, <3>1 DEF DiskInv
    <3>4. g \in Int
      BY <1>9
    <3> QED BY Zenon, <1>2, <1>4, <1>10, <3>2, <3>3, <3>4 DEF Rewritten
  <2> QED BY Zenon, <1>1, <2>2, <2>3
<1> QED BY Zenon, <1>11, <1>12

\* An end that reads has no older leaf to fall back on than generation 0.
LEMMA LastGoodIsNumber ==
  ASSUME NEW e, ReadInv(e), e[1] \in Once => creds[e] = None
  PROVE  LastGood(e) \in Nat /\ LastGood(e) <= LastGood(e)
<1>1. LastGood(e) \in Nat
  <2>1. creds[e] # None => creds[e].cert \in Nat
    BY Zenon, MaterialIsCopy DEF ReadInv, Held
  <2>2. 0 \in Nat
    OBVIOUS
  <2> QED BY Zenon, <2>1, <2>2 DEF LastGood
<1> QED BY <1>1

\* What the operator does to what the end e has read or uses: nothing, or it tears
\* a read.
Disturbs(e) ==
  /\ creds'[e] = creds[e] /\ reading'[e] = reading[e]
  /\ LeafBound(e[1]) \in Int /\ LeafBound(e[1])' \in Int
  /\ LeafBound(e[1]) <= LeafBound(e[1])'
  /\ \/ disk'[e[1]] = disk[e[1]] /\ floor'[e] = floor[e]
     \/ Reads(e) /\ floor'[e] = LastGood(e)
     \/ ~Reads(e) /\ floor'[e] = floor[e]

\* It stays in order.
LEMMA DisturbedRead ==
  ASSUME LifecycleInv, NEW e \in Ends, Disturbs(e)
  PROVE  ReadInv(e)'
<1>1. ReadInv(e) /\ LastGood(e)' = LastGood(e) /\ (Reads(e)' <=> Reads(e))
  BY Zenon DEF LifecycleInv, LastGood, Reads, Disturbs
<1>2. ASSUME NEW c \in Nat, c <= LeafBound(e[1]) PROVE c <= LeafBound(e[1])'
  <2>1. PICK a, b : a = LeafBound(e[1]) /\ b = LeafBound(e[1])'
    BY Zenon
  <2>2. a \in Int /\ b \in Int /\ a <= b /\ c <= a
    BY Zenon, <1>2, <2>1 DEF Disturbs
  <2>3. c <= b
    BY <1>2, <2>2
  <2> QED BY Zenon, <2>1, <2>3
<1>3. Held(e) => Held(e)'
  <2>1. Held(e) => creds[e].cert \in Nat
    BY Zenon, MaterialIsCopy DEF Held
  <2> QED BY Zenon, <1>2, <2>1 DEF Held, Disturbs
<1>4. Reads(e) => Between(e, reading[e])'
  <2> SUFFICES ASSUME Reads(e), "cert" \in DOMAIN reading[e], reading[e].cert # None
               PROVE  LastGood(e) <= reading[e].cert /\ reading[e].cert <= LeafBound(e[1])'
    BY Zenon, <1>1 DEF Between, Disturbs
  <2>1. LastGood(e) <= reading[e].cert /\ reading[e].cert <= LeafBound(e[1])
    BY Zenon, <1>1 DEF ReadInv, Between
  <2>2. reading[e].cert \in Nat
    BY Zenon, <1>1, CopyHas, MaterialIsCopy DEF ReadInv, Leaves
  <2> QED BY Zenon, <1>2, <2>1, <2>2
<1>5. Reads(e) => LastGood(e) \in Nat /\ LastGood(e) <= LastGood(e)
  BY Zenon, <1>1, LastGoodIsNumber DEF ReadInv, Reads
<1>6. floor'[e] \in Nat
  BY Zenon, <1>1, <1>5 DEF ReadInv, Disturbs
<1>7. Reads(e) => floor'[e] <= LastGood(e) \/ Whole(e)'
  <2>1. CASE disk'[e[1]] = disk[e[1]] /\ floor'[e] = floor[e]
    <3>1. Whole(e) => Whole(e)'
      BY Zenon, <2>1 DEF Whole, Disturbs
    <3> QED BY Zenon, <1>1, <2>1, <3>1 DEF ReadInv
  <2> QED BY Zenon, <1>5, <2>1 DEF Disturbs
<1>8. reading[e] = Ready => ~Reads(e) /\ floor'[e] = floor[e]
  BY Zenon DEF Reads, Disturbs
<1>9. reading[e] = Ready => creds'[e] # None /\ e[1] \notin Once /\ creds'[e].cert >= floor'[e]
  BY Zenon, <1>1, <1>8 DEF ReadInv, Disturbs
<1> QED BY Zenon, <1>1, <1>3, <1>4, <1>6, <1>7, <1>9 DEF ReadInv, Disturbs

\* Nothing of a process changes.
LEMMA SameProcess ==
  ASSUME LifecycleInv, UNCHANGED process
  PROVE  Respects
<1>1. UNCHANGED <<phase, step, signalled, lock, call, conn>>
  BY Zenon DEF process
<1>2. DOMAIN call' = Deployed /\ DOMAIN conn' = Deployed
  BY Zenon, <1>1 DEF LifecycleInv, ProcessOK
<1>3. \A c \in Deployed : Connects(c)
  BY Zenon, <1>1 DEF Connects
<1> QED BY Zenon, <1>1, <1>2, <1>3, PlaceKeepsLock, CallRespects

\* The operator's steps.
LEMMA OperatorSteps ==
  ASSUME LifecycleInv, Operator, UNCHANGED process
  PROVE  LifecycleInv'
<1>1. ProcessOK /\ DiskInv /\ ExpiryInv
  BY Zenon DEF LifecycleInv
<1>2. UNCHANGED <<creds, reading>> /\ DOMAIN creds = Ends /\ DOMAIN reading = Ends
      /\ DOMAIN floor = Ends
  BY Zenon, <1>1 DEF Operator, Renew, Expire, Writing, Write, ProcessOK
<1>3. \A e \in Ends : e[1] \in DOMAIN disk
  BY Zenon DEF Ends
<1>4. gen \in Nat
  BY Zenon, <1>1, MaterialIsCopy DEF DiskInv
<1>5. CASE Expire
  <2>1. UNCHANGED <<disk, gen, floor>> /\ expired' = gen /\ Settled
    BY Zenon, <1>5 DEF Expire
  <2>2. Ends' = Ends /\ DiskInv'
    BY Zenon, <1>1, <2>1 DEF Ends, DiskInv
  <2>3. ExpiryInv'
    BY Zenon, <1>2, <1>4, <2>1, <2>2 DEF ExpiryInv, Settled, RolledOut
  <2>4. \A e \in Ends : Forgets(e)
    BY Zenon, <1>2, <2>1 DEF Forgets
  <2>5. \A e \in Ends : ReadInv(e)'
    BY Zenon, <2>4, ReadForgotten
  <2>6. FilesKept
    BY Zenon, <1>2, <2>1, <2>2, <2>3, <2>5 DEF FilesKept
  <2> QED BY Zenon, <2>6, SameProcess, ReadStep
<1>6. CASE Renew
  <2>1. UNCHANGED <<disk, expired, floor>> /\ gen' = gen + 1 /\ gen' \in Generations
        /\ \A s \in DOMAIN disk : disk[s] = Material(gen)
    BY Zenon, <1>6 DEF Renew, Settled, RolledOut, Generations
  <2>2. PICK g : g = gen
    BY Zenon
  <2>3. g \in Nat /\ g <= g /\ g <= g + 1 /\ g \in Int /\ g # None
    <3>1. g # None
      BY Zenon, <1>1, <2>2, MaterialAssumption DEF DiskInv
    <3> QED BY <1>4, <2>2, <3>1
  <2>4. \A s \in DOMAIN disk : disk[s].cert = g
    BY Zenon, <1>1, <2>1, <2>2, MaterialIsCopy DEF DiskInv
  <2>5. DiskInv'
    BY Zenon, <1>1, <2>1, <2>2, <2>3, <2>4 DEF DiskInv
  <2>6. ASSUME NEW s \in DOMAIN disk PROVE LeafBound(s) = g /\ LeafBound(s)' = g
    <3>1. disk[s].cert = g /\ disk' = disk /\ g # None
      BY Zenon, <2>1, <2>3, <2>4
    <3>2. disk'[s].cert = g
      BY Zenon, <3>1
    <3>3. LeafBound(s) = g
      BY Zenon, <3>1 DEF LeafBound
    <3>4. LeafBound(s)' = g
      BY ZenonT(30), <3>1, <3>2 DEF LeafBound
    <3> QED BY Zenon, <3>3, <3>4
  <2>7. ExpiryInv'
    <3>1. PICK x : x = expired
      BY Zenon
    <3>2. x \in Nat /\ (x < g \/ x = g)
      BY Zenon, <1>1, <2>2, <3>1 DEF ExpiryInv
    <3>3. x < g + 1
      BY <2>3, <3>2
    <3> QED BY Zenon, <2>1, <2>2, <3>1, <3>2, <3>3 DEF ExpiryInv
  <2>8. \A e \in Ends : Disturbs(e)
    BY Zenon, <1>2, <1>3, <2>1, <2>3, <2>6 DEF Disturbs
  <2>9. \A e \in Ends : ReadInv(e)'
    BY Zenon, <2>8, DisturbedRead
  <2>10. FilesKept
    BY Zenon, <1>2, <2>1, <2>5, <2>7, <2>9 DEF FilesKept
  <2> QED BY Zenon, <2>10, SameProcess, ReadStep
<1>7. ASSUME NEW s \in DOMAIN disk, NEW f \in FileNames, Write(s, f) PROVE LifecycleInv'
  <2>1. Rewritten(s)
    BY Zenon, <1>1, <1>7, WriteKeepsDisk
  <2>2. /\ DOMAIN disk' = DOMAIN disk /\ DiskInv' /\ gen' = gen /\ expired' = expired
        /\ \A t \in DOMAIN disk : t # s => disk'[t] = disk[t]
        /\ LeafBound(s) <= LeafBound(s)' /\ LeafBound(s)' \in Int
    BY Zenon, <1>7, <2>1 DEF Rewritten, Write
  <2>3. /\ DOMAIN floor' = Ends
        /\ \A e \in Ends : floor'[e] = IF e[1] = s /\ Reads(e) THEN LastGood(e) ELSE floor[e]
    BY Zenon, <1>7 DEF Write
  <2>4. ExpiryInv'
    <3>1. ~RolledOut(s)
      BY Zenon, <1>7 DEF Write, RolledOut
    <3>2. expired < gen /\ expired \in Nat
      BY Zenon, <1>1, <3>1 DEF ExpiryInv
    <3> QED BY Zenon, <2>2, <3>2 DEF ExpiryInv
  <2>5. \A t \in DOMAIN disk : LeafBound(t) \in Int
    BY Zenon, <1>1, BoundIsNumber
  <2>6. \A e \in Ends : Disturbs(e)
    <3>1. ASSUME NEW e \in Ends, e[1] = s PROVE Disturbs(e)
      BY Zenon, <1>2, <1>3, <2>2, <2>3, <2>5, <3>1 DEF Disturbs
    <3>2. ASSUME NEW e \in Ends, e[1] # s PROVE Disturbs(e)
      <4>1. e[1] \in DOMAIN disk /\ disk'[e[1]] = disk[e[1]] /\ floor'[e] = floor[e]
        BY Zenon, <1>3, <2>2, <2>3, <3>2
      <4>2. LeafBound(e[1])' = LeafBound(e[1])
        BY Zenon, <2>2, <4>1 DEF LeafBound
      <4>3. LeafBound(e[1]) <= LeafBound(e[1])
        BY <2>5, <4>1
      <4> QED BY Zenon, <1>2, <2>5, <4>1, <4>2, <4>3 DEF Disturbs
    <3> QED BY Zenon, <3>1, <3>2
  <2>7. \A e \in Ends : ReadInv(e)'
    BY Zenon, <2>6, DisturbedRead
  <2>8. FilesKept
    BY Zenon, <1>2, <2>2, <2>3, <2>4, <2>7 DEF FilesKept
  <2> QED BY Zenon, <2>8, SameProcess, ReadStep
<1> QED BY Zenon, <1>5, <1>6, <1>7 DEF Operator, Writing

\* A read begins.
LEMMA BeginReads ==
  ASSUME LifecycleInv, NEW ends, Begin(ends), UNCHANGED <<disk, gen, expired, creds>>,
         \A e \in ends : e[1] \in Once => creds[e] = None
  PROVE  FilesKept
<1>1. DOMAIN reading' = Ends /\ DOMAIN floor' = Ends /\ DOMAIN creds' = Ends
  BY Zenon DEF Begin, LifecycleInv, ProcessOK
<1>2. Ends' = Ends /\ DiskInv' /\ gen \in Generations /\ None # Ready
  BY Zenon, MaterialAssumption DEF LifecycleInv, DiskInv, Ends
<1>3. ASSUME NEW e \in Ends, e \in ends PROVE ReadInv(e)'
  <2>1. reading'[e] = <<>> /\ floor'[e] = Begun(e) /\ ReadInv(e)
    BY Zenon, <1>3 DEF Begin, LifecycleInv
  <2>2. <<>> \in Copies /\ <<>> # None /\ <<>> # Ready
    BY Zenon, NothingIsCopy, MaterialAssumption
  <2>3. DOMAIN reading'[e] = {}
    BY <2>1
  <2>4. Between(e, reading[e])'
    BY Zenon, <2>3 DEF Between
  <2>5. LastGood(e)' = LastGood(e) /\ (Held(e)' <=> Held(e))
    BY Zenon DEF LastGood, Held, LeafBound
  <2>6. floor'[e] \in Nat /\ (floor'[e] <= LastGood(e) \/ Whole(e)')
    <3>1. CASE RolledOut(e[1])
      <4>1. floor'[e] = gen /\ disk'[e[1]] = Material(gen)
        BY Zenon, <2>1, <3>1 DEF Begun, RolledOut
      <4>2. Whole(e)'
        BY Zenon, <1>2, <2>3, <4>1 DEF Whole
      <4> QED BY Zenon, <1>2, <4>1, <4>2, MaterialIsCopy
    <3>2. CASE ~RolledOut(e[1])
      <4>1. LastGood(e) \in Nat /\ LastGood(e) <= LastGood(e)
        BY Zenon, <1>3, <2>1, LastGoodIsNumber
      <4> QED BY Zenon, <2>1, <3>2, <4>1 DEF Begun
    <3> QED BY Zenon, <3>1, <3>2
  <2> QED BY Zenon, <1>3, <2>1, <2>2, <2>4, <2>5, <2>6 DEF ReadInv, Reads
<1>4. ASSUME NEW e \in Ends, e \notin ends PROVE ReadInv(e)'
  <2>1. Forgets(e)
    BY Zenon, <1>4 DEF Begin, Forgets
  <2> QED BY Zenon, <2>1, ReadForgotten
<1>5. ExpiryInv'
  <2>1. ASSUME NEW e \in Ends, reading'[e] # None
        PROVE  \/ reading[e] # None /\ floor'[e] = floor[e]
               \/ RolledOut(e[1]) => floor'[e] = gen
    BY Zenon, <2>1 DEF Begin, Begun
  <2> QED BY Zenon, <1>2, <2>1, ExpiryKept DEF LifecycleInv
<1> QED BY Zenon, <1>1, <1>2, <1>3, <1>4, <1>5 DEF FilesKept

\* One of three numbers is the least.
LEMMA LeastOfThree ==
  ASSUME NEW S, S \subseteq {1, 2, 3}, S # {}
  PROVE  Min(S) \in S
<1>1. \E x \in S : \A y \in S : x <= y
  <2>1. CASE 1 \in S
    BY <2>1
  <2>2. CASE 1 \notin S /\ 2 \in S
    BY <2>2
  <2>3. CASE 1 \notin S /\ 2 \notin S
    <3>1. S = {3}
      BY Zenon, <2>3
    <3> QED BY <3>1
  <2> QED BY Zenon, <2>1, <2>2, <2>3
<1> QED BY Zenon, <1>1 DEF Min

\* m is what the end e has read so far with one more file, as it is on disk.
Extends(e, m) ==
  /\ m \in Copies /\ m # None /\ m # Ready
  /\ \A name \in DOMAIN m : \/ name \in DOMAIN reading[e] /\ m[name] = reading[e][name]
                            \/ m[name] = disk[e[1]][name]
  /\ Between(e, m)
  /\ Whole(e) => \A name \in DOMAIN m : m[name] = Material(floor[e])[name]
  /\ LastRead(e) => DOMAIN m = FileNames

\* So is the copy after the next read.
LEMMA NextFile ==
  ASSUME LifecycleInv, NEW e \in Ends, Reads(e), Unread(e) # {}
  PROVE  Extends(e, ReadNext(e))
<1>1. ReadInv(e) /\ reading[e] \in Copies /\ Between(e, reading[e])
  BY Zenon DEF LifecycleInv, ReadInv
<1>2. PICK m : m = reading[e]
  BY Zenon
<1>3. PICK f : f = Files(e[1])[Min(Unread(e))]
  BY Zenon
<1>4. Min(Unread(e)) \in Unread(e)
  <2>1. Unread(e) \subseteq {1, 2, 3}
    BY DEF Unread, Files
  <2> QED BY <2>1, LeastOfThree
<1>5. \A i \in DOMAIN Files(e[1]) : Files(e[1])[i] \in FileNames
  BY DEF Files, FileNames
<1>6. f \in FileNames
  BY Zenon, <1>3, <1>4, <1>5 DEF Unread
<1>7. e[1] \in DOMAIN disk /\ disk[e[1]] \in Copies /\ DOMAIN disk[e[1]] = FileNames
  BY Zenon DEF Ends, LifecycleInv, DiskInv
<1>8. PICK content : content = disk[e[1]][f]
  BY Zenon
<1>9. Fits(f, content)
  BY Zenon, <1>6, <1>7, <1>8, CopyFits
<1>10. PICK o : o = ReadNext(e)
  BY Zenon
<1>11. o = Added(m, f, content)
  BY Zenon, <1>2, <1>3, <1>8, <1>10 DEF ReadNext, Added
<1>12. o \in Copies /\ DOMAIN o = DOMAIN m \cup {f}
  BY Zenon, <1>1, <1>2, <1>6, <1>9, <1>11, FileAdded
<1>13. ASSUME NEW name \in DOMAIN o
       PROVE  \/ name \in DOMAIN reading[e] /\ o[name] = reading[e][name]
              \/ o[name] = disk[e[1]][name]
  BY Zenon, <1>2, <1>8, <1>11, <1>12, <1>13 DEF Added
<1>14. Between(e, o)
  <2> SUFFICES ASSUME "cert" \in DOMAIN o, o.cert # None
               PROVE  LastGood(e) <= o.cert /\ o.cert <= LeafBound(e[1])
    BY Zenon DEF Between
  <2>1. CASE "cert" \in DOMAIN reading[e] /\ o.cert = reading[e].cert
    BY Zenon, <1>1, <2>1 DEF Between
  <2>2. CASE o.cert = disk[e[1]].cert
    <3>1. PICK c : c = o.cert
      BY Zenon
    <3>2. c \in Nat /\ c <= c /\ 0 <= c
      <4>1. c \in Nat
        BY Zenon, <1>12, <3>1, CopyHas, MaterialIsCopy DEF Leaves
      <4> QED BY <4>1
    <3>3. LeafBound(e[1]) = c
      BY Zenon, <2>2, <3>1 DEF LeafBound
    <3>4. LastGood(e) <= c
      BY Zenon, <1>1, <3>2, <3>3 DEF ReadInv, LastGood, Held, Reads
    <3> QED BY Zenon, <3>1, <3>2, <3>3, <3>4
  <2> QED BY Zenon, <1>13, <2>1, <2>2
<1>15. ASSUME Whole(e), NEW name \in DOMAIN o PROVE o[name] = Material(floor[e])[name]
  BY Zenon, <1>13, <1>15 DEF Whole
<1>16. ASSUME LastRead(e) PROVE DOMAIN o = FileNames
  <2>1. Len(Files(e[1])) = 3
    BY DEF Files
  <2>2. Unread(e) = {3}
    BY Zenon, <1>16, <2>1 DEF LastRead
  <2>3. \A i \in DOMAIN Files(e[1]) : i # 3 => Files(e[1])[i] \in DOMAIN m
    BY Zenon, <1>2, <2>2 DEF Unread
  <2>4. f = Files(e[1])[3]
    BY Zenon, <1>3, <1>4, <2>2
  <2>5. \A name \in FileNames : \E i \in DOMAIN Files(e[1]) : Files(e[1])[i] = name
    BY DEF Files, FileNames
  <2>6. FileNames \subseteq DOMAIN o
    BY Zenon, <1>12, <2>3, <2>4, <2>5
  <2> QED BY Zenon, <1>12, <2>6, CopyHas
<1>17. o # None /\ o # Ready
  BY Zenon, <1>12, MaterialAssumption
<1> QED BY Zenon, <1>10, <1>12, <1>13, <1>14, <1>15, <1>16, <1>17 DEF Extends

\* Also where it is the last one, and the copy then has all files.
LEMMA LastFile ==
  ASSUME LifecycleInv, NEW e \in Ends, LastRead(e)
  PROVE  Extends(e, ReadNext(e))
<1>1. Reads(e) /\ Unread(e) # {}
  BY Zenon DEF LastRead
<1> QED BY Zenon, <1>1, NextFile

\* A copy that parses is of a generation's pair.
LEMMA ParsedIsGeneration ==
  ASSUME NEW m \in Copies, DOMAIN m = FileNames, Parses(m)
  PROVE  m.cert \in Generations /\ m.key = m.cert
<1>1. "cert" \in DOMAIN m
  BY DEF FileNames
<1>2. m.cert \in Leaves /\ m.cert # None
  BY Zenon, <1>1, CopyHas DEF Parses
<1> QED BY Zenon, <1>2 DEF Leaves, Parses

-----------------------------------------------------------------------------
(* The steps that read files.                                              *)

Loading(e, s, role) == e = <<s, role>> /\ Booting(s, role)

Unloaded(e, s, role) == e \in Ends /\ e[1] = s /\ e[2] = role /\ creds[e] = None

\* An end whose files are being loaded has no credentials yet.
LEMMA LoadingEnd ==
  ASSUME LifecycleInv, NEW s \in Deployed, NEW role \in {"client", "server"},
         NEW e, Loading(e, s, role)
  PROVE  Unloaded(e, s, role)
<1> USE DEF Loading
<1>1. e[1] = s /\ e[2] = role
  OBVIOUS
<1>2. /\ s \in DOMAIN Boot /\ DOMAIN Boot[s] = 1..Len(Boot[s]) /\ Len(Boot[s]) \in Nat
      /\ step[s] \in 1..Len(Boot[s]) /\ Boot[s][step[s]] = role /\ phase[s] = "boot"
  BY Zenon, Services DEF LifecycleInv, Booting, At
<1>3. role \in Range(Boot[s])
  BY Zenon, <1>2 DEF Range
<1>4. s \in Certified
  BY Zenon, <1>2, <1>3 DEF Certified
<1>5. e \in Ends
  <2>1. s \in DOMAIN disk
    BY Zenon, <1>4 DEF LifecycleInv, ProcessOK
  <2> QED BY Zenon, <2>1 DEF Ends
<1>6. creds[e] = None
  <2> SUFFICES ASSUME creds[e] # None PROVE FALSE
    BY Zenon
  <2>1. step[s] < step[s]
    BY Zenon, <1>1, <1>2, <1>5 DEF LifecycleInv, Loaded
  <2>2. PICK n : n = step[s]
    BY Zenon
  <2>3. n \in 1..Len(Boot[s])
    BY Zenon, <1>2, <2>2
  <2> QED BY <1>2, <2>1, <2>2, <2>3
<1> QED BY Zenon, <1>1, <1>5, <1>6 DEF Unloaded

\* A load begins.
LEMMA LoadBeginsStep ==
  ASSUME LifecycleInv, NEW s \in Deployed, NEW role \in {"client", "server"},
         LoadBegins(s, role)
  PROVE  LifecycleInv'
<1>1. PICK e : e = <<s, role>>
  BY Zenon
<1>2. Booting(s, role) /\ Begin({e}) /\ UNCHANGED <<disk, gen, expired, creds, process>>
  BY Zenon, <1>1 DEF LoadBegins
<1>3. \A o \in {e} : o[1] \in Once => creds[o] = None
  <2>1. Loading(e, s, role)
    BY Zenon, <1>1, <1>2 DEF Loading
  <2>2. Unloaded(e, s, role)
    BY Zenon, <2>1, LoadingEnd
  <2> QED BY Zenon, <2>2 DEF Unloaded
<1>4. FilesKept
  BY Zenon, <1>2, <1>3, BeginReads
<1> QED BY Zenon, <1>2, <1>4, SameProcess, ReadStep

\* A load ends, with credentials and past its step, or with the process.
LEMMA LoadEndsStep ==
  ASSUME LifecycleInv, NEW s \in Deployed, NEW role \in {"client", "server"},
         LoadEnds(s, role)
  PROVE  LifecycleInv'
<1>1. PICK e : e = <<s, role>>
  BY Zenon
<1>2. Booting(s, role) /\ LastRead(e)
  BY Zenon, <1>1 DEF LoadEnds
<1>3. CASE Exit(s)
  BY Zenon, <1>3, ExitStep
<1>4. ASSUME NEW m, m = ReadNext(e),
             s \in Once \/ Parses(m),
             creds' = [creds EXCEPT ![e] = m],
             reading' = [reading EXCEPT ![e] = None],
             floor' = [floor EXCEPT ![e] = 0],
             Advance(s),
             UNCHANGED <<disk, gen, expired, signalled, lock, call, conn>>
      PROVE  LifecycleInv'
  <2>1. e \in Ends /\ e[1] = s /\ e[2] = role
    <3>1. Loading(e, s, role)
      BY Zenon, <1>1, <1>2 DEF Loading
    <3>2. Unloaded(e, s, role)
      BY Zenon, <3>1, LoadingEnd
    <3> QED BY Zenon, <3>2 DEF Unloaded
  <2>2. /\ DOMAIN creds' = Ends /\ DOMAIN reading' = Ends /\ DOMAIN floor' = Ends
        /\ creds'[e] = m /\ reading'[e] = None /\ floor'[e] = 0
        /\ \A o \in Ends \ {e} : /\ creds'[o] = creds[o] /\ reading'[o] = reading[o]
                                 /\ floor'[o] = floor[o]
    BY Zenon, <1>4, <2>1 DEF LifecycleInv, ProcessOK
  <2>3. \A o \in Ends \ {e} : ReadInv(o)'
    <3>1. \A o \in Ends \ {e} : Forgets(o)
      BY Zenon, <1>4, <2>2 DEF Forgets
    <3> QED BY Zenon, <3>1, ReadForgotten
  <2>4. ReadInv(e)'
    <3>1. Extends(e, m)
      BY Zenon, <1>2, <1>4, <2>1, LastFile
    <3>2. m \in Copies /\ DOMAIN m = FileNames /\ Between(e, m) /\ "cert" \in DOMAIN m
      BY Zenon, <1>2, <3>1 DEF Extends, FileNames
    <3>3. Parses(m) => Held(e)'
      <4> SUFFICES ASSUME Parses(m) PROVE Held(e)'
        BY Zenon
      <4>1. m.cert \in Generations /\ m.key = m.cert
        BY Zenon, <3>2, ParsedIsGeneration
      <4>2. m.cert <= LeafBound(e[1])
        BY Zenon, <3>2 DEF Between, Parses
      <4>3. LeafBound(e[1])' = LeafBound(e[1])
        BY Zenon, <1>4 DEF LeafBound
      <4> QED BY Zenon, <2>2, <4>1, <4>2, <4>3 DEF Held
    <3>4. None # Ready /\ 0 \in Nat
      BY Zenon, MaterialAssumption
    <3> QED BY Zenon, <1>4, <2>1, <2>2, <3>3, <3>4 DEF ReadInv, Reads
  <2>5. phase[s] = "boot" /\ At(s) = role /\ At(s) # "lock" /\ DOMAIN call' = Deployed
    BY Zenon, <1>2, <1>4 DEF Booting, LifecycleInv, ProcessOK
  <2>6. Loaded(e)'
    <3>1. Walked(s)
      BY Zenon, <1>4, <2>5, AdvanceWalks DEF LifecycleInv
    <3>2. phase'[s] # "down"
      BY Zenon, <3>1 DEF Walked
    <3>3. phase'[s] = "boot" => step'[s] = step[s] + 1
      BY Zenon, <3>1 DEF Walked
    <3>4. InOrder(Boot[s]) /\ step[s] \in 1..Len(Boot[s]) /\ Len(Boot[s]) \in Nat
          /\ DOMAIN Boot[s] = 1..Len(Boot[s])
      BY Zenon, Services DEF LifecycleInv
    <3>5. \A i \in DOMAIN Boot[s] : Boot[s][i] = role => i = step[s]
      BY Zenon, <2>5, <3>4 DEF InOrder, At
    <3>6. step[s] < step[s] + 1
      <4>1. PICK n : n = step[s]
        BY Zenon
      <4>2. n \in 1..Len(Boot[s])
        BY Zenon, <3>4, <4>1
      <4>3. n < n + 1
        BY <3>4, <4>2
      <4> QED BY Zenon, <4>1, <4>3
    <3> QED BY Zenon, <2>1, <3>2, <3>3, <3>5, <3>6 DEF Loaded
  <2>7. FilesKept
    <3>1. DiskInv' /\ ExpiryInv /\ Ends' = Ends
      BY Zenon, <1>4 DEF LifecycleInv, DiskInv, Ends
    <3>2. \A o \in Ends : ReadInv(o)' /\ (creds'[o] # None => creds[o] # None \/ Loaded(o)')
      BY Zenon, <2>2, <2>3, <2>4, <2>6
    <3>3. \A o \in Ends : reading'[o] # None => reading[o] # None /\ floor'[o] = floor[o]
      BY Zenon, <2>2
    <3>4. ExpiryInv'
      BY Zenon, <1>4, <3>1, <3>3, ExpiryKept
    <3> QED BY Zenon, <1>4, <2>2, <3>1, <3>2, <3>4 DEF FilesKept
  <2>8. \A t \in Deployed : HoldsLock(t)'
    BY Zenon, <1>4, <2>5, OtherBootStep
  <2>9. Respects
    BY Zenon, <1>4, <2>5, <2>8, BootRespects
  <2> QED BY Zenon, <2>7, <2>9, ReadStep
<1>5. \/ Exit(s)
      \/ /\ s \in Once \/ Parses(ReadNext(e))
         /\ creds' = [creds EXCEPT ![e] = ReadNext(e)]
         /\ reading' = [reading EXCEPT ![e] = None]
         /\ floor' = [floor EXCEPT ![e] = 0]
         /\ Advance(s)
         /\ UNCHANGED <<disk, gen, expired, signalled, lock, call, conn>>
  BY Zenon, <1>1 DEF LoadEnds
<1> QED BY Zenon, <1>3, <1>4, <1>5

\* A file is read that is not the last: the copy has one more.
LEMMA ReadFileStep ==
  ASSUME LifecycleInv, NEW e \in Ends, Read(e), UNCHANGED process
  PROVE  LifecycleInv'
<1>1. PICK m : m = ReadNext(e)
  BY Zenon
<1>2. ReadInv(e) /\ Reads(e) /\ Extends(e, m)
  BY Zenon, <1>1, NextFile DEF LifecycleInv, Read
<1>3. /\ DOMAIN reading' = Ends /\ reading'[e] = m
      /\ \A o \in Ends \ {e} : reading'[o] = reading[o]
  BY Zenon, <1>1 DEF Read, LifecycleInv, ProcessOK
<1>4. /\ UNCHANGED <<disk, gen, expired, creds, floor>> /\ Ends' = Ends
      /\ DOMAIN creds' = Ends /\ DOMAIN floor' = Ends
  BY Zenon DEF Read, LifecycleInv, ProcessOK, Ends
<1>5. ReadInv(e)'
  <2>1. LastGood(e)' = LastGood(e) /\ LeafBound(e[1])' = LeafBound(e[1]) /\ (Held(e)' <=> Held(e))
    BY Zenon, <1>4 DEF LastGood, LeafBound, Held
  <2>2. Between(e, reading[e])'
    BY Zenon, <1>2, <1>3, <2>1 DEF Between, Extends
  <2>3. Whole(e) => Whole(e)'
    BY Zenon, <1>2, <1>3, <1>4 DEF Whole, Extends
  <2>4. reading[e] # None /\ m \in Copies /\ m # Ready
    BY Zenon, <1>2 DEF Reads, Extends
  <2> QED BY Zenon, <1>2, <1>3, <1>4, <2>1, <2>2, <2>3, <2>4 DEF ReadInv
<1>6. \A o \in Ends \ {e} : ReadInv(o)'
  <2>1. \A o \in Ends \ {e} : Forgets(o)
    BY Zenon, <1>3, <1>4 DEF Forgets
  <2> QED BY Zenon, <2>1, ReadForgotten
<1>7. ExpiryInv' /\ DiskInv'
  <2>1. \A o \in Ends : reading'[o] # None => reading[o] # None /\ floor'[o] = floor[o]
    BY Zenon, <1>2, <1>3, <1>4 DEF Reads
  <2> QED BY Zenon, <1>4, <2>1, ExpiryKept DEF LifecycleInv, DiskInv
<1>8. FilesKept
  BY Zenon, <1>3, <1>4, <1>5, <1>6, <1>7 DEF FilesKept
<1> QED BY Zenon, <1>8, SameProcess, ReadStep

\* The last file has been read, and the copy takes the place of the credentials if it
\* parses: what was read whole does, and nothing that was read is older than they are.
LEMMA SwapStep ==
  ASSUME LifecycleInv, NEW e \in Ends, Swap(e), UNCHANGED process
  PROVE  LifecycleInv'
<1>1. PICK m : m = ReadNext(e)
  BY Zenon
<1>2. ReadInv(e) /\ Reads(e) /\ creds[e] # None /\ LastRead(e) /\ Extends(e, m)
  BY Zenon, <1>1, LastFile DEF LifecycleInv, Swap, LastRead
<1>3. /\ DOMAIN creds' = Ends /\ DOMAIN reading' = Ends /\ DOMAIN floor' = Ends
      /\ creds'[e] = Current(e) /\ reading'[e] = Ready
      /\ \A o \in Ends \ {e} : creds'[o] = creds[o] /\ reading'[o] = reading[o]
  BY Zenon DEF Swap, LifecycleInv, ProcessOK
<1>4. UNCHANGED <<disk, gen, expired, floor>> /\ Ends' = Ends
  BY Zenon DEF Swap, Ends
<1>5. e[1] \notin Once /\ floor[e] \in Nat /\ Held(e) /\ reading[e] # None
  BY Zenon, <1>2 DEF ReadInv, Reads
<1>6. PICK c, n, b : c = creds[e].cert /\ n = floor[e] /\ b = LeafBound(e[1])
  BY Zenon
<1>7. /\ c \in Generations /\ creds[e].key = c /\ c <= b /\ n \in Nat /\ LastGood(e) = c
      /\ c \in Nat
  BY Zenon, <1>2, <1>5, <1>6, MaterialIsCopy DEF Held, LastGood
<1>8. m \in Copies /\ DOMAIN m = FileNames /\ "cert" \in DOMAIN m
  BY Zenon, <1>2 DEF Extends, FileNames
<1>9. ASSUME Parses(m)
      PROVE  m.cert \in Generations /\ m.key = m.cert /\ c <= m.cert /\ m.cert <= b /\ m # None
  <2>1. m.cert \in Generations /\ m.key = m.cert
    BY Zenon, <1>8, <1>9, ParsedIsGeneration
  <2>2. Between(e, m) /\ m.cert # None /\ m # None
    BY Zenon, <1>2, <1>9 DEF Extends, Parses
  <2> QED BY Zenon, <1>6, <1>7, <1>8, <2>1, <2>2 DEF Between
<1>10. PICK o : o = Current(e)
  BY Zenon
<1>11. (~Parses(m) => o = creds[e]) /\ (Parses(m) => o = m)
  BY Zenon, <1>1, <1>10 DEF Current, Equal
<1>12. o # None /\ o.cert \in Generations /\ o.key = o.cert /\ o.cert <= b
  BY Zenon, <1>2, <1>6, <1>7, <1>9, <1>11
<1>13. o.cert >= n
  <2>1. PICK x : x = o.cert
    BY Zenon
  <2>2. x \in Nat
    BY Zenon, <1>12, <2>1, MaterialIsCopy
  <2>3. c <= x
    <3>1. c <= c
      BY <1>7
    <3> QED BY Zenon, <1>6, <1>9, <1>11, <2>1, <3>1
  <2>4. CASE n <= c
    <3>1. x >= n
      BY <1>7, <2>2, <2>3, <2>4
    <3> QED BY Zenon, <2>1, <3>1
  <2>5. CASE Whole(e)
    <3>1. n \in Generations /\ \A name \in DOMAIN m : m[name] = Material(n)[name]
      BY Zenon, <1>2, <1>6, <2>5 DEF Whole, Extends
    <3>2. /\ DOMAIN Material(n) = FileNames /\ Material(n).cert = n
          /\ Parses(Material(n)) /\ Material(n) \in Copies
      BY Zenon, <3>1, MaterialIsCopy
    <3>3. m = Material(n)
      <4>1. m = [name \in DOMAIN m |-> m[name]]
            /\ Material(n) = [name \in DOMAIN Material(n) |-> Material(n)[name]]
        BY Zenon, <1>8, <3>2, CopyHas
      <4> QED BY <1>8, <3>1, <3>2, <4>1
    <3>4. x = n
      BY Zenon, <1>11, <2>1, <3>2, <3>3
    <3>5. x >= n
      BY <1>7, <3>4
    <3> QED BY Zenon, <2>1, <3>5
  <2> QED BY Zenon, <1>2, <1>6, <1>7, <2>4, <2>5 DEF ReadInv
<1>14. ReadInv(e)'
  <2>1. None # Ready /\ LeafBound(e[1])' = b
    BY Zenon, <1>4, <1>6, MaterialAssumption DEF LeafBound
  <2>2. Held(e)'
    BY Zenon, <1>3, <1>10, <1>12, <2>1 DEF Held
  <2> QED BY Zenon, <1>3, <1>4, <1>5, <1>6, <1>10, <1>12, <1>13, <2>1, <2>2 DEF ReadInv, Reads
<1>15. \A end \in Ends \ {e} : ReadInv(end)'
  <2>1. \A end \in Ends \ {e} : Forgets(end)
    BY Zenon, <1>3, <1>4 DEF Forgets
  <2> QED BY Zenon, <2>1, ReadForgotten
<1>16. ExpiryInv' /\ DiskInv'
  <2>1. \A end \in Ends : reading'[end] # None => reading[end] # None /\ floor'[end] = floor[end]
    BY Zenon, <1>3, <1>4, <1>5
  <2> QED BY Zenon, <1>4, <2>1, ExpiryKept DEF LifecycleInv, DiskInv
<1>17. FilesKept
  BY Zenon, <1>2, <1>3, <1>4, <1>14, <1>15, <1>16 DEF FilesKept
<1> QED BY Zenon, <1>17, SameProcess, ReadStep

\* A call changes its state, and the connection of its client.
LEMMA HandshakeRespects ==
  ASSUME LifecycleInv, NEW s \in Deployed, NEW state, Sets(s, state), call[s] # "none",
         UNCHANGED <<phase, step, signalled, lock>>, DOMAIN conn' = Deployed,
         \A c \in Deployed : Connects(c)
  PROVE  Respects
<1>1. DOMAIN call' = Deployed /\ \A t \in Deployed \ {s} : call'[t] = call[t]
  BY Zenon DEF Sets, LifecycleInv, ProcessOK
<1>2. phase[s] # "close"
  BY Zenon DEF LifecycleInv, AcceptedCallsFinish
<1>3. \A t \in Deployed : phase[t] = "close" => call'[t] = call[t]
  BY Zenon, <1>1, <1>2
<1> QED BY Zenon, <1>1, <1>3, PlaceKeepsLock, CallRespects

\* A handshake begins.
LEMMA DialStep ==
  ASSUME LifecycleInv, NEW s \in Deployed, NEW u \in Deployed, Dial(s, u)
  PROVE  LifecycleInv'
<1>1. UNCHANGED <<disk, gen, expired, creds, phase, step, signalled, lock, conn>>
  BY Zenon DEF Dial
<1>2. PICK state : Sets(s, state)
  BY Zenon DEF Dial
<1>3. call[s] # "none"
  BY DEF Dial
<1>4. DOMAIN conn' = Deployed /\ \A c \in Deployed : Connects(c)
  BY Zenon, <1>1 DEF Connects, LifecycleInv, ProcessOK
<1>5. Respects
  BY Zenon, <1>1, <1>2, <1>3, <1>4, HandshakeRespects
<1>6. CASE UNCHANGED <<reading, floor>>
  <2>1. UNCHANGED rotation
    BY Zenon, <1>1, <1>6 DEF rotation
  <2> QED BY Zenon, <1>5, <2>1, RespectedStep
<1>7. CASE Begin({e \in {<<s, "client">>, <<u, "server">>} : e[1] \notin Once})
  <2>1. PICK ends : ends = {e \in {<<s, "client">>, <<u, "server">>} : e[1] \notin Once}
    BY Zenon
  <2>2. \A e \in ends : e[1] \in Once => creds[e] = None
    BY Zenon, <2>1
  <2>3. Begin(ends) /\ UNCHANGED <<disk, gen, expired, creds>>
    BY Zenon, <1>1, <1>7, <2>1
  <2>4. FilesKept
    BY Zenon, <2>2, <2>3, BeginReads
  <2> QED BY Zenon, <1>5, <2>4, ReadStep
<1> QED BY Zenon, <1>6, <1>7 DEF Dial

\* A handshake ends, with a connection to a server that accepts calls or without.
LEMMA ShakeSteps ==
  ASSUME LifecycleInv, NEW s \in Deployed, NEW u \in Deployed, Shake(s, u) \/ ShakeLost(s, u)
  PROVE  LifecycleInv'
<1>1. UNCHANGED <<disk, gen, expired, creds, phase, step, signalled, lock>>
  BY Zenon DEF Shake, ShakeLost
<1>2. PICK state : Sets(s, state)
  BY Zenon DEF Shake, ShakeLost
<1>3. call[s] # "none"
  <2>1. call[s] = "shake"
    BY Zenon DEF Shake, ShakeLost
  <2> QED BY <2>1
<1>4. DOMAIN conn' = Deployed /\ \A c \in Deployed : Connects(c)
  <2>1. DOMAIN conn = Deployed
    BY Zenon DEF LifecycleInv, ProcessOK
  <2>2. CASE ShakeLost(s, u)
    BY Zenon, <2>1, <2>2 DEF ShakeLost, Connects
  <2>3. CASE Shake(s, u)
    <3>1. PICK ok : conn' = [conn EXCEPT ![s] = ok]
      BY Zenon, <2>3 DEF Shake
    <3>2. DOMAIN conn' = Deployed /\ \A c \in Deployed \ {s} : conn'[c] = conn[c]
      BY Zenon, <2>1, <3>1
    <3>3. \A t \in Deployed : Calls(s, t) => phase'[t] = "serve"
      BY Zenon, <1>1, <2>3 DEF Shake, Calls, Accepting
    <3> QED BY Zenon, <3>2, <3>3 DEF Connects
  <2> QED BY Zenon, <2>2, <2>3
<1>5. Respects
  BY Zenon, <1>1, <1>2, <1>3, <1>4, HandshakeRespects
<1>6. /\ DOMAIN reading' = Ends /\ DOMAIN floor' = Ends
      /\ \A e \in Ends : \/ reading'[e] = None /\ floor'[e] = 0
                         \/ reading'[e] = reading[e] /\ floor'[e] = floor[e]
  BY Zenon DEF Shake, ShakeLost
<1>7. \A e \in Ends : ReadInv(e)'
  <2>1. \A e \in Ends : Forgets(e)
    BY Zenon, <1>1, <1>6 DEF Forgets
  <2> QED BY Zenon, <2>1, ReadForgotten
<1>8. ExpiryInv' /\ DiskInv' /\ DOMAIN creds' = Ends
  <2>1. \A e \in Ends : reading'[e] # None => reading[e] # None /\ floor'[e] = floor[e]
    BY Zenon, <1>6
  <2>2. Ends' = Ends
    BY Zenon, <1>1 DEF Ends
  <2> QED BY Zenon, <1>1, <2>1, <2>2, ExpiryKept DEF LifecycleInv, DiskInv, ProcessOK
<1>9. FilesKept
  BY Zenon, <1>1, <1>6, <1>7, <1>8 DEF FilesKept
<1> QED BY Zenon, <1>5, <1>9, ReadStep

-----------------------------------------------------------------------------
(* The invariant and what follows from it.                                 *)

\* Nothing has started and nothing has been read.
LEMMA InitHolds == Init => LifecycleInv
<1> SUFFICES ASSUME Init PROVE LifecycleInv
  OBVIOUS
<1>1. PICK d \in Deployments :
        /\ RotationInit(d \cap Certified)
        /\ phase = [s \in d |-> "down"]
        /\ step = [s \in d |-> 1]
        /\ signalled = [s \in d |-> FALSE]
        /\ call = [s \in d |-> "none"]
        /\ conn = [s \in d |-> FALSE]
  BY Zenon DEF Init
<1>2. Deployed = d /\ \A s \in d : phase[s] = "down" /\ step[s] = 1 /\ ~conn[s]
  BY Zenon, <1>1 DEF Deployed
<1>3. ProcessOK
  <2>1. phase \in [Deployed -> Phases]
    BY <1>1, <1>2 DEF Phases
  <2>2. DOMAIN disk = Deployed \cap Certified
    BY Zenon, <1>1, <1>2 DEF RotationInit
  <2>3. \A s \in Deployed : step[s] \in DOMAIN Boot[s]
    <3>1. ASSUME NEW b, InOrder(b) PROVE 1 \in DOMAIN b
      BY <3>1 DEF InOrder
    <3>2. \A s \in Deployed : InOrder(Boot[s])
      BY Zenon, <1>2, BootsInOrder, DeploymentAssumption
    <3> QED BY Zenon, <1>2, <3>1, <3>2
  <2>4. /\ DOMAIN step = Deployed /\ DOMAIN signalled = Deployed
        /\ DOMAIN call = Deployed /\ DOMAIN conn = Deployed
        /\ DOMAIN creds = Ends /\ DOMAIN reading = Ends /\ DOMAIN floor = Ends
    BY Zenon, <1>1, <1>2 DEF RotationInit
  <2> QED BY Zenon, <1>2, <2>1, <2>2, <2>3, <2>4 DEF ProcessOK
<1>4. DiskInv /\ ExpiryInv
  <2>1. 1 \in Generations
    BY Zenon, MaterialAssumption
  <2>2. Material(1) \in Copies /\ DOMAIN Material(1) = FileNames /\ Material(1).cert = 1
    BY Zenon, <2>1, MaterialIsCopy
  <2>3. gen = 1 /\ expired = 1 /\ \A s \in DOMAIN disk : disk[s] = Material(1)
    BY Zenon, <1>1 DEF RotationInit
  <2>4. 1 <= 1 /\ 1 \in Nat
    OBVIOUS
  <2>5. DiskInv
    BY Zenon, <2>1, <2>2, <2>3, <2>4 DEF DiskInv
  <2>6. \A e \in Ends : reading[e] = None
    BY Zenon, <1>1 DEF RotationInit
  <2> QED BY Zenon, <2>3, <2>4, <2>5, <2>6 DEF ExpiryInv, RolledOut
<1>5. \A s \in Deployed : HoldsLock(s) /\ Served(s)
  <2>1. \A s \in Deployed : phase[s] # "boot"
    BY <1>2
  <2> QED BY Zenon, <1>2, <2>1 DEF HoldsLock, Locked, Booting, Served
<1>6. AcceptedCallsFinish
  BY <1>2 DEF AcceptedCallsFinish
<1>7. \A e \in Ends : ReadInv(e) /\ Loaded(e)
  <2>1. \A e \in Ends : creds[e] = None /\ reading[e] = None /\ floor[e] = 0
    BY Zenon, <1>1 DEF RotationInit
  <2>2. None # Ready /\ 0 \in Nat
    BY Zenon, MaterialAssumption
  <2> QED BY Zenon, <2>1, <2>2 DEF ReadInv, Loaded, Reads
<1> QED BY Zenon, <1>3, <1>4, <1>5, <1>6, <1>7 DEF LifecycleInv

\* What a service does by itself.
LEMMA ProgressSteps ==
  ASSUME LifecycleInv, NEW s \in Deployed, Progress(s)
  PROVE  LifecycleInv'
<1>1. CASE Start(s)
  BY Zenon, <1>1, StartStep
<1>2. CASE BootStep(s) \/ ResumeBegins(s) \/ ResumeEnds(s)
  BY Zenon, <1>2, BootSteps
<1>3. CASE BootCancelled(s) \/ Close(s)
  BY Zenon, <1>3, EndSteps
<1>4. CASE Unlock(s)
  BY Zenon, <1>4, LockSteps
<1>5. ASSUME NEW role \in {"client", "server"}, LoadBegins(s, role) PROVE LifecycleInv'
  BY Zenon, <1>5, LoadBeginsStep
<1>6. ASSUME NEW role \in {"client", "server"}, LoadEnds(s, role) PROVE LifecycleInv'
  BY Zenon, <1>6, LoadEndsStep
<1>7. ASSUME NEW role \in {"client", "server"}, <<s, role>> \in Ends,
             Read(<<s, role>>) \/ Swap(<<s, role>>), UNCHANGED process
      PROVE  LifecycleInv'
  <2>1. PICK e : e = <<s, role>>
    BY Zenon
  <2>2. e \in Ends /\ (Read(e) \/ Swap(e))
    BY Zenon, <1>7, <2>1
  <2> QED BY Zenon, <1>7, <2>2, ReadFileStep, SwapStep
<1>8. CASE Handle(s)
  BY Zenon, <1>8, CallSteps
<1>9. ASSUME NEW u \in Deployed, Dial(s, u) PROVE LifecycleInv'
  BY Zenon, <1>9, DialStep
<1>10. ASSUME NEW u \in Deployed, Shake(s, u) \/ ShakeLost(s, u) PROVE LifecycleInv'
  BY Zenon, <1>10, ShakeSteps
<1>11. ASSUME NEW u \in Deployed, Ask(s, u) \/ Receive(s, u) PROVE LifecycleInv'
  BY Zenon, <1>11, AskSteps
<1>12. CASE Drained(s)
  BY Zenon, <1>12, StopSteps
<1> QED BY Zenon, <1>1, <1>2, <1>3, <1>4, <1>5, <1>6, <1>7, <1>8, <1>9, <1>10, <1>11, <1>12
        DEF Progress

\* What happens to it.
LEMMA HappensSteps ==
  ASSUME LifecycleInv, NEW s \in Deployed, Happens(s)
  PROVE  LifecycleInv'
<1>1. CASE Arrive(s) \/ Disconnect(s)
  BY Zenon, <1>1, CallSteps
<1>2. CASE BootFails(s) \/ Kill(s)
  BY Zenon, <1>2, EndSteps
<1>3. CASE ListenerFails(s) \/ Signal(s) \/ DrainTimesOut(s)
  BY Zenon, <1>3, StopSteps
<1>4. CASE SessionLost(s)
  BY Zenon, <1>4, SessionSteps
<1> QED BY Zenon, <1>1, <1>2, <1>3, <1>4 DEF Happens

\* The invariant holds, whatever fails, and whoever writes and reads the files when.
THEOREM LifecycleInvariant == Spec => []LifecycleInv
<1>1. ASSUME LifecycleInv, [Next]_vars PROVE LifecycleInv'
  <2>1. CASE UNCHANGED vars
    <3>1. UNCHANGED rotation /\ UNCHANGED process
      BY Zenon, <2>1 DEF vars
    <3> QED BY Zenon, <1>1, <3>1, SameProcess, RespectedStep
  <2>2. ASSUME NEW s \in Deployed, Progress(s) \/ Happens(s) PROVE LifecycleInv'
    BY Zenon, <1>1, <2>2, ProgressSteps, HappensSteps
  <2>3. ASSUME NEW s \in Deployed, TakeLock(s) PROVE LifecycleInv'
    BY Zenon, <1>1, <2>3, LockSteps
  <2>4. ASSUME NEW s \in Deployed, SessionEnds(s) PROVE LifecycleInv'
    BY Zenon, <1>1, <2>4, SessionSteps
  <2>5. CASE Operator /\ UNCHANGED process
    BY Zenon, <1>1, <2>5, OperatorSteps
  <2> QED BY Zenon, <1>1, <2>1, <2>2, <2>3, <2>4, <2>5 DEF Next
<1> QED BY <1>1, InitHolds, PTL DEF Spec

\* Two services run migration files at the same time (RunMigrations) only if one has
\* lost the session that took the lock: every other holds the one advisory lock,
\* whatever session the unlock of another ran in.
THEOREM MigrationsAreSerial == Spec => []MigrationsSerial
<1>1. ASSUME LifecycleInv PROVE MigrationsSerial
  <2>1. \A s \in Deployed : Booting(s, "migrate") => lock.holder = s \/ s \in lock.lost
    BY Zenon, <1>1 DEF LifecycleInv, HoldsLock, Locked
  <2> QED BY Zenon, <2>1 DEF MigrationsSerial
<1> QED BY <1>1, LifecycleInvariant, PTL

\* A server that stops on a signal closes only when the calls it accepted have
\* returned, and accepts none afterwards (GracefulStop): its clients have lost
\* their connections before.
THEOREM AcceptedCallsDoFinish == Spec => []AcceptedCallsFinish
<1>1. LifecycleInv => AcceptedCallsFinish
  BY Zenon DEF LifecycleInv
<1> QED BY <1>1, LifecycleInvariant, PTL

\* A handshake that began when a generation was on disk, and that no write fell into,
\* uses it; any other uses nothing older than the last one did (current).  The three
\* reads of either end interleave with each other and with the writes in every way.
THEOREM RotationsTakeEffect == Spec => []RotationTakesEffect
<1>1. LifecycleInv => RotationTakesEffect
  BY Zenon DEF LifecycleInv, ReadInv, RotationTakesEffect
<1> QED BY <1>1, LifecycleInvariant, PTL

-----------------------------------------------------------------------------
(* Handshakes during a rotation.                                           *)

\* The end e uses a pair of the generation that is rolled out or of the one before,
\* not expired, and trusts the bundle of one of the two.
InUse(e) ==
  /\ creds[e].cert \in Generations /\ creds[e].cert - gen \in {-1, 0}
  /\ creds[e].cert # None /\ creds[e].cert = creds[e].key
  /\ creds[e].cert >= expired
  /\ \E h \in Generations : h - gen \in {-1, 0} /\ creds[e].ca = Bundle[h]

\* So does an end that is ready for a handshake and not outdated.
LEMMA ReadyInUse ==
  ASSUME LifecycleInv, NEW e \in Ends, reading[e] = Ready, ~Outdated(e)
  PROVE  InUse(e)
<1>1. PICK c, g, x, b : c = creds[e].cert /\ g = gen /\ x = expired /\ b = LeafBound(e[1])
  BY Zenon
<1>2. /\ ReadInv(e) /\ DiskInv /\ ExpiryInv /\ e[1] \in DOMAIN disk
      /\ None \notin Generations /\ None # Ready
  BY Zenon, MaterialAssumption DEF LifecycleInv, Ends
<1>3. Held(e) /\ c >= floor[e]
  BY Zenon, <1>1, <1>2 DEF ReadInv
<1>4. c \in Generations /\ creds[e].key = c /\ c <= b /\ c # None
  BY Zenon, <1>1, <1>2, <1>3 DEF Held
<1>5. b \in Int /\ b <= g
  BY Zenon, <1>1, <1>2, BoundIsNumber
<1>6. c \in Nat /\ g \in Nat /\ x \in Nat
  BY Zenon, <1>1, <1>2, <1>4, MaterialIsCopy DEF DiskInv, ExpiryInv
<1>7. ~(c < g - 1)
  BY Zenon, <1>1 DEF Outdated
<1>8. c - g \in {-1, 0}
  BY <1>4, <1>5, <1>6, <1>7
<1>9. c >= x
  <2>1. CASE x < g
    BY <1>6, <1>7, <2>1
  <2>2. CASE x = g /\ floor[e] = g
    BY Zenon, <1>3, <2>2
  <2> QED BY Zenon, <1>1, <1>2, <2>1, <2>2 DEF ExpiryInv
<1>10. PICK h \in {gen - 1, gen} \cap Generations : creds[e].ca = Bundle[h]
  BY Zenon DEF Outdated
<1>11. h - g \in {-1, 0}
  BY <1>1, <1>6
<1> QED BY Zenon, <1>1, <1>4, <1>8, <1>9, <1>10, <1>11 DEF InUse

\* Two such ends accept each other, as consecutive generations do.
LEMMA InUseAccepts ==
  ASSUME DiskInv, NEW e, NEW o, InUse(e), InUse(o)
  PROVE  Accepts(creds[e], creds[o])
<1>1. PICK c : c = creds[o].cert
  BY Zenon
<1>2. /\ c \in Generations /\ c - gen \in {-1, 0} /\ c # None
      /\ creds[o].cert = creds[o].key /\ c >= expired
  BY Zenon, <1>1 DEF InUse
<1>3. PICK h \in Generations : h - gen \in {-1, 0} /\ creds[e].ca = Bundle[h]
  BY Zenon DEF InUse
<1>4. PICK g \in Nat : c \in Nat /\ h \in Nat /\ c - g \in {-1, 0} /\ h - g \in {-1, 0}
  BY Zenon, <1>2, <1>3, MaterialIsCopy DEF DiskInv
<1>5. c - h \in {-1, 0, 1}
  BY <1>4
<1>6. Issuer[c] \in Range(Bundle[h])
  BY Zenon, <1>2, <1>3, <1>5, OverlapAssumption DEF Generations
<1> QED BY Zenon, <1>1, <1>2, <1>3, <1>6 DEF Accepts

\* A handshake adds a refusal only when its two ends do not trust each other.
LEMMA RefusedByShake ==
  ASSUME LifecycleInv, Next, NEW p \in refused' \ refused
  PROVE  \E s, u \in Deployed :
            /\ p = <<s, u>> /\ Shake(s, u)
            /\ ~Trusts(creds[<<s, "client">>], creds[<<u, "server">>])
<1>1. ~(refused' \subseteq refused)
  BY Zenon
<1>2. ASSUME NEW s \in Deployed, Exit(s) PROVE FALSE
  BY Zenon, <1>1, <1>2 DEF Exit
<1>3. ASSUME NEW s \in Deployed, NEW u \in Deployed, Dial(s, u) PROVE FALSE
  BY Zenon, <1>1, <1>3 DEF Dial
<1>4. ASSUME UNCHANGED process PROVE FALSE
  BY Zenon, <1>1, <1>4 DEF process
<1>5. PICK s \in Deployed, u \in Deployed : Shake(s, u)
  <2>1. ASSUME NEW s \in Deployed, Happens(s) \/ TakeLock(s) \/ SessionEnds(s) PROVE FALSE
    BY Zenon, <1>1, <1>2, <2>1 DEF Happens, Arrive, BootFails, ListenerFails, Signal, Kill,
       Disconnect, DrainTimesOut, SessionLost, TakeLock, SessionEnds
  <2>2. ASSUME NEW s \in Deployed, Progress(s) PROVE \E u \in Deployed : Shake(s, u)
    <3>1. ASSUME NEW role, LoadBegins(s, role) \/ LoadEnds(s, role) PROVE FALSE
      BY Zenon, <1>1, <1>2, <1>4, <3>1 DEF LoadBegins, LoadEnds
    <3>2. CASE Start(s) \/ BootStep(s) \/ BootCancelled(s) \/ Unlock(s) \/ ResumeBegins(s)
               \/ ResumeEnds(s) \/ Handle(s) \/ Drained(s) \/ Close(s)
      BY Zenon, <1>1, <1>2, <3>2 DEF Start, BootStep, BootCancelled, Unlock, ResumeBegins,
         ResumeEnds, Handle, Drained, Close
    <3>3. ASSUME NEW u \in Deployed, ShakeLost(s, u) \/ Ask(s, u) \/ Receive(s, u) PROVE FALSE
      BY Zenon, <1>1, <3>3 DEF ShakeLost, Ask, Receive
    <3> QED BY Zenon, <1>3, <1>4, <2>2, <3>1, <3>2, <3>3 DEF Progress
  <2> QED BY Zenon, <1>4, <2>1, <2>2 DEF Next
<1>6. refused' = IF Trusts(creds[<<s, "client">>], creds[<<u, "server">>])
                 THEN refused ELSE refused \cup {<<s, u>>}
  BY Zenon, <1>5 DEF Shake
<1>7. ~Trusts(creds[<<s, "client">>], creds[<<u, "server">>]) /\ p = <<s, u>>
  BY ZenonT(30), <1>6
<1> QED BY ZenonT(30), <1>5, <1>7

\* "a rotation in progress never fails a handshake" (mtls.go), for every interleaving
\* of the reads and the writes of the files, unless a leaf from before the generation
\* being replaced, or a pool that is neither of the two bundles, is in use.
THEOREM HandshakesSucceed == Spec => HandshakeSucceeds
<1>1. ASSUME LifecycleInv, Next, NEW p \in refused' \ refused
      PROVE  \/ p[1] \in Once \/ p[2] \in Once
             \/ Outdated(<<p[1], "client">>)' \/ Outdated(<<p[2], "server">>)'
  <2>1. PICK s \in Deployed, u \in Deployed :
           /\ p = <<s, u>> /\ Shake(s, u)
           /\ ~Trusts(creds[<<s, "client">>], creds[<<u, "server">>])
    BY Zenon, <1>1, RefusedByShake
  <2>2. p[1] = s /\ p[2] = u
    BY <2>1
  <2>3. PICK c, d : c = <<s, "client">> /\ d = <<u, "server">>
    BY Zenon
  <2>4. c[1] = s /\ d[1] = u
    BY <2>3
  <2> SUFFICES ASSUME s \notin Once, u \notin Once, ~Outdated(c)', ~Outdated(d)'
               PROVE  FALSE
    BY Zenon, <2>2, <2>3
  <2>5. ~Outdated(c) /\ ~Outdated(d)
    BY Zenon, <2>1 DEF Shake, Outdated
  <2>6. c \in Ends /\ d \in Ends
    <3>1. s \in Certified /\ u \in Certified
      BY Zenon, <2>1, UpstreamAssumption DEF Shake, Calls
    <3>2. s \in DOMAIN disk /\ u \in DOMAIN disk
      BY Zenon, <1>1, <3>1 DEF LifecycleInv, ProcessOK
    <3> QED BY Zenon, <2>3, <3>2 DEF Ends
  <2>7. reading[c] = Ready /\ reading[d] = Ready
    <3>1. \A e \in {c, d} : e[1] \in Once \/ reading[e] = Ready
      BY Zenon, <2>1, <2>3 DEF Shake
    <3> QED BY Zenon, <2>4, <3>1
  <2>8. InUse(c) /\ InUse(d)
    BY Zenon, <1>1, <2>5, <2>6, <2>7, ReadyInUse
  <2>9. Accepts(creds[c], creds[d]) /\ Accepts(creds[d], creds[c])
    BY Zenon, <1>1, <2>8, InUseAccepts DEF LifecycleInv
  <2> QED BY Zenon, <2>1, <2>3, <2>9 DEF Trusts
<1>2. LifecycleInv /\ [Next]_vars =>
        [\A p \in refused' \ refused :
            \/ p[1] \in Once \/ p[2] \in Once
            \/ Outdated(<<p[1], "client">>)' \/ Outdated(<<p[2], "server">>)']_vars
  BY Zenon, <1>1
<1> QED BY <1>2, LifecycleInvariant, PTL DEF Spec, HandshakeSucceeds

=============================================================================
