---------------------------- MODULE MCLifecycle -----------------------------
(* Five deployments, each with the faults of one kind of question.         *)
EXTENDS Lifecycle

MCUpstream == [gateway |-> "saga", saga |-> "wallet", worker |-> "ledger"]

Chain == {"gateway", "saga", "wallet"}
Pair == {"worker", "ledger"}
Rotating == {"saga", "wallet"}
Migrating == {"verification", "processor"}
Small == {"api", "rail", "notification"}

MCDeployments == {Chain, Pair, Rotating, Migrating, Small}

\* Every generation has new leaves; the second brings a new CA, which signs the third.
MCIssuer == <<"a", "a", "b">>
\* A bundle lists its CAs in either order.
MCBundle == << <<"a">>, <<"b", "a">>, <<"a", "b">> >>

Total == faults.fail + faults.signal + faults.kill + faults.check + faults.cut
           + faults.loss

Torn(e) == Reads(e) /\ reading[e] # <<>>

\* The server has read a file for a handshake before its client has.
ServerFirst(s) ==
  /\ call[s] = "shake"
  /\ reading[<<s, "client">>] = <<>>
  /\ reading[<<Upstream[s], "server">>] \notin {<<>>, None}

\* Two faults, or one of any kind in the chain and in the worker's pair; the saga and
\* the wallet are signalled twice, or lose their connection.  Sessions are lost where
\* there is nothing but migrations.  Two ends do not interleave their reads:
\* they read the files of two services, of which one is rewritten at a time; in the
\* chain, where none is, a client reads before its server.
Faults ==
  /\ Total <= IF Deployed \in {Chain, Pair} THEN 1 ELSE 2
  /\ Deployed = Rotating => Total = IF faults.cut = 1 THEN 1 ELSE faults.signal
  /\ Deployed = Migrating \/ faults.loss = 0
  /\ Cardinality({e \in Ends : Torn(e)}) <= 1
  /\ Deployed = Chain => \A s \in Deployed : ~ServerFirst(s)

\* A rotation, which only the pairs meet, begins while they serve: a connection breaks
\* in it, or a process restarts.  The calls go no further than the handshake, and
\* while files are rewritten, the upstream's before its client's as in gen-certs.sh,
\* none arrives and no process is before the step that reads them.  The old leaves
\* expire before the next renewal.
Rotated ==
  gen > 1 =>
     /\ \/ Deployed = Rotating /\ Total = faults.cut
        \/ Deployed = Pair /\ Total = faults.kill /\ gen = 2
     /\ expired >= gen - 1
     /\ \A s \in Deployed \cap DOMAIN Upstream :
           disk[s] = Material(gen - 1) \/ disk[Upstream[s]] = Material(gen)
     /\ \A s \in Deployed : phase[s] = "serve" \/ faults.kill = 1
     /\ \A s \in Deployed : call[s] \notin {"wait", "sql", "done"}
     /\ \/ \A s \in Deployed : RolledOut(s)
        \/ \A s \in Deployed : /\ call[s] # "run"
                               /\ phase[s] = "boot" => At(s) \in {"client", "server", "open"}

\* The saga and the wallet shake hands twice, or until they are refused: once in the
\* first two generations, and again after a rotation has begun.
Twice ==
  Deployed = Rotating =>
     /\ refused = {}
     /\ gen = 3 => faults.cut = 1
     /\ faults.cut = 1 => gen > 1 /\ ~conn["saga"]

Bounds == Faults /\ Rotated /\ Twice

\* FairSpec, with one condition for the services of a rank, as no deployment has two,
\* and a fair queue for the lock only where another service takes it for ever: the
\* saga, until the wallet serves.
Rank == [gateway |-> 1, worker |-> 1, verification |-> 1, api |-> 1,
         saga |-> 2, ledger |-> 2, processor |-> 2, rail |-> 2,
         wallet |-> 3, notification |-> 3]

MCFairSpec ==
  /\ Spec
  /\ \A r \in 1..3 :
        WF_vars(\E s \in Deployed : Rank[s] = r /\ (Progress(s) \/ TakeLock(s)))
  /\ SF_vars("wallet" \in Deployed /\ TakeLock("wallet"))
  /\ WF_vars(\E s \in Deployed : SessionEnds(s))
  /\ WF_vars(Writing /\ UNCHANGED process)
=============================================================================
