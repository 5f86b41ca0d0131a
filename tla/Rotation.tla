------------------------------ MODULE Rotation ------------------------------
(***************************************************************************)
(* The credentials of the internal gRPC (internal/mtls/mtls.go): three     *)
(* files per service, certificate, key and CA bundle, that an operator     *)
(* replaces one by one while the service re-reads them, one by one, before *)
(* every handshake.  A certificate and a key are the number of the         *)
(* generation they belong to; a bundle is the sequence of the CAs in it.   *)
(* The fraud worker (Once) reads its files only when it starts.            *)
(***************************************************************************)
EXTENDS Integers, Sequences, FiniteSets, FiniteSetsExt, Functions

CONSTANTS Once,       \* services that read their files once, at start
          Issuer,     \* Issuer[g]: the CA that signs generation g
          Bundle,     \* Bundle[g]: the CAs distributed with generation g
          None,       \* no file content, no credentials, no read under way
          Ready       \* the credentials of a handshake have been read

(***************************************************************************)
(* What is assumed of the operator: two consecutive generations trust each *)
(* other, so a change of CA passes through a bundle with both.  Without it *)
(* the two sides of the change refuse each other, as                       *)
(* TestRotationReloadsCABundleOnBothRoles expects.                         *)
(***************************************************************************)
ASSUME OverlapAssumption ==
  \A g, h \in DOMAIN Issuer :
     g - h \in {-1, 0, 1} => Issuer[g] \in Range(Bundle[h])

VARIABLES disk,     \* disk[s]: the files of service s
          gen,      \* the generation being, or last, rolled out
          expired,  \* leaves of generations below this one have expired
          creds,    \* creds[e]: r.mat and the credentials parsed from it
          reading,  \* reading[e]: what readMaterial has read so far
          floor     \* floor[e]: the least generation its handshake may use

rotation == <<disk, gen, expired, creds, reading, floor>>

FileNames == {"cert", "key", "ca"}

\* The order in which a service reads its files.
Files(s) == IF s \in Once THEN <<"ca", "cert", "key">> ELSE <<"cert", "key", "ca">>

Material(g) == [cert |-> g, key |-> g, ca |-> Bundle[g]]

(***************************************************************************)
(* A gRPC connection has a client end and a server end, each a rotating    *)
(* value with its own lock; grpc.NewClient clones the client's.            *)
(***************************************************************************)
Ends == (DOMAIN disk) \X {"client", "server"}

RotationInit(services) ==
  /\ disk = [s \in services |-> Material(1)]
  /\ gen = 1
  /\ expired = 1
  /\ creds = [e \in Ends |-> None]
  /\ reading = [e \in Ends |-> None]
  /\ floor = [e \in Ends |-> 0]

RolledOut(s) == disk[s] = Material(gen)

Reads(e) == reading[e] \notin {None, Ready}

LastGood(e) == IF creds[e] = None THEN 0 ELSE creds[e].cert

(***************************************************************************)
(* A service that reads once must restart within the renewal window.       *)
(***************************************************************************)
Restarted ==
  \A e \in Ends : e[1] \in Once => creds[e] \in {None, Material(gen)}

(***************************************************************************)
(* A generation is rolled out.  A load or a handshake may be under way, if *)
(* it began after the roll-out: weeks pass between two generations, and    *)
(* seconds between the first read of a handshake and its end.              *)
(***************************************************************************)
Settled ==
  /\ Restarted
  /\ \A s \in DOMAIN disk : RolledOut(s)
  /\ \A e \in Ends : reading[e] # None => floor[e] = gen

(***************************************************************************)
(* The operator: issue the next generation; rewrite the files of one       *)
(* service after the other's, a file being for a while half-written; and   *)
(* let the old leaves expire.                                              *)
(***************************************************************************)
Renew ==
  /\ gen + 1 \in DOMAIN Issuer
  /\ Settled
  /\ gen' = gen + 1
  /\ UNCHANGED <<disk, expired, creds, reading, floor>>

ProperPrefixes(ca) == {SubSeq(ca, 1, n) : n \in 0..(Len(ca) - 1)}

\* A half-written key is no better than one that does not match: left out.
HalfWritten(f) ==
  CASE f = "ca"   -> ProperPrefixes(Bundle[gen])
    [] f = "cert" -> {None}
    [] f = "key"  -> {}

(***************************************************************************)
(* A write between two reads tears the copy: its handshake may fall back   *)
(* on the last good credentials, but not behind them.                      *)
(***************************************************************************)
Write(s, f) ==
  /\ disk[s][f] # Material(gen)[f]
  /\ \A t \in (DOMAIN disk) \ {s} : disk[t] \in {Material(gen - 1), Material(gen)}
  /\ \/ /\ disk[s][f] = Material(gen - 1)[f]
        /\ \E half \in HalfWritten(f) : disk' = [disk EXCEPT ![s][f] = half]
     \/ disk' = [disk EXCEPT ![s][f] = Material(gen)[f]]
  /\ floor' = [e \in Ends |->
                 IF e[1] = s /\ Reads(e) THEN LastGood(e) ELSE floor[e]]
  /\ UNCHANGED <<gen, expired, creds, reading>>

Expire ==
  /\ expired < gen
  /\ Settled
  /\ expired' = gen
  /\ UNCHANGED <<disk, gen, creds, reading, floor>>

Writing == \E s \in DOMAIN disk, f \in FileNames : Write(s, f)

Operator == Renew \/ Expire \/ Writing

(***************************************************************************)
(* readMaterial: the three files in turn.                                  *)
(***************************************************************************)
Begun(e) == IF RolledOut(e[1]) THEN gen ELSE LastGood(e)

Begin(ends) ==
  /\ reading' = [e \in Ends |-> IF e \in ends THEN <<>> ELSE reading[e]]
  /\ floor' = [e \in Ends |-> IF e \in ends THEN Begun(e) ELSE floor[e]]

Unread(e) == {i \in DOMAIN Files(e[1]) : Files(e[1])[i] \notin DOMAIN reading[e]}

ReadNext(e) ==
  LET f == Files(e[1])[Min(Unread(e))]
  IN  [name \in DOMAIN reading[e] \cup {f} |->
         IF name = f THEN disk[e[1]][f] ELSE reading[e][name]]

\* The last file is read in the step that uses the copy (Swap, LoadEnds).
LastRead(e) == Reads(e) /\ Unread(e) = {Len(Files(e[1]))}

Read(e) ==
  /\ Reads(e)
  /\ Unread(e) # {}
  /\ ~LastRead(e)
  /\ reading' = [reading EXCEPT ![e] = ReadNext(e)]
  /\ UNCHANGED <<disk, gen, expired, creds, floor>>

Equal(m, o) == m = o

\* Mutant: the key is not held against the certificate.
ParsesUnpaired(m) == m.cert # None /\ m.key # None /\ m.ca # <<>>

(***************************************************************************)
(* parse: X509KeyPair wants both halves of one pair, and the CA file at    *)
(* least one certificate, not all of them.                                 *)
(***************************************************************************)
Parses(m) == m.cert # None /\ m.cert = m.key /\ m.ca # <<>>

\* Mutant: the files count only once the leaf in use has expired.
CurrentExpired(e) ==
  IF creds[e].cert >= expired \/ ~Parses(ReadNext(e))
  THEN creds[e] ELSE ReadNext(e)

(***************************************************************************)
(* current: unchanged files, or files that do not parse, leave the last    *)
(* good credentials in place.                                              *)
(***************************************************************************)
Current(e) ==
  IF Equal(ReadNext(e), creds[e]) \/ ~Parses(ReadNext(e))
  THEN creds[e] ELSE ReadNext(e)

Swap(e) ==
  /\ creds[e] # None
  /\ LastRead(e)
  /\ creds' = [creds EXCEPT ![e] = Current(e)]
  /\ reading' = [reading EXCEPT ![e] = Ready]
  /\ UNCHANGED <<disk, gen, expired, floor>>

(***************************************************************************)
(* Mutual TLS: each end presents a leaf it holds the key of, unexpired,    *)
(* and issued by a CA in the other end's pool.                             *)
(***************************************************************************)
Accepts(mine, theirs) ==
  /\ theirs.cert # None
  /\ theirs.cert = theirs.key
  /\ theirs.cert >= expired
  /\ Issuer[theirs.cert] \in Range(mine.ca)

Trusts(m, o) == Accepts(m, o) /\ Accepts(o, m)

-----------------------------------------------------------------------------
(* What the files, and what has been read of them, may be.                 *)

Generations == DOMAIN Issuer

Leaves == Generations \cup {None}

Bundles == UNION {ProperPrefixes(Bundle[g]) \cup {Bundle[g]} : g \in Generations}

Content(name, cert, key, ca) ==
  CASE name = "cert" -> cert
    [] name = "key"  -> key
    [] name = "ca"   -> ca

Copy(names, cert, key, ca) == [name \in names |-> Content(name, cert, key, ca)]

Copies == {Copy(names, cert, key, ca) : names \in SUBSET FileNames,
                                        cert \in Leaves, key \in Leaves, ca \in Bundles}

\* Generations are numbered from 1; None and Ready are the content of no file.
ASSUME MaterialAssumption ==
  /\ 1 \in Generations /\ Generations \subseteq Nat \ {0} /\ None \notin Generations
  /\ None # Ready /\ {None, Ready} \cap Copies = {}

\* The newest leaf of s that may have been read whole.
LeafBound(s) == IF disk[s].cert = None THEN gen - 1 ELSE disk[s].cert

DiskInv ==
  /\ gen \in Generations
  /\ \A s \in DOMAIN disk : /\ disk[s] \in Copies /\ DOMAIN disk[s] = FileNames
                            /\ disk[s].cert # None => disk[s].cert <= gen

(***************************************************************************)
(* The leaves of the last generation but one expire only when no handshake *)
(* can use them any more.                                                  *)
(***************************************************************************)
ExpiryInv ==
  /\ expired \in Nat
  /\ \/ expired < gen
     \/ /\ expired = gen
        /\ \A s \in DOMAIN disk : RolledOut(s)
        /\ \A e \in Ends : reading[e] # None => floor[e] = gen

\* What an end uses is a pair, and not newer than its files.
Held(e) ==
  /\ creds[e].cert \in Generations
  /\ creds[e].key = creds[e].cert
  /\ creds[e].cert <= LeafBound(e[1])

\* No write has fallen into a read that began when floor[e] was rolled out.
Whole(e) ==
  /\ floor[e] \in Generations
  /\ disk[e[1]] = Material(floor[e])
  /\ \A f \in DOMAIN reading[e] : reading[e][f] = Material(floor[e])[f]

\* A leaf that m has of the files of e is neither older than the one in use nor
\* newer than the files.
Between(e, m) ==
  "cert" \in DOMAIN m /\ m.cert # None =>
     LastGood(e) <= m.cert /\ m.cert <= LeafBound(e[1])

(***************************************************************************)
(* A read is whole, or promises no more than the credentials in use; what  *)
(* a handshake uses afterwards is at least what was promised.  A service   *)
(* that reads once has no credentials while it reads.                      *)
(***************************************************************************)
ReadInv(e) ==
  /\ floor[e] \in Nat
  /\ Reads(e) => /\ reading[e] \in Copies
                 /\ Between(e, reading[e])
                 /\ floor[e] <= LastGood(e) \/ Whole(e)
  /\ creds[e] # None => e[1] \in Once \/ Held(e)
  /\ reading[e] = Ready => /\ creds[e] # None /\ e[1] \notin Once
                           /\ creds[e].cert >= floor[e]
  /\ e[1] \in Once /\ reading[e] # None => creds[e] = None

=============================================================================
