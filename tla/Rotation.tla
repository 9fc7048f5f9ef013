------------------------------ MODULE Rotation ------------------------------
(***************************************************************************)
(* Credential rotation (docs/operations.md) over the code that carries it  *)
(* out: main and watchCredentials of cmd/server, the validation of Config, *)
(* the snapshot of tunnel/credentials.go, and the pin check of             *)
(* tunnel/tls.go. An operator changes the files and the clients in the     *)
(* documented order, with slips; each file is read and each client         *)
(* connects in several steps; time passes in days.                         *)
(***************************************************************************)
EXTENDS Config

CONSTANTS
    Clients,
    Week,      \* longest overlap
    MaxTime    \* bound on the days that pass

ASSUME RotationAssumption == Week \in Nat /\ MaxTime \in Nat

VARIABLES
    now,
    file,     \* the server's config file
    pair,     \* the certificate's and the key's file under the path "v2": "none", "empty" or "new"
    queued,   \* reloadSignals holds a signal (capacity one)
    watcher,  \* watchCredentials: "main", "select", "cert", "key" or "publish"
    next,     \* the configuration it has loaded, StartFile outside a reload
    pem,      \* the certificate it has read, then the one of the pair, "none" outside a reload
    current,  \* the configuration in force, for SameRuntimeSettings
    snapshot, \* credentials.current
    asked,    \* observer: what the last signal asked for, <<>> if nothing valid or outdated
    conf,     \* each client's configuration, in force since its last start
    dial,     \* its next connection: "idle", "pinned" or "proving"
    seen      \* the snapshot that Authenticate loaded for it (its keys), None outside it

serverVars == <<queued, watcher, next, pem, current, snapshot>>
clientVars == <<conf, dial, seen>>
rotationVars == <<now, file, pair, serverVars, asked, clientVars>>

-----------------------------------------------------------------------------
\* Configurations. Of a file only the fields are kept that the operator touches.

StartFile ==
    [psk |-> "old", previous |-> "none", previousExpires |-> 0, cert |-> "v1", key |-> "v1",
     ephemeral |-> FALSE]
FinalFile == [StartFile EXCEPT !.psk = "new", !.cert = "v2", !.key = "v2"]
OverlapFile(e) == [FinalFile EXCEPT !.previous = "old", !.previousExpires = e]

\* What an operator may write by mistake on the way: a setting changed at the same time (no
\* certificate is one, for it takes ephemeral), and an overlap with the key itself, like which
\* is every file that LoadServer refuses. Step2 may also ask for an overlap that is too long.
Slips ==
    {[FinalFile EXCEPT !.cert = "none", !.key = "none", !.ephemeral = TRUE],
     [OverlapFile(MaxTime) EXCEPT !.previous = "new"]}

StartClient == [psk |-> "old", pin |-> "old", next |-> "none", nextExpires |-> 0]

\* The whole files
Server(f) ==
    [BaseServer EXCEPT !.psk = f.psk, !.previous = f.previous, !.previousExpires = f.previousExpires,
                       !.cert = f.cert, !.key = f.key, !.ephemeral = f.ephemeral]
Client(f) ==
    [BaseClient EXCEPT !.psk = f.psk, !.pin = f.pin, !.next = f.next, !.nextExpires = f.nextExpires]

\* readCredentialFile, on the path that the loaded configuration holds: the content, and "none" for
\* a file that cannot be opened, is no regular one or is too large.
CertAt(name) == IF Join(name) = "dir/v1" THEN "old" ELSE pair.cert
KeyAt(name) == IF Join(name) = "dir/v1" THEN "old" ELSE pair.key

Credentials(c, cert) ==
    [primary |-> c.psk, previous |-> c.previous, expires |-> c.previousExpires, cert |-> cert]

None == Credentials(StartFile, "none")

-----------------------------------------------------------------------------
\* Predicates of the code

\* Accepts and the key selection of Authenticate
Accepts(s, psk) == psk = s.primary \/ (psk = s.previous /\ now < s.expires)

\* Mutant of VerifyConnection: the next pin is taken for a replacement of the pin.
VerifyConnectionNext(c, cert) ==
    IF c.next # "none" /\ now < c.nextExpires THEN cert = c.next ELSE cert = c.pin

VerifyConnection(c, cert) ==
    \/ cert = c.pin
    \/ c.next # "none" /\ cert = c.next /\ now < c.nextExpires

\* The certificate of a pair: X509KeyPair refuses, with "none", a key that is not the certificate's
\* and what is not a certificate; but for two empty files one is generated.
LoadOrCreateCert(cert, key) ==
    IF cert = "empty" /\ key = "empty" THEN "generated"
    ELSE IF cert = key THEN cert ELSE "none"

\* LoadServer accepts the file, and SameRuntimeSettings finds in it the settings in force.
Loads(f) == LoadServer(Server(f), now, Week)
Comparable(f) == SameRuntimeSettings(LoadedServer(Server(current)), LoadedServer(Server(f)))

\* LoadServer and applyCredentials accept the files as they are, and the pair is complete.
Valid(c) ==
    /\ c.cert # "none" /\ CertAt(c.cert) \in {"old", "new"} /\ CertAt(c.cert) = KeyAt(c.key)
    /\ Loads(c) /\ Comparable(c)

RotationInit ==
    /\ now = 1
    /\ file = StartFile /\ pair = [cert |-> "none", key |-> "none"]
    /\ queued = FALSE /\ watcher = "main" /\ next = StartFile /\ pem = "none"
    /\ current = StartFile /\ snapshot = Credentials(StartFile, "old")
    /\ asked = <<>>
    /\ conf = [c \in Clients |-> StartClient]
    /\ dial = [c \in Clients |-> "idle"]
    /\ seen = [c \in Clients |-> None]

-----------------------------------------------------------------------------
\* The server's process

\* main: LoadServer, New, and the goroutine of watchCredentials
Start ==
    /\ watcher = "main"
    /\ Loads(file)
    /\ current' = file
    /\ watcher' = "select"
    /\ UNCHANGED <<now, file, pair, queued, next, pem, snapshot, asked, clientVars>>

\* A signal is taken, and the file loaded and compared.
Load ==
    /\ watcher = "select" /\ queued
    /\ queued' = FALSE
    /\ IF Loads(file) /\ Comparable(file) /\ file.cert # "none"
       THEN watcher' = "cert" /\ next' = file
       ELSE UNCHANGED <<watcher, next>>
    /\ UNCHANGED <<now, file, pair, pem, current, snapshot, asked, clientVars>>

\* The reload is over, rejected or not.
Finish == watcher' = "select" /\ next' = StartFile /\ pem' = "none"

ReadCert ==
    /\ watcher = "cert"
    /\ IF CertAt(next.cert) = "none" THEN Finish
       ELSE watcher' = "key" /\ pem' = CertAt(next.cert) /\ UNCHANGED next
    /\ UNCHANGED <<now, file, pair, queued, current, snapshot, asked, clientVars>>

\* The key is read, and the pair put together.
ReadKey ==
    /\ watcher = "key"
    /\ LET cert == LoadOrCreateCert(pem, KeyAt(next.key)) IN
       IF cert = "none" THEN Finish
       ELSE watcher' = "publish" /\ pem' = cert /\ UNCHANGED next
    /\ UNCHANGED <<now, file, pair, queued, current, snapshot, asked, clientVars>>

\* Mutant of Update: signals that came during the reload count as served.
UpdateDrains ==
    /\ watcher = "publish"
    /\ Finish /\ queued' = FALSE
    /\ snapshot' = Credentials(next, pem) /\ current' = next
    /\ UNCHANGED <<now, file, pair, asked, clientVars>>

\* ReloadCredentials: Update validates again, then stores one snapshot.
Update ==
    /\ watcher = "publish"
    /\ Finish
    /\ IF ValidateOverlap(next.previous, next.previousExpires, now, Week)
       THEN snapshot' = Credentials(next, pem) /\ current' = next
       ELSE UNCHANGED <<snapshot, current>>
    /\ UNCHANGED <<now, file, pair, queued, asked, clientVars>>

Watch == Load \/ ReadCert \/ ReadKey \/ Update

-----------------------------------------------------------------------------
\* The operator. Steps 1 to 4 are those of docs/operations.md.

Edit(f) ==
    /\ file' = f
    /\ asked' = <<>>
    /\ UNCHANGED <<now, pair, serverVars, clientVars>>

Slip == \E f \in Slips : Edit(f)

\* The two files are created empty; the certificate's is completed before or after its key's.
WritePair ==
    /\ \/ pair.cert = "none" /\ pair' = [cert |-> "empty", key |-> "empty"]
       \/ \E f \in {"cert", "key"} : pair[f] = "empty" /\ pair' = [pair EXCEPT ![f] = "new"]
    /\ asked' = <<>>
    /\ UNCHANGED <<now, file, serverVars, clientVars>>

\* SIGHUP: os/signal drops it when the channel is full.
Signal ==
    /\ queued' = TRUE
    /\ asked' = IF Valid(file) THEN <<Credentials(file, CertAt(file.cert))>> ELSE <<>>
    /\ UNCHANGED <<now, file, pair, watcher, next, pem, current, snapshot, clientVars>>

\* A client's process starts with a new file.
Restart(c, f) ==
    /\ conf' = [conf EXCEPT ![c] = f]
    /\ dial' = [dial EXCEPT ![c] = "idle"]
    /\ seen' = [seen EXCEPT ![c] = None]
    /\ UNCHANGED <<now, file, pair, serverVars, asked>>

\* (Of the expiries that MaxTime does not reach one stands for all.)
Step1(c) ==
    /\ conf[c].psk = "old"
    /\ \E e \in (now + 1)..Least(now + Week, MaxTime + 1) :
          Restart(c, [StartClient EXCEPT !.next = "new", !.nextExpires = e])

\* Only when every client has the next pin. An overlap a day too long is refused, and in force
\* if it is still asked for a day later. (One that is too long until MaxTime is like a slip.)
Step2 ==
    /\ \A c \in Clients : conf[c].next = "new" \/ conf[c].psk = "new"
    /\ \E e \in (now + 1)..Least(now + Week + 1, MaxTime + Week) : Edit(OverlapFile(e))

Step3(c) ==
    /\ snapshot.primary = "new"
    /\ Restart(c, [StartClient EXCEPT !.psk = "new", !.pin = "new"])

Step4 ==
    /\ \A c \in Clients : conf[c].psk = "new"
    /\ Edit(FinalFile)

\* Days pass, but not past an expiry that a client still needs: the operator keeps the overlap,
\* with a margin for the connection that is being authenticated.
NextDay ==
    /\ now < MaxTime
    /\ now' = now + 1
    /\ \A c \in Clients : conf[c].psk = "old" =>
          /\ conf[c].next # "none" => now' < conf[c].nextExpires
          /\ \A f \in {file, next, current} : f.previous = "old" => now' < f.previousExpires
          /\ seen[c].previous = "old" => now' < seen[c].expires
    /\ UNCHANGED <<file, pair, serverVars, asked, clientVars>>

Operate ==
    \/ Slip \/ WritePair \/ Signal \/ Step2 \/ Step4 \/ NextDay
    \/ \E c \in Clients : Step1(c) \/ Step3(c)

-----------------------------------------------------------------------------
\* A client connects: the certificate of the snapshot at the handshake, the snapshot that
\* Authenticate loads, and the check of Accepts against the one then in force. A client that is
\* refused tries again.

Handshake(c) ==
    /\ dial[c] = "idle" /\ VerifyConnection(conf[c], snapshot.cert)
    /\ dial' = [dial EXCEPT ![c] = "pinned"]
    /\ UNCHANGED <<now, file, pair, serverVars, asked, conf, seen>>

Authenticate(c) ==
    /\ dial[c] = "pinned"
    /\ dial' = [dial EXCEPT ![c] = "proving"]
    /\ seen' = [seen EXCEPT ![c] = [snapshot EXCEPT !.cert = "none"]]
    /\ UNCHANGED <<now, file, pair, serverVars, asked, conf>>

\* Accepted or not, Run dials again: at once, or when the connection is lost.
Prove(c) ==
    /\ dial[c] = "proving"
    /\ dial' = [dial EXCEPT ![c] = "idle"]
    /\ seen' = [seen EXCEPT ![c] = None]
    /\ UNCHANGED <<now, file, pair, serverVars, asked, conf>>

Connect == \E c \in Clients : Handshake(c) \/ Authenticate(c) \/ Prove(c)

RotationNext == Start \/ (watcher # "main" /\ (Watch \/ Operate \/ Connect))

RotationSpec == RotationInit /\ [][RotationNext]_rotationVars

\* The watcher's goroutine runs.
FairRotation == RotationSpec /\ WF_rotationVars(Start) /\ WF_rotationVars(Watch)

-----------------------------------------------------------------------------
\* Properties

\* Whatever files the two programs are started with, EdgesSound (LoadServer, LoadClient).
LoadedIsSound == watcher = "main" => EdgesSound

\* "For rotation without stopping every client together": an operator who follows the procedure
\* and keeps within the expiries never locks a client out, whichever of Slips are made on the way
\* and wherever a reload falls between the steps of a connection. The one exception is the case
\* that InvalidPairRejected leaves out.
NoLockout ==
    \A c \in Clients :
        /\ dial[c] = "idle" =>
              /\ LoadClient(Client(conf[c]), now, Week)
              /\ VerifyConnection(conf[c], snapshot.cert) \/ snapshot.cert = "generated"
        /\ dial[c] = "proving" =>
              Accepts(seen[c], conf[c].psk) /\ Accepts(snapshot, conf[c].psk)

\* "invalid key/certificate pairs ... leave the current snapshot active" (docs/operations.md): the
\* certificate in force is always one that the operator has written. It is not: a reload that reads
\* both files while they are empty publishes a generated certificate (LoadOrCreateCert), whose pin
\* no client has.
InvalidPairRejected == snapshot.cert \in {"old", "new"}

\* A SIGHUP that finds valid files is not lost, although signals that come during a reload share
\* one place in the channel: the credentials of the last one are published, unless the files
\* have changed again.
SignalApplied == asked # <<>> ~> (asked = <<>> \/ <<snapshot>> = asked)

=============================================================================
