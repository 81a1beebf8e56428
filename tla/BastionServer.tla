--------------------------- MODULE BastionServer ---------------------------
(***************************************************************************)
(* The SSH bastion's own life: internal/bastion/server.go and ca.go.  The  *)
(* two key files are loaded, or made, when it starts; the CA signs         *)
(* certificates for grants; serve accepts connections until Close; a       *)
(* handshake asks for a certificate or an authorized key.  What a          *)
(* connection may then do is in BastionSessions.                           *)
(*                                                                         *)
(* The process may die anywhere, in the middle of writing a key file too.  *)
(* Certificates are with the users and survive it, and so does the grant   *)
(* store.  The clock's unit is the second of the certificates.  Clients    *)
(* may hold certificates of other signers too, and which of its            *)
(* certificates and keys a client offers is left to it.                    *)
(***************************************************************************)
EXTENDS Grants, FiniteSets

CONSTANTS
    Conns,        \* the SSH connections that clients make
    User,         \* the user name of each
    KeyHolders,   \* the connections whose client has an authorized key
    ForeignCerts, \* certificates about that other keys than the CA's have signed
    MaxCerts,     \* bound: certificates signed
    MaxCrashes    \* bound: deaths of the process

Foreign == 0    \* any signer but the bastion's own CA

ASSUME ServerAssumption ==
    /\ User \in [Conns -> Principals]
    /\ KeyHolders \subseteq Conns
    /\ ForeignCerts \subseteq [signer : {Foreign}, principals : SUBSET Principals,
                               from : Nat, until : Nat]
    /\ MaxCerts \in Nat
    /\ MaxCrashes \in Nat

VARIABLES
    clock, table,   \* the grant store
    proc,           \* NewServer's step, or "serving", or "down"
    keyFile,        \* per kind of key: what its file holds
    key,            \* per kind of key: the one in the process
    closed,         \* Server.closed, and the listener
    loop,           \* serve: accepting, holding an error, or returned
    link,           \* per connection
    certs,          \* the certificates signed so far
    made,           \* history: keys generated
    identities,     \* history: the pairs of keys the server has served with
    granted,        \* history: the grants that were ever in the table
    openedAt,       \* history: per open connection, when it was let in,
    shown,          \*   and with which certificate, if with one
    crashes         \* history: deaths so far

storeVars == <<clock, table>>
keyVars == <<proc, keyFile, key, made, identities>>
connVars == <<closed, loop, link, openedAt, shown>>
vars == <<clock, table, proc, keyFile, key, closed, loop, link, certs, made,
          identities, granted, openedAt, shown, crashes>>

Store == INSTANCE AccessGrants

Kinds == {"host", "ca"}
Absent == 0
Partial == -1
MaxKeys == 2 * (MaxCrashes + 1)
Key == 1..MaxKeys
NoKey == 0
Certificate == [signer : Key \cup {Foreign}, principals : SUBSET Principals,
                from : Nat, until : Nat]

TypeOK ==
    /\ clock \in Time
    /\ IsTable(table)
    /\ proc \in {"down", "host", "host write", "ca", "ca write", "serving"}
    /\ keyFile \in [Kinds -> Key \cup {Absent, Partial}]
    /\ key \in [Kinds -> Key \cup {NoKey}]
    /\ closed \in BOOLEAN
    /\ loop \in {"accepting", "error", "returned"}
    /\ link \in [Conns -> {"new", "accepted", "open", "gone"}]
    /\ certs \subseteq Certificate
    /\ made \in 0..MaxKeys
    /\ identities \subseteq Key \X Key
    /\ granted \subseteq Grant
    /\ openedAt \in [Conns -> Time]
    /\ shown \in [Conns -> SUBSET Certificate]
    /\ crashes \in 0..MaxCrashes

Init ==
    /\ Store!Init
    /\ proc = "host"
    /\ keyFile = [k \in Kinds |-> Absent]
    /\ key = [k \in Kinds |-> NoKey]
    /\ closed = FALSE
    /\ loop = "accepting"
    /\ link = [c \in Conns |-> "new"]
    /\ certs = {}
    /\ made = 0
    /\ identities = {}
    /\ granted = {}
    /\ openedAt = [c \in Conns |-> 0]
    /\ shown = [c \in Conns |-> {}]
    /\ crashes = 0

GrantsChange ==
    /\ Store!Next
    /\ granted' = granted \cup {table'[id] : id \in DOMAIN table'}
    /\ UNCHANGED <<certs, crashes>> /\ UNCHANGED keyVars /\ UNCHANGED connVars

-----------------------------------------------------------------------------
(* NewServer: the host key, then the CA's, then serving.                   *)

\* Mutant: a key that was loaded is not kept.
HaveKeyDropped(k, v) ==
    /\ UNCHANGED key
    /\ IF k = "host"
       THEN proc' = "ca" /\ UNCHANGED identities
       ELSE proc' = "serving" /\ identities' = identities \cup {<<key["host"], v>>}

\* What follows the key of a kind, once it is in the process.
HaveKey(k, v) ==
    /\ key' = [key EXCEPT ![k] = v]
    /\ IF k = "host"
       THEN proc' = "ca" /\ UNCHANGED identities
       ELSE proc' = "serving" /\ identities' = identities \cup {<<key["host"], v>>}

\* loadOrCreateHostKey and loadOrCreateCAKey: a file that is there is parsed,
\* and one that does not parse ends the program.
LoadKey(k) ==
    /\ proc = k
    /\ \/ /\ keyFile[k] \in Key
          /\ HaveKey(k, keyFile[k])
          /\ UNCHANGED made
       \/ /\ keyFile[k] = Partial
          /\ proc' = "down"
          /\ key' = [x \in Kinds |-> NoKey]
          /\ UNCHANGED <<made, identities>>
       \/ /\ keyFile[k] = Absent
          /\ made' = made + 1
          /\ key' = [key EXCEPT ![k] = made']
          /\ proc' = IF k = "host" THEN "host write" ELSE "ca write"
          /\ UNCHANGED identities
    /\ UNCHANGED <<keyFile, certs, granted, crashes>>
    /\ UNCHANGED storeVars /\ UNCHANGED connVars

\* Mutant: a key is used without being written.
WriteKeyNever(k) ==
    /\ proc = IF k = "host" THEN "host write" ELSE "ca write"
    /\ HaveKey(k, key[k])
    /\ UNCHANGED <<keyFile, made, certs, granted, crashes>>
    /\ UNCHANGED storeVars /\ UNCHANGED connVars

\* ... and one that is not there is written before the key is used.
WriteKey(k) ==
    /\ proc = IF k = "host" THEN "host write" ELSE "ca write"
    /\ keyFile' = [keyFile EXCEPT ![k] = key[k]]
    /\ HaveKey(k, key[k])
    /\ UNCHANGED <<made, certs, granted, crashes>>
    /\ UNCHANGED storeVars /\ UNCHANGED connVars

\* The process dies; a file it was writing may be there in part.
Crash ==
    /\ proc # "down"
    /\ crashes < MaxCrashes
    /\ crashes' = crashes + 1
    /\ proc' = "down"
    /\ key' = [k \in Kinds |-> NoKey]
    /\ \/ UNCHANGED keyFile
       \/ proc = "host write" /\ keyFile' = [keyFile EXCEPT !["host"] = Partial]
       \/ proc = "ca write" /\ keyFile' = [keyFile EXCEPT !["ca"] = Partial]
    /\ closed' = FALSE
    /\ loop' = "accepting"
    /\ link' = [c \in Conns |-> IF link[c] = "new" THEN "new" ELSE "gone"]
    /\ openedAt' = [c \in Conns |-> 0]
    /\ shown' = [c \in Conns |-> {}]
    /\ UNCHANGED <<certs, made, identities, granted>> /\ UNCHANGED storeVars

\* It is started again, whatever ended it.
Restart ==
    /\ proc = "down"
    /\ proc' = "host"
    /\ UNCHANGED <<keyFile, key, made, identities, certs, granted, crashes>>
    /\ UNCHANGED storeVars /\ UNCHANGED connVars

-----------------------------------------------------------------------------
(* Certificates and connections.                                           *)

\* IssueUserCertificate, for a grant that has not run out.
IssueUserCertificate(id) ==
    /\ proc = "serving"
    /\ id \in DOMAIN table
    /\ table[id].expiresAt > clock
    /\ Cardinality(certs) < MaxCerts
    /\ certs' = certs \cup {[signer |-> key["ca"], principals |-> {table[id].principal},
                             from |-> clock, until |-> table[id].expiresAt]}
    /\ UNCHANGED <<granted, crashes>>
    /\ UNCHANGED storeVars /\ UNCHANGED keyVars /\ UNCHANGED connVars

CertValidLate(cert, user) == user \in cert.principals    \* mutant: at any time

\* ValidateUserCertificate hands the CA's key to CheckCert of x/crypto/ssh (v0.22.0),
\* which looks at the names, if the certificate has any, at the half-open span,
\* and at whether the certificate's signature is its own signer's.  It does not
\* ask IsUserAuthority who that signer is.
CertValid(cert, user) ==
    /\ cert.principals = {} \/ user \in cert.principals
    /\ cert.from <= clock /\ clock < cert.until

Accept(c) ==
    /\ proc = "serving" /\ loop = "accepting" /\ ~ closed
    /\ link[c] = "new"
    /\ link' = [link EXCEPT ![c] = "accepted"]
    /\ UNCHANGED <<closed, loop, openedAt, shown, certs, granted, crashes>>
    /\ UNCHANGED storeVars /\ UNCHANGED keyVars

\* Accept fails: the listener is closed, or for a passing reason.
AcceptFails ==
    /\ proc = "serving" /\ loop = "accepting"
    /\ loop' = "error"
    /\ UNCHANGED <<closed, link, openedAt, shown, certs, granted, crashes>>
    /\ UNCHANGED storeVars /\ UNCHANGED keyVars

\* Mutant: every error is taken for a passing one.
CheckNothing ==
    /\ proc = "serving" /\ loop = "error"
    /\ loop' = "accepting"
    /\ UNCHANGED <<closed, link, openedAt, shown, certs, granted, crashes>>
    /\ UNCHANGED storeVars /\ UNCHANGED keyVars

\* isClosed tells the two apart.
CheckClosed ==
    /\ proc = "serving" /\ loop = "error"
    /\ loop' = IF closed THEN "returned" ELSE "accepting"
    /\ UNCHANGED <<closed, link, openedAt, shown, certs, granted, crashes>>
    /\ UNCHANGED storeVars /\ UNCHANGED keyVars

\* Close shuts the listener and leaves the connections alone.
Close ==
    /\ proc = "serving" /\ ~ closed
    /\ closed' = TRUE
    /\ UNCHANGED <<loop, link, openedAt, shown, certs, granted, crashes>>
    /\ UNCHANGED storeVars /\ UNCHANGED keyVars

LetIn(c, cert) ==
    /\ link' = [link EXCEPT ![c] = "open"]
    /\ openedAt' = [openedAt EXCEPT ![c] = clock]
    /\ shown' = [shown EXCEPT ![c] = cert]

\* The handshake, with the PublicKeyCallback of NewServer: an authorized key is
\* let in under whatever user name, a certificate if it is valid for the name;
\* or nothing that the client offers is accepted.
Handshake(c) ==
    /\ link[c] = "accepted"
    /\ \/ c \in KeyHolders /\ LetIn(c, {})
       \/ \E cert \in certs \cup ForeignCerts :
             CertValid(cert, User[c]) /\ LetIn(c, {cert})
       \/ link' = [link EXCEPT ![c] = "gone"] /\ UNCHANGED <<openedAt, shown>>
    /\ UNCHANGED <<closed, loop, certs, granted, crashes>>
    /\ UNCHANGED storeVars /\ UNCHANGED keyVars

\* handleConn returns when the client goes.
Drop(c) ==
    /\ link[c] \in {"accepted", "open"}
    /\ link' = [link EXCEPT ![c] = "gone"]
    /\ openedAt' = [openedAt EXCEPT ![c] = 0]
    /\ shown' = [shown EXCEPT ![c] = {}]
    /\ UNCHANGED <<closed, loop, certs, granted, crashes>>
    /\ UNCHANGED storeVars /\ UNCHANGED keyVars

Next ==
    \/ GrantsChange
    \/ \E k \in Kinds : LoadKey(k) \/ WriteKey(k)
    \/ Crash \/ Restart
    \/ \E id \in GrantId : IssueUserCertificate(id)
    \/ AcceptFails \/ CheckClosed \/ Close
    \/ \E c \in Conns : Accept(c) \/ Handshake(c) \/ Drop(c)

Spec == Init /\ [][Next]_vars

\* A closed listener fails the Accept that waits on it, and serve's goroutine runs.
Fairness == WF_vars(closed /\ AcceptFails) /\ WF_vars(CheckClosed)

FairSpec == Spec /\ Fairness

-----------------------------------------------------------------------------
(* Properties.                                                             *)

\* The server never comes back with other keys than those it has served with:
\* clients keep knowing its host key, and the users' certificates stay good.
\* A key is in its file before it is used, so a crash can lose the file but
\* not a key that anybody has seen.
OneIdentity == Cardinality(identities) <= 1

\* Who is let in with a certificate of this bastion's own CA, of whichever life
\* of the process, had a grant under the name of the connection that ran at that
\* time, though it may have been revoked since: no such certificate outlives its
\* grant or speaks for another user.  (It is no promise about authorized keys,
\* nor about the certificates of other signers.)
CertifiedHadGrant ==
    \A c \in Conns : link[c] = "open" =>
        \A cert \in shown[c] : cert.signer # Foreign =>
            \E g \in granted : g.principal = User[c] /\ openedAt[c] < g.expiresAt

\* After Close, serve returns, unless the process dies first.
ServeReturns == proc = "serving" /\ closed ~> loop = "returned" \/ proc # "serving"

=============================================================================
