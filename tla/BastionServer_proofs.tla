------------------------ MODULE BastionServer_proofs ------------------------
(***************************************************************************)
(* Proofs about BastionServer, for every number of deaths, certificates    *)
(* and connections: its types, that the server shows one identity in all   *)
(* its lives, and that a certificate of its own CA lets in nobody but the  *)
(* user of a grant that runs.                                              *)
(***************************************************************************)
EXTENDS BastionServer, FiniteSetTheorems, TLAPS

-----------------------------------------------------------------------------
(* The grant store.                                                        *)

LEMMA StoreStep ==
    ASSUME clock \in Time, IsTable(table), Store!Next
    PROVE  clock' \in Time /\ IsTable(table')
<1> USE GrantsAssumption DEF Time
<1>1. CASE Store!Tick
  BY <1>1 DEF Store!Tick
<1>2. ASSUME NEW id \in Store!GrantId, NEW p \in Principals, NEW t \in Targets \cup {Any},
             NEW d \in Durations, Store!Issue(id, p, t, d)
      PROVE  clock' \in Time /\ IsTable(table')
  <2>1. id \in GrantId /\ id[1] \in Nat
    BY DEF Store!GrantId, Store!Time, GrantId
  <2>2. Store!NewGrant(p, t, d, id[1]) \in Grant
    BY <2>1 DEF Store!NewGrant, Grant
  <2> QED
    BY <1>2, <2>1, <2>2 DEF Store!Issue, IsTable
<1>3. ASSUME NEW ids, Store!Keep(ids)
      PROVE  clock' \in Time /\ IsTable(table')
  BY <1>3 DEF Store!Keep, IsTable
<1> QED
  BY <1>1, <1>2, <1>3 DEF Store!Next, Store!Revoke, Store!Sweep

-----------------------------------------------------------------------------
(* The keys.  A key that the process goes on with is the one in its file,  *)
(* and a file that has been cut short was of a key that never got that     *)
(* far; so what the server has served with is always what its files hold.  *)

LEMMA KeyFacts == /\ Absent \notin Key /\ Partial \notin Key /\ NoKey \notin Key
                  /\ Absent # Partial
  BY ServerAssumption DEF Absent, Partial, NoKey, Key, MaxKeys

\* The types of what only the start and the deaths of the process write.
KeyTypes ==
    /\ proc \in {"down", "host", "host write", "ca", "ca write", "serving"}
    /\ keyFile \in [Kinds -> Key \cup {Absent, Partial}]
    /\ key \in [Kinds -> Key \cup {NoKey}]
    /\ identities \subseteq Key \X Key

InFile(k) == keyFile[k] \in Key /\ key[k] = keyFile[k]

\* Every kind of key is in its file before the start goes on.
StartInOrder ==
    /\ proc \in {"ca", "ca write", "serving"} => InFile("host")
    /\ proc = "serving" => InFile("ca")
    /\ proc = "host write" => keyFile["host"] = Absent /\ key["host"] \in Key
    /\ proc = "ca write" => keyFile["ca"] = Absent /\ key["ca"] \in Key

\* The CA's file is not begun before the host's is there.
FilesInOrder == keyFile["ca"] # Absent => keyFile["host"] \in Key

ServedIsInFiles ==
    identities # {} => /\ keyFile["host"] \in Key /\ keyFile["ca"] \in Key
                       /\ identities = {<<keyFile["host"], keyFile["ca"]>>}

\* A life makes two keys at most, and none any more after it has found a file
\* that was cut short.
MadeInTime ==
    /\ made \in Nat /\ crashes \in Nat /\ crashes <= MaxCrashes
    /\ made <= 2 * crashes + 2
    /\ proc \in {"host write", "ca"} => made <= 2 * crashes + 1
    /\ proc \in {"down", "host"} => made <= 2 * crashes
    /\ keyFile["host"] = Partial \/ keyFile["ca"] = Partial => made <= 2 * crashes

KeyInv == KeyTypes /\ StartInOrder /\ FilesInOrder /\ ServedIsInFiles /\ MadeInTime

LEMMA LoadFound ==
    ASSUME KeyInv, NEW k \in Kinds, LoadKey(k), keyFile[k] \in Key
    PROVE  KeyInv'
<1>1. /\ UNCHANGED <<keyFile, made, crashes>> /\ proc = k /\ HaveKey(k, keyFile[k])
  BY KeyFacts DEF LoadKey
<1>2. KeyTypes' /\ StartInOrder' /\ FilesInOrder' /\ ServedIsInFiles'
  <2> USE DEF KeyInv, KeyTypes, StartInOrder, FilesInOrder, ServedIsInFiles, InFile, Kinds
  <2>1. CASE k = "host"
    BY <1>1, <2>1, KeyFacts DEF HaveKey
  <2>2. CASE k = "ca"
    <3>1. /\ proc' = "serving" /\ key' = [key EXCEPT !["ca"] = keyFile["ca"]]
          /\ identities' = identities \cup {<<keyFile["host"], keyFile["ca"]>>}
          /\ keyFile["host"] \in Key /\ keyFile["ca"] \in Key /\ key["host"] = keyFile["host"]
      BY <1>1, <2>2 DEF HaveKey
    <3>2. identities' = {<<keyFile["host"], keyFile["ca"]>>}
      BY <3>1
    <3>3. KeyTypes'
      <4>1. identities' \subseteq Key \X Key
        <5>1. <<keyFile["host"], keyFile["ca"]>> \in Key \X Key
          BY <3>1
        <5>2. identities \subseteq Key \X Key
          OBVIOUS
        <5> HIDE DEF KeyInv
        <5> QED
          BY <3>1, <5>1, <5>2
      <4>2. key' \in [Kinds -> Key \cup {NoKey}] /\ keyFile' \in [Kinds -> Key \cup {Absent, Partial}]
        BY <1>1, <3>1
      <4> QED
        BY <3>1, <4>1, <4>2
    <3>4. ServedIsInFiles' /\ FilesInOrder'
      BY <1>1, <3>1, <3>2
    <3>5. StartInOrder'
      BY <1>1, <3>1
    <3> QED
      BY <3>3, <3>4, <3>5
  <2> QED
    BY <2>1, <2>2
<1>3. MadeInTime'
  <2>1. MadeInTime /\ UNCHANGED <<keyFile, made, crashes>>
    BY <1>1 DEF KeyInv
  <2>2. CASE k = "host"
    <3>1. proc = "host" /\ proc' = "ca"
      BY <1>1, <2>2 DEF HaveKey
    <3> QED
      BY <2>1, <3>1 DEF MadeInTime
  <2>3. CASE k = "ca"
    <3>1. proc = "ca" /\ proc' = "serving"
      BY <1>1, <2>3 DEF HaveKey
    <3> QED
      BY <2>1, <3>1 DEF MadeInTime
  <2> QED
    BY <2>2, <2>3 DEF Kinds
<1> QED
  BY <1>2, <1>3 DEF KeyInv

LEMMA LoadPartial ==
    ASSUME KeyInv, NEW k \in Kinds, LoadKey(k), keyFile[k] = Partial
    PROVE  KeyInv'
<1>1. /\ UNCHANGED <<keyFile, made, crashes, identities>> /\ proc' = "down"
      /\ key' = [x \in Kinds |-> NoKey]
  BY KeyFacts DEF LoadKey
<1>2. KeyTypes' /\ StartInOrder' /\ FilesInOrder' /\ ServedIsInFiles'
  BY <1>1 DEF KeyInv, KeyTypes, StartInOrder, FilesInOrder, ServedIsInFiles
<1>3. keyFile["host"] = Partial \/ keyFile["ca"] = Partial
  BY DEF Kinds
<1>4. MadeInTime'
  BY <1>1, <1>3, ServerAssumption DEF KeyInv, MadeInTime
<1> QED
  BY <1>2, <1>4 DEF KeyInv

LEMMA LoadAbsent ==
    ASSUME KeyInv, NEW k \in Kinds, LoadKey(k), keyFile[k] = Absent
    PROVE  KeyInv'
<1>1. /\ UNCHANGED <<keyFile, crashes, identities>> /\ proc = k /\ made' = made + 1
      /\ proc' = (IF k = "host" THEN "host write" ELSE "ca write")
      /\ key' = [key EXCEPT ![k] = made'] /\ (k = "host" \/ k = "ca")
  BY KeyFacts DEF LoadKey, Kinds
<1>2. MadeInTime' /\ made' \in Key
  <2>0. made' = made + 1
    BY <1>1
  <2>1. MadeInTime /\ keyFile["host"] # Partial /\ keyFile["ca"] # Partial
    <3>1. CASE k = "host"
      BY <1>1, <3>1, KeyFacts DEF KeyInv, FilesInOrder
    <3>2. CASE k = "ca"
      BY <1>1, <3>2, KeyFacts DEF KeyInv, StartInOrder, InFile
    <3> QED
      BY <1>1, <3>1, <3>2
  <2>2. CASE k = "host"
    <3>1. proc = "host" /\ proc' = "host write"
      BY <1>1, <2>2
    <3>2. made <= 2 * crashes /\ made \in Nat /\ crashes \in Nat /\ crashes <= MaxCrashes
      BY <2>1, <3>1 DEF MadeInTime
    <3>3. made' \in Key
      BY <2>0, <3>2, ServerAssumption DEF Key, MaxKeys
    <3>4. made' <= 2 * crashes + 1 /\ made' <= 2 * crashes + 2 /\ made' \in Nat
      BY <2>0, <3>2
    <3> QED
      BY <1>1, <2>1, <3>1, <3>2, <3>3, <3>4 DEF MadeInTime
  <2>3. CASE k = "ca"
    <3>1. proc = "ca" /\ proc' = "ca write"
      BY <1>1, <2>3
    <3>2. made <= 2 * crashes + 1 /\ made \in Nat /\ crashes \in Nat /\ crashes <= MaxCrashes
      BY <2>1, <3>1 DEF MadeInTime
    <3>3. made' \in Key
      BY <2>0, <3>2, ServerAssumption DEF Key, MaxKeys
    <3>4. made' <= 2 * crashes + 2 /\ made' \in Nat
      BY <2>0, <3>2
    <3> QED
      BY <1>1, <2>1, <3>1, <3>2, <3>3, <3>4 DEF MadeInTime
  <2> QED
    BY <1>1, <2>2, <2>3
<1>3. KeyTypes'
  BY <1>1, <1>2 DEF KeyInv, KeyTypes
<1>4. StartInOrder' /\ FilesInOrder' /\ ServedIsInFiles'
  BY <1>1, <1>2, KeyFacts
  DEF KeyInv, KeyTypes, StartInOrder, FilesInOrder, ServedIsInFiles, InFile, Kinds
<1> QED
  BY <1>2, <1>3, <1>4 DEF KeyInv

LEMMA KeyWritten ==
    ASSUME KeyInv, NEW k \in Kinds, WriteKey(k)
    PROVE  KeyInv'
<1>1. /\ proc = (IF k = "host" THEN "host write" ELSE "ca write")
      /\ proc' = (IF k = "host" THEN "ca" ELSE "serving") /\ (k = "host" \/ k = "ca")
      /\ UNCHANGED <<made, crashes>> /\ HaveKey(k, key[k])
      /\ keyFile' = [keyFile EXCEPT ![k] = key[k]]
  BY DEF WriteKey, HaveKey, Kinds
<1>2. key[k] \in Key /\ keyFile[k] = Absent
  BY <1>1 DEF KeyInv, StartInOrder
<1>3. KeyTypes' /\ StartInOrder' /\ FilesInOrder' /\ ServedIsInFiles'
  <2> USE DEF KeyInv, KeyTypes, StartInOrder, FilesInOrder, ServedIsInFiles, InFile, Kinds
  <2>1. CASE k = "host"
    BY <1>1, <1>2, <2>1, KeyFacts DEF HaveKey
  <2>2. CASE k = "ca"
    <3>1. /\ proc' = "serving" /\ key' = [key EXCEPT !["ca"] = key["ca"]]
          /\ keyFile' = [keyFile EXCEPT !["ca"] = key["ca"]]
          /\ identities' = identities \cup {<<keyFile["host"], key["ca"]>>}
          /\ keyFile["host"] \in Key /\ key["ca"] \in Key /\ key["host"] = keyFile["host"]
      BY <1>1, <1>2, <2>2 DEF HaveKey
    <3>2. identities' = {<<keyFile'["host"], keyFile'["ca"]>>}
      BY <1>2, <2>2, <3>1, KeyFacts
    <3>3. KeyTypes'
      <4>1. identities' \subseteq Key \X Key
        <5>1. <<keyFile["host"], key["ca"]>> \in Key \X Key
          BY <3>1
        <5>2. identities \subseteq Key \X Key
          OBVIOUS
        <5> HIDE DEF KeyInv
        <5> QED
          BY <3>1, <5>1, <5>2
      <4>2. key' \in [Kinds -> Key \cup {NoKey}] /\ keyFile' \in [Kinds -> Key \cup {Absent, Partial}]
        BY <1>1, <3>1
      <4> QED
        BY <3>1, <4>1, <4>2
    <3>4. ServedIsInFiles' /\ FilesInOrder'
      BY <1>1, <3>1, <3>2
    <3>5. StartInOrder'
      BY <1>1, <3>1
    <3> QED
      BY <3>3, <3>4, <3>5
  <2> QED
    BY <1>1, <2>1, <2>2
<1>4. \A x \in Kinds : keyFile'[x] = Partial => keyFile[x] = Partial
  BY <1>1, <1>2, KeyFacts DEF KeyInv, KeyTypes
<1>5. MadeInTime'
  <2>1. MadeInTime /\ UNCHANGED <<made, crashes>>
        /\ (keyFile'["host"] = Partial \/ keyFile'["ca"] = Partial
            => keyFile["host"] = Partial \/ keyFile["ca"] = Partial)
    BY <1>1, <1>4 DEF KeyInv, Kinds
  <2>2. CASE k = "host"
    <3>1. proc = "host write" /\ proc' = "ca"
      BY <1>1, <2>2
    <3> QED
      BY <2>1, <3>1 DEF MadeInTime
  <2>3. CASE k = "ca"
    <3>1. proc = "ca write" /\ proc' = "serving"
      BY <1>1, <2>3
    <3> QED
      BY <2>1, <3>1 DEF MadeInTime
  <2> QED
    BY <1>1, <2>2, <2>3
<1> QED
  BY <1>3, <1>5 DEF KeyInv

LEMMA KeysAfterCrash ==
    ASSUME KeyInv, Crash
    PROVE  KeyInv'
<1>1. /\ crashes' = crashes + 1 /\ crashes < MaxCrashes /\ proc' = "down"
      /\ UNCHANGED <<made, identities>> /\ key' = [k \in Kinds |-> NoKey]
      /\ \/ UNCHANGED keyFile
         \/ proc = "host write" /\ keyFile' = [keyFile EXCEPT !["host"] = Partial]
         \/ proc = "ca write" /\ keyFile' = [keyFile EXCEPT !["ca"] = Partial]
  BY DEF Crash
<1>2. KeyTypes' /\ StartInOrder'
  BY <1>1 DEF KeyInv, KeyTypes, StartInOrder
<1>3. FilesInOrder' /\ ServedIsInFiles'
  BY <1>1, KeyFacts
  DEF KeyInv, KeyTypes, StartInOrder, FilesInOrder, ServedIsInFiles, InFile, Kinds
<1>4. MadeInTime'
  <2>1. /\ made \in Nat /\ crashes \in Nat /\ made <= 2 * crashes + 2
        /\ made' = made /\ crashes' = crashes + 1 /\ crashes < MaxCrashes
    BY <1>1 DEF KeyInv, MadeInTime
  <2>2. /\ made' \in Nat /\ crashes' \in Nat /\ crashes' <= MaxCrashes
        /\ made' <= 2 * crashes' /\ made' <= 2 * crashes' + 1 /\ made' <= 2 * crashes' + 2
    BY <2>1, ServerAssumption
  <2> QED
    BY <2>2 DEF MadeInTime
<1> QED
  BY <1>2, <1>3, <1>4 DEF KeyInv

LEMMA KeyStep ==
    ASSUME KeyInv, [Next]_vars
    PROVE  KeyInv'
<1>1. CASE UNCHANGED <<proc, keyFile, key, made, identities, crashes>>
  BY <1>1 DEF KeyInv, KeyTypes, StartInOrder, FilesInOrder, ServedIsInFiles, InFile, MadeInTime
<1>2. ASSUME NEW k \in Kinds, LoadKey(k) PROVE KeyInv'
  BY <1>2, LoadFound, LoadPartial, LoadAbsent DEF LoadKey
<1>3. CASE Restart
  <2>1. proc = "down" /\ proc' = "host" /\ UNCHANGED <<keyFile, key, made, identities, crashes>>
    BY <1>3 DEF Restart
  <2>2. MadeInTime'
    BY <2>1 DEF KeyInv, MadeInTime
  <2> QED
    BY <2>1, <2>2
    DEF KeyInv, KeyTypes, StartInOrder, FilesInOrder, ServedIsInFiles, InFile
<1>4. ASSUME \/ GrantsChange \/ AcceptFails \/ CheckClosed \/ Close
             \/ \E id \in GrantId : IssueUserCertificate(id)
             \/ \E c \in Conns : Accept(c) \/ Handshake(c) \/ Drop(c)
             \/ UNCHANGED vars
      PROVE  UNCHANGED <<proc, keyFile, key, made, identities, crashes>>
  BY <1>4 DEF GrantsChange, AcceptFails, CheckClosed, Close, IssueUserCertificate, Accept,
              Handshake, Drop, keyVars, vars
<1> QED
  BY <1>1, <1>2, <1>3, <1>4, KeyWritten, KeysAfterCrash DEF Next

LEMMA KeyAlways == Spec => []KeyInv
<1>1. Init => KeyInv
  <2> SUFFICES ASSUME Init PROVE KeyInv
    OBVIOUS
  <2>1. KeyTypes /\ StartInOrder /\ FilesInOrder /\ ServedIsInFiles
    BY KeyFacts
    DEF Init, KeyTypes, StartInOrder, FilesInOrder, ServedIsInFiles, InFile, Kinds
  <2>2. MadeInTime
    BY KeyFacts, ServerAssumption DEF Init, MadeInTime, Kinds
  <2> QED
    BY <2>1, <2>2 DEF KeyInv
<1>2. KeyInv /\ [Next]_vars => KeyInv'
  BY KeyStep
<1> QED
  BY <1>1, <1>2, PTL DEF Spec

\* server.go, loadOrCreateHostKey and loadOrCreateCAKey: however often the
\* process dies, while it makes a key, while it writes one or while it serves,
\* it never serves with another pair of keys than the first.
THEOREM IdentityNeverChanges == Spec => []OneIdentity
<1>1. ServedIsInFiles => OneIdentity
  <2>1. CASE identities = {}
    BY <2>1, FS_EmptySet DEF OneIdentity
  <2>2. ASSUME NEW pair, identities = {pair} PROVE OneIdentity
    <3>1. Cardinality({pair}) = 1
      BY FS_Singleton
    <3> QED
      BY <2>2, <3>1 DEF OneIdentity
  <2> QED
    BY <2>1, <2>2 DEF ServedIsInFiles
<1> QED
  BY <1>1, KeyAlways, PTL DEF KeyInv

-----------------------------------------------------------------------------
(* The connections.  A grant may be gone by the time its certificate is    *)
(* shown; what the certificate says of it was true and stays so.           *)

\* Every grant in the table, and that of every certificate, was once given.
GrantsAreGranted == \A id \in DOMAIN table : table[id] \in granted

CertsAreGranted ==
    \A cert \in certs :
        \E g \in granted : cert.principals = {g.principal} /\ g.expiresAt = cert.until

ConnTypes ==
    /\ clock \in Time
    /\ IsTable(table)
    /\ closed \in BOOLEAN
    /\ loop \in {"accepting", "error", "returned"}
    /\ link \in [Conns -> {"new", "accepted", "open", "gone"}]
    /\ certs \subseteq Certificate
    /\ granted \subseteq Grant
    /\ openedAt \in [Conns -> Time]
    /\ shown \in [Conns -> SUBSET Certificate]

ConnInv == ConnTypes /\ GrantsAreGranted /\ CertsAreGranted /\ CertifiedHadGrant

\* A step that lets nobody in and signs nothing.
LEMMA ConnKept ==
    ASSUME ConnInv, granted \subseteq granted', certs' = certs,
           \A c \in Conns : link'[c] = "open" =>
               link[c] = "open" /\ openedAt'[c] = openedAt[c] /\ shown'[c] = shown[c],
           GrantsAreGranted'
    PROVE  GrantsAreGranted' /\ CertsAreGranted' /\ CertifiedHadGrant'
<1>1. CertsAreGranted'
  BY DEF ConnInv, CertsAreGranted
<1>2. CertifiedHadGrant'
  BY DEF ConnInv, CertifiedHadGrant
<1> QED
  BY <1>1, <1>2

LEMMA ConnStep ==
    ASSUME KeyInv, ConnInv, [Next]_vars
    PROVE  ConnInv'
<1> USE DEF storeVars, keyVars, connVars
<1>1. CASE GrantsChange
  <2>1. clock' \in Time /\ IsTable(table')
    BY <1>1, StoreStep DEF GrantsChange, ConnInv, ConnTypes
  <2>2. granted' \subseteq Grant /\ GrantsAreGranted' /\ granted \subseteq granted'
    BY <1>1, <2>1 DEF GrantsChange, ConnInv, ConnTypes, IsTable, GrantsAreGranted
  <2>3. GrantsAreGranted' /\ CertsAreGranted' /\ CertifiedHadGrant'
    BY <1>1, <2>2, ConnKept DEF GrantsChange
  <2> QED
    BY <1>1, <2>1, <2>2, <2>3 DEF GrantsChange, ConnInv, ConnTypes
<1>2. ASSUME NEW id \in GrantId, IssueUserCertificate(id) PROVE ConnInv'
  <2> DEFINE cert == [signer |-> key["ca"], principals |-> {table[id].principal},
                      from |-> clock, until |-> table[id].expiresAt]
  <2>1. table[id] \in Grant /\ table[id] \in granted
    BY <1>2 DEF IssueUserCertificate, ConnInv, ConnTypes, IsTable, GrantsAreGranted
  <2>2. cert \in Certificate
    <3>1. key["ca"] \in Key
      BY <1>2 DEF IssueUserCertificate, KeyInv, StartInOrder, InFile
    <3>2. {table[id].principal} \in SUBSET Principals /\ table[id].expiresAt \in Nat
      BY <2>1 DEF Grant
    <3>3. clock \in Nat
      BY GrantsAssumption DEF ConnInv, ConnTypes, Time
    <3> QED
      BY <3>1, <3>2, <3>3 DEF Certificate
  <2>3. certs' = certs \cup {cert}
        /\ UNCHANGED <<clock, table, closed, loop, link, granted, openedAt, shown>>
    BY <1>2 DEF IssueUserCertificate
  <2>4. cert.principals = {table[id].principal} /\ cert.until = table[id].expiresAt
    OBVIOUS
  <2> HIDE DEF cert
  <2>5. CertsAreGranted'
    BY <2>1, <2>3, <2>4 DEF ConnInv, CertsAreGranted
  <2>6. GrantsAreGranted' /\ CertifiedHadGrant'
    BY <2>3 DEF ConnInv, GrantsAreGranted, CertifiedHadGrant
  <2> QED
    BY <2>2, <2>3, <2>5, <2>6 DEF ConnInv, ConnTypes, IsTable
<1>3. ASSUME NEW c \in Conns, Handshake(c) PROVE ConnInv'
  <2>1. UNCHANGED <<clock, table, closed, loop, certs, granted>>
    BY <1>3 DEF Handshake
  <2>2. GrantsAreGranted'
    BY <2>1 DEF ConnInv, GrantsAreGranted
  <2>3. ASSUME NEW offer \in SUBSET (certs \cup ForeignCerts), LetIn(c, offer),
               \A cert \in offer : CertValid(cert, User[c])
        PROVE  ConnInv'
    <3>1. offer \in SUBSET Certificate
      BY ServerAssumption DEF ConnInv, ConnTypes, Certificate
    <3>2. ConnTypes'
      BY <2>1, <2>3, <3>1 DEF LetIn, ConnInv, ConnTypes, IsTable
    <3>3. CertsAreGranted'
      BY <2>1 DEF ConnInv, CertsAreGranted
    <3>4. ASSUME NEW x \in Conns, link'[x] = "open", NEW cert \in shown'[x],
                 cert.signer # Foreign
          PROVE  \E g \in granted : g.principal = User[x] /\ openedAt'[x] < g.expiresAt
      <4>1. CASE x # c
        <5>1. link[x] = "open" /\ openedAt'[x] = openedAt[x] /\ shown'[x] = shown[x]
          BY <2>3, <3>4, <4>1 DEF LetIn, ConnInv, ConnTypes
        <5> QED
          BY <3>4, <5>1 DEF ConnInv, CertifiedHadGrant
      <4>2. CASE x = c
        <5>1. cert \in offer /\ openedAt'[x] = clock
          BY <2>3, <3>4, <4>2 DEF LetIn, ConnInv, ConnTypes
        <5>2. cert \in certs
          BY <3>4, <5>1, ServerAssumption
        <5>3. PICK g \in granted : cert.principals = {g.principal} /\ g.expiresAt = cert.until
          BY <5>2 DEF ConnInv, CertsAreGranted
        <5>4. g.principal = User[x] /\ clock < g.expiresAt
          BY <2>3, <4>2, <5>1, <5>3 DEF CertValid
        <5> QED
          BY <5>1, <5>4
      <4> QED
        BY <4>1, <4>2
    <3>5. CertifiedHadGrant'
      BY <2>1, <3>4 DEF CertifiedHadGrant
    <3> QED
      BY <2>2, <3>2, <3>3, <3>5 DEF ConnInv
  <2>4. CASE link' = [link EXCEPT ![c] = "gone"] /\ UNCHANGED <<openedAt, shown>>
    <3>1. ConnTypes'
      BY <2>1, <2>4 DEF ConnInv, ConnTypes, IsTable
    <3>2. \A x \in Conns : link'[x] = "open" => link[x] = "open"
      BY <2>4 DEF ConnInv, ConnTypes
    <3> QED
      BY <2>1, <2>2, <2>4, <3>1, <3>2, ConnKept DEF ConnInv
  <2>5. CASE LetIn(c, {})
    BY <2>3, <2>5
  <2>6. ASSUME NEW cert \in certs \cup ForeignCerts, CertValid(cert, User[c]), LetIn(c, {cert})
        PROVE  ConnInv'
    BY <2>3, <2>6
  <2> QED
    BY <1>3, <2>4, <2>5, <2>6 DEF Handshake
<1>4. CASE Crash
  <2>1. /\ closed' = FALSE /\ loop' = "accepting"
        /\ link' = [c \in Conns |-> IF link[c] = "new" THEN "new" ELSE "gone"]
        /\ openedAt' = [c \in Conns |-> 0] /\ shown' = [c \in Conns |-> {}]
        /\ UNCHANGED <<clock, table, certs, granted>>
    BY <1>4 DEF Crash
  <2>0. 0 \in Time /\ {} \in SUBSET Certificate
    BY GrantsAssumption DEF Time
  <2>2. ConnTypes' /\ GrantsAreGranted'
    <3>1. openedAt' \in [Conns -> Time] /\ shown' \in [Conns -> SUBSET Certificate]
      BY <2>0, <2>1 DEF ConnInv, ConnTypes
    <3> QED
      BY <2>1, <3>1 DEF ConnInv, ConnTypes, IsTable, GrantsAreGranted
  <2>3. \A c \in Conns : link'[c] # "open"
    BY <2>1
  <2> QED
    BY <2>1, <2>2, <2>3, ConnKept DEF ConnInv
<1>5. ASSUME NEW c \in Conns, Drop(c) PROVE ConnInv'
  <2>1. /\ link' = [link EXCEPT ![c] = "gone"]
        /\ openedAt' = [openedAt EXCEPT ![c] = 0] /\ shown' = [shown EXCEPT ![c] = {}]
        /\ UNCHANGED <<clock, table, closed, loop, certs, granted>>
    BY <1>5 DEF Drop
  <2>0. 0 \in Time /\ {} \in SUBSET Certificate
    BY GrantsAssumption DEF Time
  <2>2. ConnTypes' /\ GrantsAreGranted'
    <3>1. openedAt' \in [Conns -> Time] /\ shown' \in [Conns -> SUBSET Certificate]
      BY <2>0, <2>1 DEF ConnInv, ConnTypes
    <3> QED
      BY <2>1, <3>1 DEF ConnInv, ConnTypes, IsTable, GrantsAreGranted
  <2>3. \A x \in Conns : link'[x] = "open" =>
            link[x] = "open" /\ openedAt'[x] = openedAt[x] /\ shown'[x] = shown[x]
    BY <2>1 DEF ConnInv, ConnTypes
  <2> QED
    BY <2>1, <2>2, <2>3, ConnKept DEF ConnInv
<1>6. ASSUME \/ Restart \/ AcceptFails \/ CheckClosed \/ Close \/ UNCHANGED vars
             \/ \E k \in Kinds : LoadKey(k) \/ WriteKey(k)
             \/ \E c \in Conns : Accept(c)
      PROVE  ConnInv'
  <2>1. /\ UNCHANGED <<clock, table, certs, granted, openedAt, shown>>
        /\ closed' \in {closed, TRUE} /\ loop' \in {loop, "accepting", "error", "returned"}
        /\ \/ link' = link
           \/ \E c \in Conns : link' = [link EXCEPT ![c] = "accepted"]
    BY <1>6 DEF Restart, AcceptFails, CheckClosed, Close, vars, LoadKey, WriteKey, Accept
  <2>2. ConnTypes' /\ GrantsAreGranted'
    BY <2>1 DEF ConnInv, ConnTypes, IsTable, GrantsAreGranted
  <2>3. \A c \in Conns : link'[c] = "open" => link[c] = "open"
    BY <2>1 DEF ConnInv, ConnTypes
  <2> QED
    BY <2>1, <2>2, <2>3, ConnKept DEF ConnInv
<1> QED
  BY <1>1, <1>2, <1>3, <1>4, <1>5, <1>6 DEF Next

LEMMA ConnAlways == Spec => []ConnInv
<1>1. Init => ConnInv
  <2> SUFFICES ASSUME Init PROVE ConnInv
    OBVIOUS
  <2>1. clock \in Time /\ IsTable(table) /\ DOMAIN table = {}
    BY DEF Init, Store!Init, Store!Time, Time, Store!EmptyTable, IsTable
  <2>2. openedAt \in [Conns -> Time]
    BY GrantsAssumption DEF Init, Time
  <2> QED
    BY <2>1, <2>2 DEF Init, ConnInv, ConnTypes, GrantsAreGranted, CertsAreGranted,
                      CertifiedHadGrant
<1>2. KeyInv /\ ConnInv /\ [Next]_vars => ConnInv'
  BY ConnStep
<1> QED
  BY <1>1, <1>2, KeyAlways, PTL DEF Spec

\* server.go, PublicKeyCallback, with ca.go, IssueUserCertificate: a certificate
\* of the bastion's own CA lets in nobody but the user of a grant that runs at
\* that time, although neither the check of the certificate nor the handshake
\* looks at the grants that are left, and through every death of the process.
THEOREM CertifiedAlwaysHadGrant == Spec => []CertifiedHadGrant
  BY ConnAlways, PTL DEF ConnInv

\* Every variable of the server keeps its type; no more keys are made than two
\* for every life that the process may have.
THEOREM TypeCorrect == Spec => []TypeOK
<1>1. KeyInv /\ ConnInv => TypeOK
  <2> SUFFICES ASSUME KeyInv, ConnInv PROVE TypeOK
    OBVIOUS
  <2>1. /\ made \in Nat /\ crashes \in Nat /\ crashes <= MaxCrashes
        /\ made <= 2 * crashes + 2
    BY DEF KeyInv, MadeInTime
  <2>2. made \in 0..MaxKeys /\ crashes \in 0..MaxCrashes
    BY <2>1, ServerAssumption DEF MaxKeys
  <2> QED
    BY <2>2 DEF KeyInv, KeyTypes, ConnInv, ConnTypes, TypeOK
<1> QED
  BY <1>1, KeyAlways, ConnAlways, PTL

=============================================================================
