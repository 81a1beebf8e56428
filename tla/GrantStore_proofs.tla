-------------------------- MODULE GrantStore_proofs --------------------------
(***************************************************************************)
(* Proofs about GrantStore, for every value of its constants: its types,   *)
(* that no grant ID is made twice, that the file and the map implement     *)
(* AccessGrants, each as long as its faults spare it, and what a caller    *)
(* may rely on across deaths of the process.                               *)
(***************************************************************************)
EXTENDS GrantStore, TLAPS

-----------------------------------------------------------------------------
(* Tables.                                                                 *)

\* Adding a grant under an ID, as Add does to the map, leaves a table.
LEMMA WithTable ==
    ASSUME NEW f, IsTable(f), NEW id \in GrantId, NEW g \in Grant
    PROVE  /\ IsTable(With(f, id, g))
           /\ DOMAIN With(f, id, g) = DOMAIN f \cup {id}
    BY DEF IsTable, With

\* Taking grants out, as Delete and Cleanup do, leaves a table.
LEMMA WithoutTable ==
    ASSUME NEW f, IsTable(f), NEW ids
    PROVE  /\ IsTable(Without(f, ids))
           /\ DOMAIN Without(f, ids) = DOMAIN f \ ids
    BY DEF IsTable, Without

\* The map of a new store is a table.
LEMMA EmptyTableIsTable == IsTable(EmptyTable) /\ DOMAIN EmptyTable = {}
    BY DEF IsTable, EmptyTable

\* What Add puts into the map is a grant.
LEMMA NewGrantType ==
    ASSUME NEW p \in Principals, NEW t \in Targets \cup {Any}, NEW d \in Durations,
           NEW now \in Nat
    PROVE  NewGrant(p, t, d, now) \in Grant
    BY GrantsAssumption DEF NewGrant, Grant

-----------------------------------------------------------------------------
(* Type correctness.  Return looks the new grant up in the map, so an Add  *)
(* in progress must have its grant there; Rename moves what WriteFile left *)
(* in the temporary file, which must then be a table.                      *)

InFlight ==
    /\ op.kind \in {"add", "delete"} => op.id \in GrantId
    /\ op.kind = "add" => op.id \in DOMAIN grants
    /\ pc = "rename" => IsTable(tmp)
    /\ pc = "down" => op.kind = "none"

TypeInv == TypeOK /\ InFlight

\* The types, with what they rest on.
LEMMA TypeInvariance == Spec => []TypeInv
<1>1. ASSUME Init PROVE TypeInv
  <2>1. op \in Op /\ op.kind = "none"
    BY <1>1 DEF Init, NoOp, Op
  <2>2. /\ IsTable(grants) /\ IsTable(file) /\ IsTable(acked)
        /\ clock \in Time /\ counter \in 0..MaxCounter
    BY <1>1, GrantsAssumption, EmptyTableIsTable DEF Init, Time
  <2> QED
    BY <1>1, <2>1, <2>2, StoreAssumption DEF Init, TypeInv, TypeOK, InFlight
<1>2. TypeInv /\ [Next]_vars => TypeInv'
  <2> SUFFICES ASSUME TypeInv, [Next]_vars PROVE TypeInv'
    OBVIOUS
  <2> USE GrantsAssumption, StoreAssumption DEF TypeInv, TypeOK, InFlight, NoOp, Op
  <2>1. ASSUME NEW p \in Principals, NEW t \in Targets \cup {Any}, NEW d \in Durations,
               Add(p, t, d)
        PROVE  TypeInv'
    <3> DEFINE new == <<clock, counter'>>
               g == NewGrant(p, t, d, clock)
    <3>1. counter' \in 1..MaxCounter /\ new \in GrantId
      BY <2>1 DEF Add, NewId, GrantId
    <3>2. op' = [kind |-> "add", id |-> new] /\ issued' = issued \cup {new}
      BY <2>1 DEF Add, NewId
    <3>3. grants' = With(grants, new, g)
      BY <2>1 DEF Add, NewId
    <3>4. g \in Grant
      <4>1. clock \in Nat
        BY DEF Time
      <4> QED
        BY <4>1, NewGrantType
    <3> HIDE DEF new, g
    <3>5. IsTable(grants)
      OBVIOUS
    <3>6. IsTable(grants') /\ DOMAIN grants' = DOMAIN grants \cup {new}
      <4> HIDE DEF TypeInv
      <4> QED
        BY <3>1, <3>3, <3>4, <3>5, WithTable
    <3> QED
      BY <2>1, <3>1, <3>2, <3>6 DEF Add, NewId, EnterPersist, diskVars
  <2>2. ASSUME NEW id \in GrantId, Delete(id) PROVE TypeInv'
    <3>1. IsTable(grants')
      BY <2>2, WithoutTable DEF Delete
    <3> QED
      BY <2>2, <3>1 DEF Delete, EnterPersist, diskVars
  <2>3. CASE Cleanup
    <3>1. IsTable(grants')
      BY <2>3, WithoutTable DEF Cleanup
    <3> QED
      BY <2>3, <3>1 DEF Cleanup, EnterPersist, diskVars, historyVars
  <2>4. CASE WriteTmp
    BY <2>4 DEF WriteTmp, historyVars
  <2>5. CASE WriteTmpFails
    BY <2>5 DEF WriteTmpFails, historyVars
  <2>6. CASE Rename
    BY <2>6 DEF Rename, historyVars
  <2>7. CASE RenameFails
    BY <2>7 DEF RenameFails, historyVars
  <2>8. CASE Return
    <3>1. IsTable(acked')
      <4>1. CASE op.kind = "add"
        <5>1. op.id \in GrantId /\ grants[op.id] \in Grant
          BY <4>1 DEF IsTable
        <5> QED
          BY <2>8, <4>1, <5>1, WithTable DEF Return
      <4>2. CASE op.kind # "add"
        BY <2>8, <4>2 DEF Return
      <4> QED
        BY <4>1, <4>2
    <3>2. revoked' \subseteq GrantId
      BY <2>8 DEF Return
    <3> QED
      BY <2>8, <3>1, <3>2 DEF Return, diskVars
  <2>9. CASE Tick
    BY <2>9 DEF Time, Tick, diskVars, historyVars
  <2>10. CASE Crash
    BY <2>10, EmptyTableIsTable DEF Crash
  <2>11. CASE Restart \/ RestartBlind
    <3>1. IsTable(grants') /\ StartUp
      BY <2>11, EmptyTableIsTable DEF Restart, RestartBlind, Load
    <3>2. clock' \in Time
      BY <3>1 DEF StartUp, Time
    <3>3. ioErrors' \in 0..MaxIoErrors /\ persisted' \in {"ok", "failed"}
      BY <2>11 DEF Restart, RestartBlind
    <3> QED
      BY <3>1, <3>2, <3>3 DEF StartUp, historyVars
  <2>12. CASE UNCHANGED vars
    BY <2>12 DEF vars
  <2> QED
    BY <2>1, <2>2, <2>3, <2>4, <2>5, <2>6, <2>7, <2>8, <2>9, <2>10, <2>11, <2>12 DEF Next
<1> QED
  BY <1>1, <1>2, PTL DEF Spec, TypeInv

\* Every variable keeps its type, whatever calls, failures and crashes occur.
THEOREM TypeCorrect == Spec => []TypeOK
  BY TypeInvariance, PTL DEF TypeInv

-----------------------------------------------------------------------------
(* IDs.  Every ID lies before the next one the process would make: in the  *)
(* past, or in this very instant with a counter that is used up.  A dead   *)
(* process knows only that none lies in the future, which is why the next  *)
(* one has to start strictly later.                                        *)

IdInv ==
    \A id \in issued :
        /\ id[1] <= clock
        /\ pc # "down" /\ id[1] = clock => id[2] <= counter

\* Each step leaves every ID made so far behind the clock and the counter.
LEMMA IdInvStep == TypeInv /\ IdInv /\ [Next]_vars => IdInv'
<1> SUFFICES ASSUME TypeInv, IdInv, [Next]_vars PROVE IdInv'
  OBVIOUS
<1>t. /\ clock \in Nat /\ counter \in Nat /\ MaxTime \in Nat
      /\ \A id \in issued : id[1] \in Nat /\ id[2] \in Nat
  BY GrantsAssumption DEF TypeInv, TypeOK, Time, GrantId
<1> USE DEF IdInv
<1>1. ASSUME NEW p \in Principals, NEW t \in Targets \cup {Any}, NEW d \in Durations,
             Add(p, t, d)
      PROVE  IdInv'
  <2>1. /\ pc = "idle" /\ pc' # "down" /\ clock' = clock /\ counter' = counter + 1
        /\ issued' = issued \cup {<<clock, counter + 1>>}
    BY <1>1 DEF Add, NewId, EnterPersist
  <2> QED
    BY <1>t, <2>1
<1>2. ASSUME NEW id \in GrantId, Delete(id) PROVE IdInv'
  BY <1>2, <1>t DEF Delete, EnterPersist
<1>3. CASE Cleanup
  BY <1>3, <1>t DEF Cleanup, EnterPersist, historyVars
<1>4. CASE WriteTmp \/ WriteTmpFails \/ Rename \/ RenameFails
  BY <1>4, <1>t DEF WriteTmp, WriteTmpFails, Rename, RenameFails, historyVars
<1>5. CASE Return
  BY <1>5, <1>t DEF Return
<1>6. CASE Tick
  <2>1. clock' = clock + 1 /\ issued' = issued
    BY <1>6 DEF Tick, historyVars
  <2> QED
    BY <1>t, <2>1
<1>7. CASE Crash
  BY <1>7, <1>t DEF Crash
<1>8. CASE Restart \/ RestartBlind
  <2>1. clock' = clock + 1 /\ issued' = issued
    BY <1>8 DEF Restart, RestartBlind, StartUp, historyVars
  <2> QED
    BY <1>t, <2>1
<1>9. CASE UNCHANGED vars
  BY <1>9 DEF vars
<1> QED
  BY <1>1, <1>2, <1>3, <1>4, <1>5, <1>6, <1>7, <1>8, <1>9 DEF Next

\* The IDs made so far always lie behind the clock and the counter.
LEMMA IdInvariance == Spec => []IdInv
<1>1. Init => IdInv
  BY DEF Init, IdInv
<1> QED
  BY <1>1, TypeInvariance, IdInvStep, PTL DEF Spec

\* Add's ID is new: it lies ahead of everything made before.
LEMMA AddIsNew ==
    ASSUME TypeInv, IdInv, NEW p \in Principals, NEW t \in Targets \cup {Any},
           NEW d \in Durations, Add(p, t, d)
    PROVE  op'.id = <<clock, counter + 1>> /\ op'.id \notin issued
<1>1. pc = "idle" /\ op'.id = <<clock, counter + 1>>
  BY DEF Add, NewId
<1>2. clock \in Nat /\ counter \in Nat
  BY GrantsAssumption DEF TypeInv, TypeOK, Time
<1> QED
  BY <1>1, <1>2 DEF IdInv

\* No Add ever hands out an ID a second time, in this life of the process or
\* in a later one.
THEOREM NoIdReused == Spec => IdsNeverReused
<1> DEFINE New == op'.kind = "add" /\ op.kind # "add" => op'.id \notin issued
<1>1. TypeInv /\ IdInv /\ [Next]_vars => [New]_vars
  <2> SUFFICES ASSUME TypeInv, IdInv, Next PROVE New
    OBVIOUS
  <2>1. ASSUME NEW p \in Principals, NEW t \in Targets \cup {Any}, NEW d \in Durations,
               Add(p, t, d)
        PROVE  New
    BY <2>1, AddIsNew
  <2>2. ASSUME NEW id \in GrantId, Delete(id) PROVE New
    BY <2>2 DEF Delete
  <2>3. CASE Cleanup
    BY <2>3 DEF Cleanup
  <2>4. CASE Return \/ Crash
    BY <2>4 DEF Return, Crash, NoOp
  <2>5. CASE WriteTmp \/ WriteTmpFails \/ Rename \/ RenameFails \/ Tick
                 \/ Restart \/ RestartBlind
    BY <2>5 DEF WriteTmp, WriteTmpFails, Rename, RenameFails, Tick, Restart, RestartBlind,
                StartUp
  <2> QED
    BY <2>1, <2>2, <2>3, <2>4, <2>5 DEF Next
<1> QED
  BY <1>1, TypeInvariance, IdInvariance, PTL DEF Spec, IdsNeverReused

-----------------------------------------------------------------------------
(* The promise.  While a call is inside persist, the map is ahead of the   *)
(* file by exactly what the call does; Rename lets the file catch up.  The *)
(* sets of IDs say why an Add can only add to the file.                    *)

\* What the call in persist is about to do to the file.
Pending ==
    \/ /\ op.kind = "add"
       /\ op.id \in GrantId \ DOMAIN file
       /\ op.id[1] <= clock
       /\ \E p \in Principals, t \in Targets \cup {Any}, d \in Durations :
             grants = With(file, op.id, NewGrant(p, t, d, op.id[1]))
    \/ /\ op.kind = "delete"
       /\ op.id \in DOMAIN file
       /\ grants = Without(file, {op.id})
    \/ \E ids \in SUBSET DOMAIN file :
          /\ \A id \in ids : Expired(file[id], clock)
          /\ grants = Without(file, ids)

\* Every grant anywhere was made by an Add.
KnownIds ==
    /\ DOMAIN file \subseteq issued
    /\ DOMAIN grants \subseteq issued

\* The file, the temporary file and the map agree at the ends of a persist.
InStep ==
    /\ pc \in {"write", "rename"} => HasFile
    /\ pc = "rename" => tmp = grants
    /\ pc \in {"idle", "return"} /\ HasFile /\ persisted = "ok" => grants = file
    /\ ioErrors = 0 => persisted = "ok"

\* What a dead process left behind is in its file.
LeftInFile == pc = "down" /\ HasFile /\ persisted = "ok" /\ left # Unusable => left = file

FileInv ==
    /\ KnownIds
    /\ InStep
    /\ LeftInFile
    /\ ioErrors = 0 /\ pc \in {"write", "rename"} => Pending

\* Each step keeps the file and the map in that relation.
LEMMA FileInvStep ==
    ASSUME TypeInv, IdInv, FileInv, [Next]_vars
    PROVE  FileInv'
<1> USE DEF FileInv, KnownIds, InStep, LeftInFile
<1>1. ASSUME NEW p \in Principals, NEW t \in Targets \cup {Any}, NEW d \in Durations,
             Add(p, t, d)
      PROVE  FileInv'
  <2> DEFINE new == <<clock, counter'>>
             g == NewGrant(p, t, d, clock)
  <2>1. /\ pc = "idle" /\ file' = file /\ tmp' = tmp /\ ioErrors' = ioErrors /\ persisted' = persisted
        /\ clock' = clock /\ pc' = IF HasFile THEN "write" ELSE "return"
    BY <1>1 DEF Add, NewId, EnterPersist, diskVars
  <2>2. /\ op' = [kind |-> "add", id |-> new] /\ issued' = issued \cup {new}
        /\ grants' = With(grants, new, g)
    BY <1>1 DEF Add, NewId
  <2>3. new \in GrantId \ issued
    <3>1. counter' \in 1..MaxCounter
      BY <1>1, GrantsAssumption DEF Add, NewId, TypeInv, TypeOK
    <3> QED
      BY <1>1, <2>2, <3>1, AddIsNew DEF GrantId, TypeInv, TypeOK
  <2>4. new[1] = clock /\ clock \in Nat
    BY DEF TypeInv, TypeOK, Time
  <2>5. g = NewGrant(p, t, d, new[1])
    BY <2>4
  <2> HIDE DEF new, g
  <2>6. DOMAIN grants' \subseteq issued'
    BY <2>2 DEF With
  <2>7. HasFile /\ ioErrors = 0 => Pending'
    <3> SUFFICES ASSUME HasFile, ioErrors = 0 PROVE Pending'
      OBVIOUS
    <3>1. grants' = With(file', new, NewGrant(p, t, d, new[1]))
      BY <2>1, <2>2, <2>5
    <3>2. op'.kind = "add" /\ op'.id = new
      BY <2>2
    <3>3. new \in GrantId \ DOMAIN file' /\ new[1] <= clock'
      BY <2>1, <2>2, <2>3, <2>4
    <3> QED
      BY <3>1, <3>2, <3>3 DEF Pending
  <2> QED
    BY <2>1, <2>2, <2>6, <2>7, StoreAssumption
<1>2. ASSUME NEW id \in GrantId, Delete(id) PROVE FileInv'
  <2>1. /\ pc = "idle" /\ file' = file /\ tmp' = tmp /\ ioErrors' = ioErrors /\ persisted' = persisted
        /\ issued' = issued /\ pc' = IF HasFile THEN "write" ELSE "return"
    BY <1>2 DEF Delete, EnterPersist, diskVars
  <2>2. /\ op' = [kind |-> "delete", id |-> id] /\ id \in DOMAIN grants
        /\ grants' = Without(grants, {id})
    BY <1>2 DEF Delete
  <2>3. DOMAIN grants' \subseteq DOMAIN grants
    BY <2>2 DEF Without
  <2>4. HasFile /\ ioErrors = 0 => Pending'
    BY <2>1, <2>2 DEF Pending
  <2> QED
    BY <2>1, <2>3, <2>4, StoreAssumption
<1>3. CASE Cleanup
  <2> DEFINE removed == {id \in DOMAIN grants : Expired(grants[id], clock)}
  <2>1. /\ pc = "idle" /\ file' = file /\ tmp' = tmp /\ ioErrors' = ioErrors /\ persisted' = persisted
        /\ issued' = issued /\ clock' = clock
        /\ pc' = IF HasFile THEN "write" ELSE "return"
    BY <1>3 DEF Cleanup, EnterPersist, diskVars, historyVars
  <2>2. grants' = Without(grants, removed)
    BY <1>3 DEF Cleanup
  <2>3. DOMAIN grants' \subseteq DOMAIN grants
    BY <2>2 DEF Without
  <2>4. HasFile /\ ioErrors = 0 => Pending'
    <3> SUFFICES ASSUME HasFile, ioErrors = 0 PROVE Pending'
      OBVIOUS
    <3>1. /\ removed \in SUBSET DOMAIN file'
          /\ \A id \in removed : Expired(file'[id], clock')
          /\ grants' = Without(file', removed)
      BY <2>1, <2>2
    <3> HIDE DEF removed
    <3> QED
      BY <3>1 DEF Pending
  <2> QED
    BY <2>1, <2>3, <2>4, StoreAssumption
<1>4. CASE WriteTmp
  BY <1>4 DEF WriteTmp, historyVars, Pending
<1>5. CASE WriteTmpFails \/ RenameFails
  <2>1. ioErrors' # 0
    BY <1>5, StoreAssumption DEF WriteTmpFails, RenameFails, TypeInv, TypeOK
  <2> QED
    BY <1>5, <2>1 DEF WriteTmpFails, RenameFails, historyVars
<1>6. CASE Rename
  BY <1>6 DEF Rename, historyVars
<1>7. CASE Return
  BY <1>7 DEF Return, diskVars
<1>8. CASE Tick
  <2>1. /\ clock' = clock + 1 /\ file' = file /\ tmp' = tmp /\ ioErrors' = ioErrors
        /\ pc' = pc /\ op' = op /\ grants' = grants /\ issued' = issued
        /\ persisted' = persisted /\ left' = left
    BY <1>8 DEF Tick, diskVars, historyVars
  <2>2. ASSUME NEW id \in DOMAIN file, Expired(file[id], clock)
        PROVE  Expired(file[id], clock + 1)
    <3>1. file[id].expiresAt \in Nat /\ clock \in Nat
      BY DEF TypeInv, TypeOK, IsTable, Grant, Time
    <3> QED
      BY <2>2, <3>1 DEF Expired
  <2>3. Pending => Pending'
    <3>1. CASE op.kind = "add" /\ op.id \in GrantId /\ op.id[1] <= clock
      <4>1. op.id[1] <= clock'
        BY <2>1, <3>1, GrantsAssumption DEF TypeInv, TypeOK, Time, GrantId
      <4> QED
        BY <2>1, <2>2, <4>1 DEF Pending
    <3>2. CASE ~ (op.kind = "add" /\ op.id \in GrantId /\ op.id[1] <= clock)
      BY <2>1, <2>2, <3>2 DEF Pending
    <3> QED
      BY <3>1, <3>2
  <2> QED
    BY <2>1, <2>3
<1>9. CASE Crash
  BY <1>9, EmptyTableIsTable DEF Crash
<1>10. CASE Restart \/ RestartBlind
  <2>1. /\ pc = "down" /\ pc' = "idle" /\ file' = file /\ tmp' = tmp /\ issued' = issued
        /\ grants' = EmptyTable \/ grants' = file
    BY <1>10 DEF Restart, RestartBlind, StartUp, Load, historyVars
  <2>2. HasFile /\ persisted' = "ok" => grants' = file'
    BY <1>10, <2>1 DEF Restart, RestartBlind, Load
  <2>3. ioErrors' = 0 => persisted' = "ok"
    BY <1>10, StoreAssumption DEF Restart, RestartBlind, TypeInv, TypeOK
  <2> QED
    BY <2>1, <2>2, <2>3, EmptyTableIsTable
<1>11. CASE UNCHANGED vars
  BY <1>11 DEF vars, Pending
<1> QED
  BY <1>1, <1>2, <1>3, <1>4, <1>5, <1>6, <1>7, <1>8, <1>9, <1>10, <1>11 DEF Next

\* The file and the map are always related as above.
LEMMA FileInvariance == Spec => []FileInv
<1>1. Init => FileInv
  BY EmptyTableIsTable DEF Init, FileInv, KnownIds, InStep, LeftInFile
<1>2. TypeInv /\ IdInv /\ FileInv /\ [Next]_vars => FileInv'
  BY FileInvStep
<1> QED
  BY <1>1, <1>2, TypeInvariance, IdInvariance, PTL DEF Spec

\* The Rename that ends an Add, a Delete or a Cleanup is the Issue, Revoke or
\* Sweep that AccessGrants promises.
LEMMA RenameImplements ==
    ASSUME TypeInv, FileInv, Rename, ioErrors = 0
    PROVE  Promise!Next
<1>1. file' = grants /\ clock' = clock /\ Pending
  BY DEF Rename, FileInv, InStep
<1>2. CASE op.kind = "add" /\ op.id \in GrantId \ DOMAIN file /\ op.id[1] <= clock
           /\ \E p \in Principals, t \in Targets \cup {Any}, d \in Durations :
                grants = With(file, op.id, NewGrant(p, t, d, op.id[1]))
  <2>1. PICK p \in Principals, t \in Targets \cup {Any}, d \in Durations :
                grants = With(file, op.id, NewGrant(p, t, d, op.id[1]))
    BY <1>2
  <2>2. Promise!Issue(op.id, p, t, d)
    BY <1>1, <1>2, <2>1 DEF Promise!Issue, With, NewGrant, Promise!NewGrant
  <2>3. op.id \in Promise!GrantId
    BY <1>2 DEF Promise!GrantId, GrantId, Promise!Time, Time
  <2> QED
    BY <2>2, <2>3 DEF Promise!Next
<1>3. CASE op.kind = "delete" /\ op.id \in DOMAIN file /\ grants = Without(file, {op.id})
  <2>1. Promise!Revoke(op.id)
    BY <1>1, <1>3 DEF Promise!Revoke, Promise!Keep, Without
  <2> QED
    BY <1>3, <2>1 DEF Promise!Next
<1>4. ASSUME NEW ids \in SUBSET DOMAIN file, \A id \in ids : Expired(file[id], clock),
             grants = Without(file, ids)
      PROVE  Promise!Next
  <2>1. Promise!Keep(DOMAIN file \ ids)
    BY <1>1, <1>4 DEF Promise!Keep, Without
  <2>2. \A id \in DOMAIN file \ (DOMAIN file \ ids) : Promise!Expired(file[id], clock)
    BY <1>4 DEF Expired, Promise!Expired
  <2>3. Promise!Sweep
    BY <2>1, <2>2 DEF Promise!Sweep
  <2> QED
    BY <2>3 DEF Promise!Next
<1> QED
  BY <1>1, <1>2, <1>3, <1>4 DEF Pending

\* Until a file operation fails, the store keeps its promise: through any
\* sequence of calls, deaths of the process at any point of them, and
\* restarts, its file changes only as AccessGrants allows.
THEOREM StoreImplementsAccessGrants == Spec => ImplementsAccessGrants
<1> DEFINE Kept == ioErrors' = 0 => [Promise!Next]_(Promise!vars)
<1>1. Init => Promise!Init
  BY GrantsAssumption DEF Init, Promise!Init, EmptyTable, Promise!EmptyTable, Promise!Time
<1>2. TypeInv /\ FileInv /\ [Next]_vars => [Kept]_vars
  <2> SUFFICES ASSUME TypeInv, FileInv, Next, ioErrors' = 0
               PROVE  Promise!Next \/ UNCHANGED Promise!vars
    OBVIOUS
  <2> USE DEF Promise!vars
  <2>1. CASE Rename
    BY <2>1, RenameImplements DEF Rename
  <2>2. CASE Tick
    BY <2>2 DEF Tick, diskVars, Promise!Tick, Promise!Next
  <2>3. CASE Restart \/ RestartBlind
    <3>1. clock < MaxTime /\ clock' = clock + 1 /\ file' = file
      BY <2>3 DEF Restart, RestartBlind, StartUp
    <3> QED
      BY <3>1 DEF Promise!Tick, Promise!Next
  <2>4. ASSUME NEW p \in Principals, NEW t \in Targets \cup {Any}, NEW d \in Durations,
               Add(p, t, d)
        PROVE  UNCHANGED Promise!vars
    BY <2>4 DEF Add, NewId, diskVars
  <2>5. ASSUME NEW id \in GrantId, Delete(id) PROVE UNCHANGED Promise!vars
    BY <2>5 DEF Delete, diskVars
  <2>6. CASE Cleanup \/ WriteTmp \/ WriteTmpFails \/ RenameFails \/ Return \/ Crash
    BY <2>6 DEF Cleanup, WriteTmp, WriteTmpFails, RenameFails, Return, Crash, diskVars
  <2> QED
    BY <2>1, <2>2, <2>3, <2>4, <2>5, <2>6 DEF Next
<1> QED
  BY <1>1, <1>2, TypeInvariance, FileInvariance, PTL DEF Spec, ImplementsAccessGrants

-----------------------------------------------------------------------------
(* The map in memory, in each life of the process.                         *)

\* Each call of a store whose process lives, with a file or without and with
\* file operations that fail or not, changes the map as AccessGrants allows:
\* this is the store the sessions of the bastion are checked against.
THEOREM MemoryImplementsAccessGrants == Spec => ImplementsInMemory
<1> DEFINE Kept == pc # "down" /\ pc' # "down" => [InMemory!Next]_(InMemory!vars)
<1>1. Init => InMemory!Init
  BY GrantsAssumption DEF Init, InMemory!Init, EmptyTable, InMemory!EmptyTable, InMemory!Time
<1>2. TypeInv /\ IdInv /\ FileInv /\ [Next]_vars => [Kept]_vars
  <2> SUFFICES ASSUME TypeInv, IdInv, FileInv, Next, pc # "down", pc' # "down"
               PROVE  InMemory!Next \/ UNCHANGED InMemory!vars
    OBVIOUS
  <2> USE DEF InMemory!vars
  <2>1. ASSUME NEW p \in Principals, NEW t \in Targets \cup {Any}, NEW d \in Durations,
               Add(p, t, d)
        PROVE  InMemory!Next
    <3> DEFINE id == <<clock, counter + 1>>
    <3>1. clock \in Time /\ counter + 1 \in 1..MaxCounter
      BY <2>1, GrantsAssumption DEF Add, TypeInv, TypeOK
    <3>2. id \in InMemory!GrantId /\ id[1] = clock
      BY <3>1 DEF InMemory!GrantId, InMemory!Time, Time
    <3>3. /\ clock' = clock
          /\ grants' = With(grants, id, NewGrant(p, t, d, clock))
      BY <2>1 DEF Add, NewId
    <3>4. id \notin DOMAIN grants
      <4>1. op'.id = id /\ op'.id \notin issued
        BY <2>1, AddIsNew
      <4> QED
        BY <4>1 DEF FileInv, KnownIds
    <3>5. clock <= clock
      BY <3>1, GrantsAssumption DEF Time
    <3> HIDE DEF id
    <3>6. InMemory!Issue(id, p, t, d)
      BY <3>2, <3>3, <3>4, <3>5 DEF InMemory!Issue, With, NewGrant, InMemory!NewGrant
    <3> QED
      BY <3>2, <3>6 DEF InMemory!Next
  <2>2. ASSUME NEW i \in GrantId, Delete(i) PROVE InMemory!Next
    <3>1. InMemory!Revoke(i) /\ i \in DOMAIN grants
      BY <2>2 DEF Delete, InMemory!Revoke, InMemory!Keep, Without
    <3> QED
      BY <3>1 DEF InMemory!Next
  <2>3. CASE Cleanup
    <3> DEFINE removed == {i \in DOMAIN grants : Expired(grants[i], clock)}
    <3>1. grants' = Without(grants, removed) /\ clock' = clock
      BY <2>3 DEF Cleanup
    <3>2. InMemory!Keep(DOMAIN grants \ removed)
      BY <3>1 DEF InMemory!Keep, Without
    <3>3. \A i \in DOMAIN grants \ (DOMAIN grants \ removed) :
             InMemory!Expired(grants[i], clock)
      BY DEF Expired, InMemory!Expired
    <3>4. InMemory!Sweep
      BY <3>2, <3>3 DEF InMemory!Sweep
    <3> QED
      BY <3>4 DEF InMemory!Next
  <2>4. CASE Tick
    BY <2>4 DEF Tick, diskVars, InMemory!Tick, InMemory!Next
  <2>5. CASE WriteTmp \/ WriteTmpFails \/ Rename \/ RenameFails \/ Return
    BY <2>5 DEF WriteTmp, WriteTmpFails, Rename, RenameFails, Return
  <2>6. ~ Crash /\ ~ Restart /\ ~ RestartBlind
    BY DEF Crash, Restart, RestartBlind, StartUp
  <2> QED
    BY <2>1, <2>2, <2>3, <2>4, <2>5, <2>6 DEF Next
<1> QED
  BY <1>1, <1>2, TypeInvariance, IdInvariance, FileInvariance, PTL DEF Spec, ImplementsInMemory

-----------------------------------------------------------------------------
(* What a caller may rely on across the lives of the process.              *)

\* A process that died between two calls, after a load or persist that went
\* through, comes up with the very map it died with, if it can read its file.
THEOREM RestartsChangeNothing == Spec => RestartChangesNothing
<1> DEFINE Same ==
      pc = "down" /\ pc' # "down" /\ left # Unusable /\ HasFile /\ persisted = "ok"
      /\ ioErrors' = ioErrors => grants' = left
<1>1. TypeInv /\ FileInv /\ [Next]_vars => [Same]_vars
  <2> SUFFICES ASSUME TypeInv, FileInv, Next, pc = "down", pc' # "down", left # Unusable,
                      HasFile, persisted = "ok", ioErrors' = ioErrors
               PROVE  grants' = left
    OBVIOUS
  <2>1. left = file
    BY DEF FileInv, LeftInFile
  <2>2. CASE Restart
    BY <2>1, <2>2 DEF Restart, Load
  <2>3. ~ RestartBlind
    BY StoreAssumption DEF RestartBlind, TypeInv, TypeOK
  <2>4. ~ \E p \in Principals, t \in Targets \cup {Any}, d \in Durations : Add(p, t, d)
    BY DEF Add
  <2>5. ~ \E id \in GrantId : Delete(id)
    BY DEF Delete
  <2>6. ~ (Cleanup \/ WriteTmp \/ WriteTmpFails \/ Rename \/ RenameFails \/ Return
           \/ Tick \/ Crash)
    BY DEF Cleanup, WriteTmp, WriteTmpFails, Rename, RenameFails, Return, Tick, Crash
  <2> QED
    BY <2>2, <2>3, <2>4, <2>5, <2>6 DEF Next
<1> QED
  BY <1>1, TypeInvariance, FileInvariance, PTL DEF Spec, RestartChangesNothing

\* The IDs revoked are in neither the map nor the file, and the one about to
\* be is out of the map and, once its persist has returned, of the file.
RevokedInv ==
    /\ revoked \subseteq issued
    /\ op.kind = "delete" => op.id \in issued /\ op.id \notin DOMAIN grants
    /\ ioErrors = 0 =>
          /\ revoked \cap DOMAIN grants = {}
          /\ HasFile => revoked \cap DOMAIN file = {}

\* Each step leaves revoked grants out of the map and the file.
LEMMA RevokedInvStep ==
    ASSUME TypeInv, IdInv, FileInv, RevokedInv, [Next]_vars
    PROVE  RevokedInv'
<1> USE DEF RevokedInv
<1>t. /\ \A id \in revoked : id \in issued
      /\ op.kind = "add" => op.id \in DOMAIN grants
      /\ DOMAIN EmptyTable = {}
  BY EmptyTableIsTable DEF TypeInv, InFlight
<1>1. ASSUME NEW p \in Principals, NEW t \in Targets \cup {Any}, NEW d \in Durations,
             Add(p, t, d)
      PROVE  RevokedInv'
  <2>1. op'.id \notin issued
    BY <1>1, AddIsNew
  <2>2. /\ op'.kind = "add" /\ issued' = issued \cup {op'.id} /\ revoked' = revoked
        /\ file' = file /\ ioErrors' = ioErrors
        /\ DOMAIN grants' = DOMAIN grants \cup {op'.id}
    BY <1>1 DEF Add, diskVars, With
  <2> QED
    BY <2>1, <2>2
<1>2. ASSUME NEW id \in GrantId, Delete(id) PROVE RevokedInv'
  <2>1. /\ op'.kind = "delete" /\ op'.id = id /\ issued' = issued /\ revoked' = revoked
        /\ file' = file /\ ioErrors' = ioErrors /\ id \in DOMAIN grants
        /\ DOMAIN grants' = DOMAIN grants \ {id}
    BY <1>2 DEF Delete, diskVars, Without
  <2> QED
    BY <2>1 DEF FileInv, KnownIds
<1>3. CASE Cleanup
  <2>1. /\ op'.kind = "cleanup" /\ issued' = issued /\ revoked' = revoked
        /\ file' = file /\ ioErrors' = ioErrors
        /\ DOMAIN grants' \subseteq DOMAIN grants
    BY <1>3 DEF Cleanup, diskVars, historyVars, Without
  <2> QED
    BY <2>1
<1>4. CASE WriteTmp
  BY <1>4 DEF WriteTmp, historyVars
<1>5. CASE WriteTmpFails \/ RenameFails
  <2>1. ioErrors' # 0
    BY <1>5, StoreAssumption DEF WriteTmpFails, RenameFails, TypeInv, TypeOK
  <2> QED
    BY <1>5, <2>1 DEF WriteTmpFails, RenameFails, historyVars
<1>6. CASE Rename
  BY <1>6 DEF Rename, historyVars, FileInv, InStep
<1>7. CASE Return
  BY <1>7 DEF Return, NoOp, diskVars, FileInv, InStep
<1>8. CASE Tick
  BY <1>8 DEF Tick, diskVars, historyVars
<1>9. CASE Crash
  BY <1>9, <1>t DEF Crash, NoOp
<1>10. CASE Restart \/ RestartBlind
  <2>1. op.kind = "none"
    BY <1>10 DEF Restart, RestartBlind, StartUp, TypeInv, InFlight
  <2>2. CASE Restart
    BY <1>t, <2>1, <2>2 DEF Restart, StartUp, Load, historyVars
  <2>3. CASE RestartBlind
    BY <1>t, <2>1, <2>3, StoreAssumption DEF RestartBlind, StartUp, historyVars, TypeInv, TypeOK
  <2> QED
    BY <1>10, <2>2, <2>3
<1>11. CASE UNCHANGED vars
  BY <1>11 DEF vars
<1> QED
  BY <1>1, <1>2, <1>3, <1>4, <1>5, <1>6, <1>7, <1>8, <1>9, <1>10, <1>11 DEF Next

\* No grant comes back once its Delete has returned true, until a file
\* operation fails.
THEOREM RevokedNeverReturns == Spec => []RevokedStaysRevoked
<1>1. Init => RevokedInv
  BY DEF Init, NoOp, RevokedInv
<1>2. RevokedInv => RevokedStaysRevoked
  BY DEF RevokedInv, RevokedStaysRevoked
<1> QED
  BY <1>1, <1>2, TypeInvariance, IdInvariance, FileInvariance, RevokedInvStep, PTL DEF Spec

\* The grants acknowledged, while they run and nobody deletes them, are in the
\* file, and in the map of a process that lives.
AckedInv ==
    /\ DOMAIN acked \subseteq issued
    /\ HasFile /\ ioErrors = 0 =>
          \A id \in DOMAIN acked \ deleting : ~ Expired(acked[id], clock) =>
              /\ id \in DOMAIN file /\ file[id] = acked[id]
              /\ pc # "down" => id \in DOMAIN grants /\ grants[id] = acked[id]

\* A grant that has run out at one time has run out at the next.
LEMMA ExpiredStays ==
    ASSUME NEW g \in Grant, NEW now \in Nat, Expired(g, now)
    PROVE  Expired(g, now + 1)
<1>1. g.expiresAt \in Nat
  BY DEF Grant
<1> QED
  BY <1>1 DEF Expired

\* Each step keeps the acknowledged grants where they can be found.
LEMMA AckedInvStep ==
    ASSUME TypeInv, IdInv, FileInv, AckedInv, [Next]_vars
    PROVE  AckedInv'
<1> USE DEF AckedInv
<1>t. /\ \A id \in DOMAIN acked : acked[id] \in Grant
      /\ clock \in Nat
      /\ op.kind = "add" => op.id \in DOMAIN grants
  BY DEF TypeInv, TypeOK, IsTable, InFlight, Time
<1>1. ASSUME NEW p \in Principals, NEW t \in Targets \cup {Any}, NEW d \in Durations,
             Add(p, t, d)
      PROVE  AckedInv'
  <2>1. op'.id \notin issued
    BY <1>1, AddIsNew
  <2>2. /\ issued' = issued \cup {op'.id} /\ acked' = acked /\ deleting' = deleting
        /\ file' = file /\ ioErrors' = ioErrors /\ clock' = clock /\ pc # "down"
        /\ DOMAIN grants' = DOMAIN grants \cup {op'.id}
        /\ \A id \in DOMAIN grants : id # op'.id => grants'[id] = grants[id]
    BY <1>1 DEF Add, diskVars, With
  <2> QED
    BY <2>1, <2>2
<1>2. ASSUME NEW id \in GrantId, Delete(id) PROVE AckedInv'
  <2>1. /\ issued' = issued /\ acked' = acked /\ deleting' = deleting \cup {id}
        /\ file' = file /\ ioErrors' = ioErrors /\ clock' = clock /\ pc # "down"
        /\ DOMAIN grants' = DOMAIN grants \ {id}
        /\ \A i \in DOMAIN grants' : grants'[i] = grants[i]
    BY <1>2 DEF Delete, diskVars, Without
  <2> QED
    BY <2>1
<1>3. CASE Cleanup
  <2>1. /\ issued' = issued /\ acked' = acked /\ deleting' = deleting
        /\ file' = file /\ ioErrors' = ioErrors /\ clock' = clock /\ pc # "down"
        /\ \A i \in DOMAIN grants : ~ Expired(grants[i], clock) =>
              i \in DOMAIN grants' /\ grants'[i] = grants[i]
    BY <1>3 DEF Cleanup, diskVars, historyVars, Without
  <2> QED
    BY <2>1
<1>4. CASE WriteTmp
  BY <1>4 DEF WriteTmp, historyVars
<1>5. CASE WriteTmpFails \/ RenameFails
  <2>1. ioErrors' # 0
    BY <1>5, StoreAssumption DEF WriteTmpFails, RenameFails, TypeInv, TypeOK
  <2> QED
    BY <1>5, <2>1 DEF WriteTmpFails, RenameFails, historyVars
<1>6. CASE Rename
  BY <1>6 DEF Rename, historyVars, FileInv, InStep
<1>7. CASE Return
  <2>1. /\ issued' = issued /\ deleting' = deleting /\ clock' = clock
        /\ grants' = grants /\ file' = file /\ ioErrors' = ioErrors
        /\ pc = "return" /\ pc' = "idle"
    BY <1>7 DEF Return, diskVars
  <2>2. HasFile /\ ioErrors = 0 => grants = file
    BY <2>1 DEF FileInv, InStep
  <2>3. CASE op.kind = "add"
    <3>1. /\ DOMAIN acked' = DOMAIN acked \cup {op.id}
          /\ acked'[op.id] = grants[op.id]
          /\ \A id \in DOMAIN acked : id # op.id => acked'[id] = acked[id]
      BY <1>7, <2>3 DEF Return, With
    <3>2. op.id \in DOMAIN grants /\ op.id \in issued
      BY <1>t, <2>3 DEF FileInv, KnownIds
    <3> QED
      BY <2>1, <2>2, <3>1, <3>2
  <2>4. CASE op.kind # "add"
    BY <1>7, <2>1, <2>4 DEF Return
  <2> QED
    BY <2>3, <2>4
<1>8. CASE Tick
  <2>1. \A id \in DOMAIN acked : Expired(acked[id], clock) => Expired(acked[id], clock + 1)
    BY <1>t, ExpiredStays
  <2> QED
    BY <1>8, <2>1 DEF Tick, diskVars, historyVars
<1>9. CASE Crash
  BY <1>9 DEF Crash
<1>10. CASE Restart
  <2>1. \A id \in DOMAIN acked : Expired(acked[id], clock) => Expired(acked[id], clock + 1)
    BY <1>t, ExpiredStays
  <2> QED
    BY <1>10, <2>1 DEF Restart, StartUp, Load, historyVars
<1>12. CASE RestartBlind
  <2>1. ioErrors' # 0
    BY <1>12, StoreAssumption DEF RestartBlind, TypeInv, TypeOK
  <2> QED
    BY <1>12, <2>1 DEF RestartBlind, StartUp, historyVars
<1>11. CASE UNCHANGED vars
  BY <1>11 DEF vars
<1> QED
  BY <1>1, <1>2, <1>3, <1>4, <1>5, <1>6, <1>7, <1>8, <1>9, <1>10, <1>11, <1>12
  DEF Next

\* A grant that Add returned authorises its principal until it runs out or is
\* deleted, through every death of the process, until a file operation fails.
THEOREM AckedGrantsAreHonoured == Spec => []AckedGrantHonoured
<1>1. Init => AckedInv
  BY EmptyTableIsTable DEF Init, AckedInv
<1>2. AckedInv => AckedGrantHonoured
  BY DEF AckedInv, AckedGrantHonoured, Authorising
<1> QED
  BY <1>1, <1>2, TypeInvariance, IdInvariance, FileInvariance, AckedInvStep, PTL DEF Spec

=============================================================================
