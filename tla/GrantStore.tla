----------------------------- MODULE GrantStore -----------------------------
(***************************************************************************)
(* internal/bastion/grants.go: the table of access grants and the JSON     *)
(* file that is to carry it across restarts.                               *)
(*                                                                         *)
(* Add, Delete and Cleanup hold the store's mutex from their first read to *)
(* their return, persist included; no other caller sees a state in         *)
(* between, but the process may die there.  So each of them is one action  *)
(* that changes the map, and persist is followed call by call: WriteFile   *)
(* of the temporary file, Rename, return.                                  *)
(***************************************************************************)
EXTENDS Grants, FiniteSets

CONSTANTS
    HasFile,       \* filePath # "": the store of the bastion; FALSE: of the API
    Unusable,      \* an absent file, or one whose write was cut short
    NoId,          \* no grant
    MaxCrashes,    \* bound: deaths of the process
    MaxIoErrors    \* bound: calls of ReadFile, WriteFile or Rename that fail

ASSUME StoreAssumption ==
    /\ HasFile \in BOOLEAN
    /\ MaxCrashes \in Nat
    /\ MaxIoErrors \in Nat
    /\ NoId \notin GrantId

VARIABLES
    clock,      \* s.now()
    pc,         \* where the process is: down, idle (mutex free), or in persist
    op,         \* the call that holds the mutex, with the ID it is about
    counter,    \* s.counter
    grants,     \* s.grants
    file,       \* filePath; load cannot tell an absent file from an empty table
    tmp,        \* filePath + ".tmp"
    issued,     \* history: every ID Add ever made
    acked,      \* history: the grants Add returned to a caller
    deleting,   \* history: IDs for which Delete was called and found a grant
    revoked,    \* history: IDs for which Delete returned true
    crashes,    \* history: deaths so far
    ioErrors,   \* history: failed file operations so far
    persisted,  \* history: how the latest load or persist of the store ended
    left        \* history: the map a process died with, if its mutex was free

diskVars == <<file, tmp, ioErrors, persisted>>
historyVars == <<issued, acked, deleting, revoked, left>>
vars == <<clock, pc, op, counter, grants, file, tmp, issued, acked, deleting,
          revoked, crashes, ioErrors, persisted, left>>

NoOp == [kind |-> "none", id |-> NoId]
Op == [kind : {"none", "add", "delete", "cleanup"}, id : GrantId \cup {NoId}]

TypeOK ==
    /\ clock \in Time
    /\ pc \in {"down", "idle", "write", "rename", "return"}
    /\ op \in Op
    /\ counter \in 0..MaxCounter
    /\ IsTable(grants)
    /\ IsTable(file)
    /\ tmp = Unusable \/ IsTable(tmp)
    /\ issued \subseteq GrantId
    /\ IsTable(acked)
    /\ deleting \subseteq GrantId
    /\ revoked \subseteq GrantId
    /\ crashes \in 0..MaxCrashes
    /\ ioErrors \in 0..MaxIoErrors
    /\ persisted \in {"ok", "failed"}
    /\ left = Unusable \/ IsTable(left)

Init ==
    /\ clock = 0
    /\ pc = "idle"
    /\ op = NoOp
    /\ counter = 0
    /\ grants = EmptyTable
    /\ file = EmptyTable
    /\ tmp = Unusable
    /\ issued = {}
    /\ acked = EmptyTable
    /\ deleting = {}
    /\ revoked = {}
    /\ crashes = 0
    /\ ioErrors = 0
    /\ persisted = "ok"
    /\ left = Unusable

-----------------------------------------------------------------------------
(* The three calls that change the map, up to the call of persist.         *)

\* persist returns at once when the store has no file.
EnterPersist == pc' = IF HasFile THEN "write" ELSE "return"

With(f, id, g) == [i \in DOMAIN f \cup {id} |-> IF i = id THEN g ELSE f[i]]
Without(f, ids) == [i \in DOMAIN f \ ids |-> f[i]]

Add(p, t, d) ==
    /\ pc = "idle"
    /\ counter < MaxCounter
    /\ counter' = counter + 1
    /\ LET id == NewId(clock, counter') IN
        /\ grants' = With(grants, id, NewGrant(p, t, d, clock))
        /\ op' = [kind |-> "add", id |-> id]
        /\ issued' = issued \cup {id}
    /\ EnterPersist
    /\ UNCHANGED <<clock, acked, deleting, revoked, left, crashes>> /\ UNCHANGED diskVars

\* Mutant: Delete does not persist.
DeleteInMemory(id) ==
    /\ pc = "idle"
    /\ id \in DOMAIN grants
    /\ grants' = Without(grants, {id})
    /\ op' = [kind |-> "delete", id |-> id]
    /\ deleting' = deleting \cup {id}
    /\ pc' = "return"
    /\ UNCHANGED <<clock, counter, issued, acked, revoked, left, crashes>> /\ UNCHANGED diskVars

\* A Delete of an ID that is not in the map returns false and changes nothing.
Delete(id) ==
    /\ pc = "idle"
    /\ id \in DOMAIN grants
    /\ grants' = Without(grants, {id})
    /\ op' = [kind |-> "delete", id |-> id]
    /\ deleting' = deleting \cup {id}
    /\ EnterPersist
    /\ UNCHANGED <<clock, counter, issued, acked, revoked, left, crashes>> /\ UNCHANGED diskVars

\* Mutant: Cleanup takes what ListActive does not list.
CleanupEarly ==
    /\ pc = "idle"
    /\ LET removed == {id \in DOMAIN grants : ~ ListedActive(grants[id], clock)} IN
        /\ removed # {}
        /\ grants' = Without(grants, removed)
    /\ op' = [kind |-> "cleanup", id |-> NoId]
    /\ EnterPersist
    /\ UNCHANGED <<clock, counter, crashes>> /\ UNCHANGED diskVars /\ UNCHANGED historyVars

\* Mutant: Cleanup does not persist.
CleanupInMemory ==
    /\ pc = "idle"
    /\ LET removed == {id \in DOMAIN grants : Expired(grants[id], clock)} IN
        /\ removed # {}
        /\ grants' = Without(grants, removed)
    /\ op' = [kind |-> "cleanup", id |-> NoId]
    /\ pc' = "return"
    /\ UNCHANGED <<clock, counter, crashes>> /\ UNCHANGED diskVars /\ UNCHANGED historyVars

\* A Cleanup that removes nothing does not persist.
Cleanup ==
    /\ pc = "idle"
    /\ LET removed == {id \in DOMAIN grants : Expired(grants[id], clock)} IN
        /\ removed # {}
        /\ grants' = Without(grants, removed)
    /\ op' = [kind |-> "cleanup", id |-> NoId]
    /\ EnterPersist
    /\ UNCHANGED <<clock, counter, crashes>> /\ UNCHANGED diskVars /\ UNCHANGED historyVars

-----------------------------------------------------------------------------
(* persist, and the return of the call that made it.                       *)

WriteTmp ==
    /\ pc = "write"
    /\ tmp' = grants
    /\ pc' = "rename"
    /\ UNCHANGED <<clock, op, counter, grants, file, crashes, ioErrors, persisted>>
    /\ UNCHANGED historyVars

\* A failed WriteFile may have truncated the old temporary file; persist
\* returns, and its callers never learn of it.
WriteTmpFails ==
    /\ pc = "write"
    /\ ioErrors < MaxIoErrors
    /\ ioErrors' = ioErrors + 1
    /\ persisted' = "failed"
    /\ tmp' \in {tmp, Unusable}
    /\ pc' = "return"
    /\ UNCHANGED <<clock, op, counter, grants, file, crashes>> /\ UNCHANGED historyVars

Rename ==
    /\ pc = "rename"
    /\ file' = tmp
    /\ tmp' = Unusable
    /\ persisted' = "ok"
    /\ pc' = "return"
    /\ UNCHANGED <<clock, op, counter, grants, crashes, ioErrors>>
    /\ UNCHANGED historyVars

RenameFails ==
    /\ pc = "rename"
    /\ ioErrors < MaxIoErrors
    /\ ioErrors' = ioErrors + 1
    /\ persisted' = "failed"
    /\ pc' = "return"
    /\ UNCHANGED <<clock, op, counter, grants, file, tmp, crashes>>
    /\ UNCHANGED historyVars

\* The mutex is released and the caller has its answer.
Return ==
    /\ pc = "return"
    /\ pc' = "idle"
    /\ op' = NoOp
    /\ acked' = IF op.kind = "add" THEN With(acked, op.id, grants[op.id]) ELSE acked
    /\ revoked' = IF op.kind = "delete" THEN revoked \cup {op.id} ELSE revoked
    /\ UNCHANGED <<clock, counter, grants, issued, deleting, left, crashes>>
    /\ UNCHANGED diskVars

-----------------------------------------------------------------------------
(* The clock, and the death and restart of the process.                    *)

Tick == /\ clock < MaxTime
        /\ clock' = clock + 1
        /\ UNCHANGED <<pc, op, counter, grants, crashes>>
        /\ UNCHANGED diskVars /\ UNCHANGED historyVars

\* A process that dies inside WriteFile leaves a part of the temporary file.
Crash ==
    /\ pc # "down"
    /\ crashes < MaxCrashes
    /\ crashes' = crashes + 1
    /\ pc' = "down"
    /\ op' = NoOp
    /\ counter' = 0
    /\ grants' = EmptyTable
    /\ left' = IF pc = "idle" THEN grants ELSE Unusable
    /\ tmp' \in IF pc = "write" THEN {tmp, Unusable} ELSE {tmp}
    /\ UNCHANGED <<clock, file, issued, acked, deleting, revoked, ioErrors, persisted>>

LoadNothing == EmptyTable    \* mutant: the file is not read

\* load, of a file that can be read and parsed.
Load == IF HasFile THEN file ELSE EmptyTable

\* NewGrantStore: the counter starts from 0 again, whatever the file holds.
\* Starting a process takes longer than one unit of its nanosecond clock.
StartUp ==
    /\ pc = "down"
    /\ clock < MaxTime
    /\ clock' = clock + 1
    /\ counter' = 0
    /\ pc' = "idle"
    /\ UNCHANGED <<op, crashes, file, tmp>> /\ UNCHANGED historyVars

Restart == StartUp /\ grants' = Load /\ persisted' = "ok" /\ UNCHANGED ioErrors

\* load returns when ReadFile or Unmarshal fails, and nobody learns of it: the
\* store comes up empty over a file that is still there, until the next persist
\* that goes through replaces it.
RestartBlind ==
    /\ HasFile
    /\ ioErrors < MaxIoErrors
    /\ StartUp
    /\ grants' = EmptyTable
    /\ ioErrors' = ioErrors + 1
    /\ persisted' = "failed"

Next ==
    \/ \E p \in Principals, t \in Targets \cup {Any}, d \in Durations : Add(p, t, d)
    \/ \E id \in GrantId : Delete(id)
    \/ Cleanup
    \/ WriteTmp \/ WriteTmpFails \/ Rename \/ RenameFails \/ Return
    \/ Tick \/ Crash \/ Restart \/ RestartBlind

Spec == Init /\ [][Next]_vars

-----------------------------------------------------------------------------
(* Properties.                                                             *)

\* An ID is made once.  The counter starts from 0 in every life of the
\* process and is not in the file, so this rests on the stamp: two Adds of
\* one life differ in the counter, two of different lives in the time.  A
\* repeated ID would silently replace a grant in the map.
IdsNeverReused ==
    [][ op'.kind = "add" /\ op.kind # "add" => op'.id \notin issued ]_vars

\* A grant that Add returned, that nobody has tried to delete and that has
\* not run out authorises its principal whenever the store can be asked:
\* no crash, no half-finished persist and no Cleanup takes it away.
\* (Without a file a restart takes everything; after a failed write, which Add
\* does not report, a crash may take it, and so does a restart that cannot read.)
AckedGrantHonoured ==
    pc = "idle" /\ HasFile /\ ioErrors = 0 =>
        \A id \in DOMAIN acked \ deleting :
            ~ Expired(acked[id], clock) =>
                \A t \in Targets :
                    MatchTarget(acked[id].target, t) =>
                        id \in Authorising(grants, acked[id].principal, t, clock)

\* A grant whose Delete returned true authorises nobody again, whatever the
\* process goes through afterwards.
RevokedStaysRevoked ==
    pc = "idle" /\ ioErrors = 0 => revoked \cap DOMAIN grants = {}

\* A process that died with its mutex free comes up with the map it died with,
\* if the latest load or persist before its death went through and the file can
\* be read now: no death between two calls is noticed, and a persist that goes
\* through makes up for every failed load or persist before it.  (A restart that
\* cannot read its file comes up empty, and the next persist makes that last.)
RestartChangesNothing ==
    [][ /\ pc = "down" /\ pc' # "down"
        /\ left # Unusable
        /\ HasFile /\ persisted = "ok" /\ ioErrors' = ioErrors
        => grants' = left ]_vars

\* What the store as a whole promises: as long as no file operation has failed,
\* its file is a table of AccessGrants, every change of which is an Issue, a
\* Revoke or a Sweep, wherever the process may die.  (After a failed persist
\* the next one brings several changes to the file at once.)
Promise == INSTANCE AccessGrants WITH table <- file
ImplementsAccessGrants ==
    Promise!Init /\ [][ioErrors' = 0 => [Promise!Next]_(Promise!vars)]_vars

\* What the bastion and the API rely on while their process lives, with or
\* without a file, before and after any restart and whatever becomes of the
\* file: the map in memory is a table of AccessGrants too, which changes with
\* each call rather than with the file.
InMemory == INSTANCE AccessGrants WITH table <- grants
ImplementsInMemory ==
    InMemory!Init
    /\ [][pc # "down" /\ pc' # "down" => [InMemory!Next]_(InMemory!vars)]_vars

=============================================================================
