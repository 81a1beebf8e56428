------------------------------- MODULE Grants -------------------------------
(***************************************************************************)
(* The data of internal/bastion/grants.go and what its comparisons say of  *)
(* a single grant.  Extended by the grant store, by the specification of   *)
(* what the store promises, and by the bastion that consults it.           *)
(*                                                                         *)
(* A grant's ID is "grant-<nanoseconds>-<counter>"; the two numbers are    *)
(* all the program ever makes an ID from, so an ID is that pair.           *)
(***************************************************************************)
EXTENDS Integers

CONSTANTS
    Principals,   \* the SSH user names that occur
    Targets,      \* the destination addresses that occur
    Any,          \* the wildcard "*"
    Durations,    \* the durations grants are created with
    MaxTime,      \* bound: the clock stops here
    MaxCounter    \* bound: calls of Add in one life of the process

ASSUME GrantsAssumption ==
    /\ Any \notin Targets
    /\ Durations \subseteq Nat
    /\ MaxTime \in Nat
    /\ MaxCounter \in Nat

Time == 0..MaxTime

\* generateGrantID: the stamp of the creating call and the process's counter.
GrantId == Time \X (1..MaxCounter)
CounterOnlyId(now, n) == <<0, n>>    \* mutant: the stamp is left out
NewId(now, n) == <<now, n>>

Grant == [principal : Principals, target : Targets \cup {Any}, expiresAt : Nat]

\* A map from IDs to grants, as GrantStore.grants and the JSON file hold it.
IsTable(f) == DOMAIN f \subseteq GrantId /\ f \in [DOMAIN f -> Grant]

EmptyTable == [id \in {} |-> {}]

\* Mutant: the duration is subtracted.
BackdatedGrant(p, t, d, now) == [principal |-> p, target |-> t, expiresAt |-> now - d]

NewGrant(p, t, d, now) == [principal |-> p, target |-> t, expiresAt |-> now + d]

\* matchTarget: the wildcard or the very address, nothing else.
MatchTarget(grantTarget, requested) == grantTarget = Any \/ grantTarget = requested

\* now.After(g.ExpiresAt), the test of Get, ValidateAccess and Cleanup.
Expired(g, now) == now > g.expiresAt

\* now.Before(g.ExpiresAt), the test of ListActive.
ListedActive(g, now) == now < g.expiresAt

\* ValidateAccess returns the first grant its walk over the map accepts; the
\* walk has no fixed order, so it may return any of these.
Authorising(table, p, t, now) ==
    {id \in DOMAIN table : /\ ~ Expired(table[id], now)
                           /\ table[id].principal = p
                           /\ MatchTarget(table[id].target, t)}

=============================================================================
