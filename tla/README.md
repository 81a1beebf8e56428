# Plasma Shield in TLA+

Plasma Shield is a network filter that stands between the hosts of software
agents and the internet: a forward proxy that judges every outbound request by
rules and operating modes, a reverse proxy for inbound requests, a fleet manager
that knows which agent belongs to which tenant, an SSH bastion that lets people
in by time-bounded grants, and a management API. This directory holds
TLA+ models of its Go code (`internal/`, `cmd/`), the TLC configurations that
check them on small instances, and proofs of the results that matter most for
instances of every size.

Every definition that models code is translated from the source, not from the
documents; where a document or a comment says something else, a run exhibits the
difference (see *Findings*). `PROJECT.json` maps each definition to its lines.

## 1. The system

| Component | State it keeps | Operations | Interacts with |
|---|---|---|---|
| access grants (`bastion/grants.go`) | map of grants, counter, JSON file and its `.tmp` | Add, Get, Delete, List, ListActive, ValidateAccess, Cleanup; persist, load | the bastion asks it for every channel; the API has one of its own |
| bastion server and CA (`bastion/server.go`, `ca.go`) | host key and CA key files, listener, `closed` flag | NewServer, Start, serve, Close, the public-key callback, IssueUserCertificate | grants (spans of certificates), sessions |
| bastion sessions (`bastion/proxy.go`, `logger.go`) | per channel two copying goroutines; map of session starts; bounded event list | handleDirectTCPIP, proxyBidirectional, LogConnect, LogDisconnect | grants, the peers, the console (reads events) |
| forward proxy (`proxy/handler.go`, `inspector.go`) | none of its own; a tunnel has two connections, two goroutines and a channel | ServeHTTP, handleHTTP, handleConnect, CheckRequest | rules, modes, agent registry, the two ends of a tunnel |
| operating modes (`mode/mode.go`) | global mode, mode per agent | SetGlobalMode, SetAgentMode, ClearAgentMode, ShouldBlock | set by the console, read per request |
| rule engine (`rules/`) | compiled rules, path, default action | LoadRules, LoadRulesFromBytes, Reload, CheckCommand/Domain(WithTier) | read per request |
| rule patterns (`rules/matcher.go`) | two expressions per rule | CompileRule, MatchCommand, MatchDomain | rule engine |
| fleet manager (`fleet/fleet.go`) | tenants with their agents; agent→tenant; IP→agent | CreateTenant, SetCaptainName, SetMode, AddAgent, RemoveAgent, and the queries | console (writes), forward proxy (registry), reverse proxy |
| fleet configuration (`fleet/loader.go`, `cmd/gateway`) | none | LoadConfig, ApplyConfig: a sequence of manager calls | fleet manager, reverse proxy tokens |
| reverse proxy (`proxy/reverse.go`) | token→tenant | ServeHTTP | fleet manager |
| management API (`api/handlers.go`) | agents, rules, bounded log, two counters, grants | agent register/pause/kill/resume, rules, exec checks, log pages, grants | its own grant store, not the bastion's |
| console (`cmd/proxy`) | recent traffic | modes, fleet, traffic and bastion logs | modes, fleet manager |
| gateway (`cmd/gateway`) | none | puts bastion, API and proxies into one process | all |
| CLI, web page, `cmd/api`, provisioning script | none | HTTP calls, static page, firewall set-up | the API |

What is hard about them, and what makes each correct:

* **Grants.** The process may die between the change of the map, the write of
  the temporary file and the rename; either file operation, and the read at the
  next start, may fail unreported; the ID counter restarts from 0. Correct when an acknowledged grant is honoured
  until it runs out or is deleted, a revoked one never again, an ID is made
  once, and a restart that can read its file changes nothing a caller can see.
* **Sessions.** The grant is looked at once and used later; two locks per log
  call let sessions interleave inside the logger; the event list drops its
  oldest entries; the end of a session takes both copies. Correct when every
  event names a grant that fitted its session while it asked, the log tells each story once and in order, and
  the logger forgets what has ended.
* **Bastion server.** Keys are made, written and used while the process may die;
  certificates outlive revocations; Close races with Accept. Correct when no
  second identity is ever shown, no certificate of its own outlives its grant or
  speaks for another user, and the accept loop ends.
* **Forward proxy, modes, rules.** Rules and mode are read under two locks while
  both change. Correct when each verdict is one that some rules and some mode of
  the request's lifetime give, and a broken rule file changes nothing.
* **Fleet manager.** Three maps updated by calls that each look at some of them.
  Correct when they agree, communication is mutual, and only SetMode opens a
  tenant.
* **Management API.** One mutex, so no interleaving inside a call; counters must
  go on counting what the log drops, statuses form a small protocol, and a
  client reads pages of a list that moves, with limits that the handler may
  replace by its own.
* **Tunnels.** Two goroutines copy one direction each and the handler waits for
  the first that stops; the other may be blocked in a read or a write at an end
  that does nothing, and one of them writes to the connection that the answer is
  written to. Correct when data comes in order and complete as far as its sender
  decides, and when nothing outlives the first direction that stops.
* **Rule patterns.** Globs and three kinds of domain pattern become regular
  expressions, each escaped and anchored in its own way. Correct when the
  expression matches what the pattern describes, and nothing else.
* **Fleet configuration.** A file becomes a sequence of manager calls, and nothing
  in it is checked: tenants, agents, addresses and tokens may repeat. Correct when
  the fleet is what the file, read as a whole, says.
* **Reverse proxy.** Token, tenant, agent and name are looked up in turn, the last
  two without the manager's lock. Correct when a request stays in its tenant,
  whatever the manager is told meanwhile.
* **Gateway.** Two components each make a grant store.

The hazards, line by line, with the properties that cover them, are in
`PROJECT.json`; those without a property say why.

## 2. Modules

| Module | Models | State ↔ code |
|---|---|---|
| `Grants` | what a grant is, its ID, and the comparisons made on it | an ID `grant-<ns>-<n>` is the pair of its numbers |
| `AccessGrants` | **abstract**: what the bastion promises of grants, with no file, mutex or death | `table`: the grants in force |
| `GrantStore` | `grants.go`, step by step | `grants`, `counter`: the struct; `file`, `tmp`: the disk; `pc`, `op`: the call that holds the mutex, and how far `persist` is; `persisted`: whether the latest load or persist went through |
| `BastionSessions` | `proxy.go`, `logger.go`, over `AccessGrants` | `pc`: the line of handleDirectTCPIP; `copying`: the goroutines of proxyBidirectional; `starts`, `events`: the logger; `peer`: which ends still exist |
| `BastionServer` | `server.go`, `ca.go`, over `AccessGrants` | `proc`: NewServer's progress; `keyFile`, `key`; `loop`, `closed`: serve and Close; `certs`: with the users; `ForeignCerts`: certificates of other signers; `link`: the connections |
| `FilterRules` | rule order, tiers, default action, verdict: pure definitions | a pattern is the set of subjects it matches |
| `RuleMatcher` | `matcher.go`: the translation of patterns, the expressions the code builds (a row of atoms with repetitions) and how they match, by the places a match can have come to; the alphabet and its cases are constants | `pattern`: as written; `rule`: the compiled matchers; `subject`: what is matched |
| `ForwardProxy` | `handler.go`, `inspector.go`, `mode.go`, loading in `engine.go` | `globalMode`, `agentModes`, `engine` (version of the rules), `pc` per request |
| `Tunnel` | `handleConnect` in `handler.go`, from the dial to its return | `handler`: its line; `conn`: the two connections; `copy`, `held`: each goroutine and the chunk it carries; `done`: the channel; `end`: what each end still does |
| `FleetManager` | `fleet.go` | `mode`, `captain`, `agents`: the tenants; `tenantOf`, `byIP`: the indexes |
| `FleetConfig` | `loader.go`, `loadFleetConfig` and `loadTokens` of `cmd/gateway`, over `FleetManager` | `config`: the file; `block`, `call`: the block of the file and the call for it whose turn it is, then the tokens'; `tokens`: the reverse proxy's map |
| `ReverseProxy` | `reverse.go`, over `FleetConfig` | `at`: how far ServeHTTP is; `object`: the tenant its pointer stands for, the manager's or one replaced since; `window`: what the field being read has held |
| `ManagementApi` | `handlers.go`: agents, rules, exec checks, log and a client reading it | `status`, `rules`, `logs`, counters; `reader`: limit, offset and entries of the client |
| `Gateway` | `cmd/gateway`: `BastionSessions` with the bastion's store, next to the API's store | `table` and `apiTable`: two instances of `AccessGrants` |
| `MC*` | instances for TLC | |
| `GrantStore_proofs`, `Tunnel_proofs`, `ForwardProxy_proofs`, `RuleMatcher_proofs`, `BastionSessions_proofs`, `BastionServer_proofs`, `ManagementApi_proofs` | theorems about the module each is named after | |
| `Fleet_proofs` | theorems about `FleetManager`, `FleetConfig` and `ReverseProxy` | |

`ReverseProxy` extends `FleetConfig`, which extends `FleetManager`: a behaviour
first applies a configuration, one manager call per step, and then serves a
request while the manager is called. `FleetConfig` walks through the file with two
counters, as the two nested loops of ApplyConfig do. The gateway as shipped calls the manager
only while it starts, so what `ReverseProxy` lets happen is a superset; its mutex
provides for calls at any time, and the console of `cmd/proxy` makes them.

`ForwardProxy` joins what two binaries use of the same packages: `cmd/gateway`
has the agent registry, filled from its configuration before it serves, and no
endpoint that changes a mode; `cmd/proxy` has the endpoints and no registry
(every source is then let in, with the tier "unknown"). The model lets both happen at
once, so each binary's behaviours are among its own. What happens to an allowed
CONNECT afterwards is `Tunnel`.

Atomicity follows the locks. A method that holds a mutex throughout is one
action (all of the fleet manager, all API handlers). A method that takes several
locks, or does I/O, has an action for each stretch between two points at which
another goroutine, or the death of the process, can come in: `Add` is the change
of the map, then WriteFile, Rename and return; `CheckRequest` is the look at the
rules, then the look at the mode; `LogConnect` is the start map, then the event
list.

Definitions marked *Mutant* are variants with a plausible bug. They are used by
no specification; `PROJECT.json` names the property that TLC finds violated when
a variant stands in for the real definition, so each property is known to be
able to fail.

History variables (`issued`, `acked`, `revoked`, `left`, `trail`, `fits`, `seen`,
`identities`, `granted`, `shown`, …) are marked as such where they are declared; no guard
depends on them except the bounds `crashes`, `ioErrors`, `changes`, `rulesMade`.

`GrantStore` stands to `AccessGrants` in two refinements: its *file* implements
the abstract table as long as no file operation has failed (a grant takes effect
when Rename succeeds; deaths are stutters), and in every life of the process its
*map* does, whatever becomes of the file (a grant takes effect in Add). The second
is what entitles `BastionSessions` and `BastionServer` to use `AccessGrants` in
place of the store.

`FleetManager` takes the calls that are made as constants (`Adds`, `Removes`,
`Recreates`), so that a statement can say of which agents it speaks: an agent
*keeps its place* (`Keeps`) if none of these calls moves it or takes its address.
The proofs hold for every such set of calls.

## 3. The runs

| Run | What it asks | Instance and bounds |
|---|---|---|
| `grant_store` | `AckedGrantHonoured`, `RevokedStaysRevoked`, `RestartChangesNothing`, `IdsNeverReused`; refinements `ImplementsAccessGrants`, `ImplementsInMemory` | one principal and target (and the wildcard), clock 0..3, two Adds per life, one death anywhere, persist included, and one file operation that fails (write, rename, or the read of a start): enough for a failure before or after a death and a persist that repairs it |
| `forward_proxy` | `VerdictJustified`, `AuditEntryJustified`, `RulesNeverRollBack` | one request, a crew, a captain and an unregistered source, two agents, three changes of mode or rules, a rule file with four contents of which one does not compile |
| `tunnel` | `InOrder`, `CompleteAtEof`; liveness `NothingIsLeftBehind`, `SilentEndEndsTunnel` | up to two chunks each way, a window of one between an end and the proxy (so that a write can block), a channel of two as in the code; fairness |
| `rule_matcher` | `CommandMeansGlob`, `SubdomainMeansLabels`, `DomainMeansGlob` | every pattern of up to four characters of `a . * +`, every subject of up to five of `A . +` and the line end: room for the prefix `*.` with two more characters, and for two labels and a name. `+` stands for all the special characters that are escaped alike, of which a pattern has no other (`AlphabetAssumption`) |
| `rule_matcher_lines` | *violated:* `StarMatchesAnySequence` | one letter, the star and the line end |
| `fleet` | `MapsAgree`, `CommunicationIsMutual`, `ForwardedInTenant`, `UndisturbedIsExact`, `OnlySetModeOpens`, `ConfigTaken` | two tenants, three agents of which one keeps its place, two addresses, of which one does not make a URL, and a webhook; a configuration with a tenant, an agent, an address and a token given twice, or none; three calls of the manager during a request, so that what it has looked at can be taken away and replaced by another |
| `fleet_readdressed` | *violated:* `ValidIPsAreRegistered` | one agent, two addresses |
| `bastion_sessions` | `TrailTellsSessions`, `LogIsTail`, `StartsAreLive`, `DurationsAreLengths`, `EveryEventHadItsGrant`, liveness `EndedSessionIsLogged` | two sessions on two connections, a log of three events for the four they cause; grants of one unit, issued and revoked at both readings of the clock, so that the one a session was let in by is gone, and another there, when its events are made; fairness |
| `bastion_server` | `OneIdentity`, `CertifiedHadGrant`, liveness `ServeReturns` | two users and a connection of each, of which one has an authorized key; two certificates of the bastion's and one of another signer; one death at any step of start-up or service; fairness |
| `management_api` | `CountersMatchLog`, `StoppedMeansStopped`, `NothingReadTwice`, `PagesAddUp` | two agents, two commands, one rule at a time, a log of two entries and three requests (so it drops one); limits of one and two entries, the first by default and in place of a limit of three; the log of one agent |
| `management_api_killed` | *violated:* `KilledIsFinal` | no requests, statuses only |
| `gateway_grants` | *violated:* `GrantOpensBastion` | one user, one session, one grant |

The runs `grant_store`, `tunnel`, `fleet` (as `ReverseTypeOK`), `bastion_sessions`
and `bastion_server` check a type invariant too. The bounds were chosen as the smallest at which the interesting case
happens at least once and can still be followed by another step: a log that
overflows by one entry, a grant that runs out before the clock stops, a death
followed by a restart and a further call. The mutants show that the instances
are not too small to tell right from wrong.

Deadlock is checked wherever the system cannot stop. It is off in five runs: in
`grant_store` and `forward_proxy` the clock, the counters and the changes are
bounded and requests are served once, so a run ends when all is used up; a tunnel
ends; the longest subject ends a behaviour of `rule_matcher`; and in `fleet` the
runtime may end the process (a map read while it is written).

**Fairness.** `BastionSessions` assumes weak fairness of `Serve(s)`, for every
session: the Go scheduler runs each goroutine that can run, and each such step
is a goroutine of the bastion's own that waits for nobody. Clients and targets
get no fairness: they need not send, hang up or go, and `CopyFails` (a write to
a peer that has gone) happens only if the other peer sends. `BastionServer`
assumes weak fairness of an Accept that fails because the listener is closed,
which the net package guarantees, and of the goroutine that then looks at the
flag. Deaths and restarts get none. `Tunnel` assumes weak fairness of the handler
and of each copying goroutine, and nothing of the two ends: they may send nothing,
read nothing and never go.

## 4. Findings

* `fleet.go:190` — AddAgent of an agent that already has another address leaves
  the old address in `ipToAgent`, and no RemoveAgent takes it out, because
  RemoveAgent frees the address of the entry it finds. ValidateAgentIP then
  accepts an address no agent has (`fleet_readdressed`). In the gateway it takes
  a configuration that names an agent twice; in the console, two POST
  /fleet/agents.
* `handlers.go:132` — PauseAgentHandler does not look at the status: a killed
  agent can be paused, and a paused one resumed, although resuming a killed
  agent is refused (`management_api_killed`).
* `cmd/gateway/main.go:86` — the gateway makes a grant store for the bastion,
  and api.NewServer makes another, in memory only. POST /grants writes the
  second and the bastion asks the first, which nothing writes; likewise nothing
  outside the tests calls IssueUserCertificate. A grant opens nothing
  (`gateway_grants`).
* `matcher.go:72` — the star of a glob "matches any sequence of characters" by
  line 61 and by `docs/internal/rules.md:140`, and becomes `.*?`, whose dot stops
  at a line end (`rule_matcher_lines`). What holds is `CommandMeansGlob`: a rule
  matches nothing that its glob does not describe, and all of it within a line.

Seen while reading, without a run of their own: a grant without a principal is
stored for "*", which ValidateAccess compares literally; at the instant of
expiry ListActive omits a grant that ValidateAccess honours; persist and load report
errors to nobody, and a store that could not read its file overwrites it with the
next persist; an authorized key is let in under any user name;
ValidateUserCertificate sets IsUserAuthority, which CheckCert does not look at in the
version of x/crypto/ssh that go.mod names, so the signer of a certificate may be
another than the bastion's authority (`CertifiedHadGrant` speaks of those it has
signed itself); a revoked grant does not end an open session; a session whose
target has hung up stays until its client sends or goes; session and rule IDs
are clock readings; a key file cut short by a death makes every later start
fail; an agent added to a second tenant stays listed in the first; the exec
check of the API ignores allow rules; the commodore is spared by block rules
without tiers; an end of a tunnel that only stops sending takes the other
direction with it, because the handler closes both connections (CompleteAtEof is
about the direction that ended); Hijack clears the server's deadlines, so an idle
tunnel stays for as long as its ends do; a change to lockdown leaves open tunnels
alone; the agents, rules and pauses of the API server never reach the proxies; the
traffic log of `cmd/proxy` is never written, so GET /logs is always empty;
GET /fleet/agents reads agents and mode under two locks; in a domain pattern with
`*.` in front, a further star is left raw, so it repeats the character before it,
and labels with an underscore are not matched; a domain pattern with a star inside leaves the other special
characters as they are; `${VAR}` of an unset variable stays as written in the
configuration.

## 5. Proofs

Checked by TLAPS, for every value of the constants that satisfies the modules'
assumptions (`GrantsAssumption`, `StoreAssumption`, `FleetAssumption`,
`ConfigAssumption`, `ReverseAssumption`, `TunnelAssumption`, `BastionAssumption`,
`ServerAssumption`, `FilterAssumption`, `ProxyAssumption`, `ApiAssumption`,
`AlphabetAssumption`: types of the parameters, that the markers for "none" are none
of the values, that the configuration's calls are among those the fleet manager is
given, and that letters, star, dot and line end are told apart). Every safety
property that a passing run checks is the subject of one of these theorems.

Two of the proofs need induction: over the rounds of a loop, and over the places of
a sequence. The induction theorems of the library take the statement as an operator,
which the provers cannot instantiate. The proofs state it as a set of numbers
instead, and rest on `WFMin` and `NatLessThanWellFounded`: a number outside of it
would have a least one (`SetInduction` in `ManagementApi_proofs`, `Upto` and `Downto`
in `RuleMatcher_proofs`). A recursive function of the model is handled through a
witness: `StepsExist` gives a function that satisfies the recursion, so the one that
CHOOSE takes satisfies it too.

* `GrantStore_proofs`
  * `TypeCorrect`: `Spec => []TypeOK`. Inductive together with `InFlight`: an Add
    in progress has its grant in the map (Return looks it up), and what Rename is
    about to move is a table.
  * `NoIdReused`: `Spec => IdsNeverReused`. The counter is not persisted, so the
    proof rests on the stamp: `IdInv` says that an ID issued at the present
    clock has a counter not above the present one, and that none is later. A
    restart takes time, so a new life starts beyond every stamp.
  * `StoreImplementsAccessGrants`: `Spec => ImplementsAccessGrants`, for any number
    of deaths. `FileInv` relates file, temporary file and map at each point of
    persist; Rename is then an Issue, a Revoke or a Sweep according to the call in
    progress, and every other step, deaths included, a stutter or a Tick. The
    property itself ends with the first failed file operation: the next one that
    succeeds puts two changes into the file at once.
  * `MemoryImplementsAccessGrants`: `Spec => ImplementsInMemory`, whatever the file
    operations do, with or without a file, for any number of lives.
  * `RestartsChangeNothing`, `RevokedNeverReturns`, `AckedGrantsAreHonoured`. The
    first is about the step of a restart that can read its file: `LeftInFile`, a
    part of `FileInv`, says that the map a process left behind at rest is in the
    file if its latest load or persist went through, whatever failed before. The other two
    carry their statement through persist: what is revoked is in neither map nor
    file once Delete returns, what is acknowledged and not expired is in both, and
    the temporary file agrees before it is renamed. A grant that has expired stays
    so (`ExpiredStays`), which is what lets Cleanup take it.
* `Fleet_proofs`: the manager by itself, then the fleet that is loaded from a file
  and called while a request is served
  * `TypeCorrect`: `Spec => []TypeOK`.
  * `MapsAlwaysAgree`: `Spec => []MapsAgree`, about each agent that keeps its place,
    however the others move; `fleet_readdressed` shows what happens to one that
    does not. It is not inductive: `EntriesInv` adds that every entry is one an
    AddAgent may put there (so that `Keeps` speaks of it), and `PlaceInv` that the
    agent is in one tenant at most and that both directions between its index
    entries hold. One lemma per method.
  * `CommunicationAlwaysMutual`: `Spec => []CommunicationIsMutual`, for agents that
    move as they please. `IndexedIsMember` is the invariant: who is in the tenant
    index is in that tenant, unless the tenant was created again.
  * `OnlySetModeEverOpens`: `Spec => OnlySetModeOpens`, call by call.
  * `LoadedFleetIsManager`: `ReverseSpec => Spec`. Every step of the loading is a call
    that `FleetManager` allows for (`ConfigAssumption` says of which files), every
    other a call or a stutter; so `LoadedFleetIsSound` has the three above for it.
  * `GatewayTypeCorrect`: `ReverseSpec => []ReverseTypeOK`, with `FileTypeOK` (the two
    counters never leave the file) and `ReadsTypeOK` (what a request has looked at
    is an entry or a name, or nothing).
  * `FilesAreTaken`: `ReverseSpec => ConfigTaken`, for files of any length in which
    tenants, agents, addresses and tokens repeat in any way. `SoFar` says of the calls
    made what the property says of all: the last block of a tenant that was begun, as
    far as it has come, is what the tenant has; an index follows the last entry made.
    A block that comes again wipes what the one before entered, in the tenant's own
    map but not in the indexes, which is why these are stated apart.
  * `RequestsStayInTenant` and `UndisturbedRequestsAreExact`: `RouteInv` says that
    what the manager holds for the request, or held when its tenant was replaced,
    is among what was noted since the request came, and so is everything the
    field about to be read has held. Nothing is assumed of the configuration, of
    the calls or of their number.
* `Tunnel_proofs`
  * `TypeCorrect`, `HandedInOrder`, `EofIsComplete`, for any window and any amount
    of data. `FlowInv` counts: what was handed on plus the chunk a goroutine holds
    is what was read; the goroutine towards the client starts after the answer is
    written, or has failed because the client has gone (`Answered`); one that has
    drained its end holds nothing.
* `BastionSessions_proofs`
  * `TypeCorrect`: `Spec => []TypeOK`, inductive together with `Carried`: a session
    has its ID and its grant before the steps that put them into an event, and no
    start is later than the clock, so no session lasts a negative time.
  * `EventsHadTheirGrants`: `Spec => []EveryEventHadItsGrant`. The grant is looked
    at once and may be gone at the next step, so `GrantInv` carries its ID: what
    fits a channel that waits is among what has fitted it (`WaitingSees`), a session
    that is served has one of these (`ServedFits`), and so have the event on its way
    to the log and those in it (`PendingCovered`, `TrailCovered`). The channels are
    any number on any number of connections.
  * `LogIsAlwaysTail`: a lemma on sequences (`LastOfAppend`) says that trimming
    after every event gives what trimming once at the end gives.
  * `StoriesAreTold`: `StoryInv` ties, for each session, the line it is at to the
    events of its own there are and to the one that is pending, and keeps them in
    order.
  * `StartsAreAlwaysLive` and `DurationsAlwaysAreLengths`: the hypothesis
    `DistinctIds` speaks of the present state; as IDs never change once drawn, it
    held in every earlier state too (`DistinctBefore`), which is what makes
    `StartsInv` and `LengthInv` inductive under it.
* `BastionServer_proofs`
  * `IdentityNeverChanges`: `KeyInv` says that a key is in its file before it is
    used, that a file cut short holds no key that was used, and that keys in use
    are the ones identified by; so whatever number of deaths, a life that gets to
    serve serves with the keys of the one before.
  * `CertifiedAlwaysHadGrant`: `ConnInv` follows a certificate of the bastion's own
    from the grant it was made for to the connection it opened. Of the certificates
    of other signers nothing is assumed, and nothing claimed.
  * `TypeCorrect`, with the bound on how many keys are ever made: at most two for
    each life.
* `ForwardProxy_proofs`
  * `VerdictsAreJustified` and `AuditsAreJustified`: `Spec => []VerdictJustified`
    and `Spec => []AuditEntryJustified`. `VerdictInv` says that the pair of mode
    and rules in force is among those seen for as long as a request waits
    (`PresentIsSeen`), that the look at the rules gave what rules seen give
    (`MatchIsSeen`), and that a verdict follows from that and a mode seen
    (`VerdictIsSeen`). Nothing is assumed of how many loaders there are or how
    often modes and rules change.
  * `OneLoaderNeverRollsBack`: `Spec => RulesNeverRollBack`, for one goroutine that
    loads and rules from memory that are no newer than the file's first content:
    `NoNewerThanFile` says that the engine is behind what the loader holds, and
    that behind the file. With two loaders, the one that read first could swap
    last.
* `ManagementApi_proofs`
  * `CountersAlwaysMatchLog`: `LogTypes` has the log as the tail of all entries
    (`LastOfAppend` again), `BlockedCounted` the counter as the size of a set of
    their positions.
  * `StoppedStaysStopped`: an exec check of a stopped agent adds a blocked entry
    (`ExecCheckLogs`), and no call moves the point at which a stop that is still
    on began.
  * `PagesNeverRepeat`: `Spec => []NothingReadTwice`. `FilteredIs` says that whatever
    goes through the filter's loop ends with its result; from it follows how the
    filtered log changes when an entry is added (`FilteredAppend`) and when the
    oldest is dropped (`FilteredTail`). `ReaderInv` has the log and the pages ordered by ID
    (`Ordered`), and everything at or beyond the client's offset newer than all it
    has (`Unread`): dropping moves entries towards the start, so the client skips
    some and never meets one again.
  * `PagesAlwaysAddUp`: `Spec => []PagesAddUp`. `AddUpInv` says that while nothing was
    dropped the pages are the beginning of the filtered log (`Begins`), of the length
    the offset has, or of the total that the last answer named. The client may pass
    any integer as its limit and goes by the one in the answer.
  * `TypeCorrect`: `Spec => []TypeOK`.
* `RuleMatcher_proofs`
  * `CommandsMatchGlobs`, `SubdomainsMatchLabels`, `DomainsMatchGlobs`: the three
    properties, for patterns and subjects of any length over any alphabet that
    `AlphabetAssumption` allows. `SoFar` reduces them to the pattern in the file; the
    rest is about the operators. `WrittenIs`: without an unescaped operator,
    what the loop writes is the row of its atoms, and it compiles (`FormsCompile`).
    `RepeatedIs`: as many rounds as the text has characters reach the least set that
    the moves of a repeated atom do not leave, because each of them goes forward;
    `AnyRunIs` and `SubdomainsAre` say what that set is for `.*` (the rest of the
    line) and for `([a-z0-9-]+\.)*` (the ends of rows of labels).
  * `GlobMeans` is the centre: an expression consumes its text from the left, and
    what a glob describes is defined from the right; for every point between two
    atoms, a match can have come to a place from which the rest describes the text up
    to j, or for no point. `EndedMatches` adds the anchors, `DescribesLower` the
    case, and `PlainDescribes` what a suffix without a star describes.

Model-checked only: liveness (`NothingIsLeftBehind`, `SilentEndEndsTunnel`,
`EndedSessionIsLogged`, `ServeReturns`) and the runs that exhibit a violation, which
TLAPS does not reach. Of a star and line ends the proofs say what the run says: both
directions within a line, one beyond it (`WithinLine`). Outside of the three properties
of `RuleMatcher` are patterns in which an operator stays unescaped (a star in a suffix,
a plus next to a star): their expressions are modelled, and nothing is claimed of what
they match.

## 6. What is not modelled

* Within `ForwardProxy` a rule's pattern is the set of subjects it matches: which
  set that is, is the question of `RuleMatcher`. There the special characters other
  than dot, star and plus do not occur in patterns: escaped they would be as the
  plus is, and unescaped (in a domain pattern with a star inside) the brackets and
  braces would need the whole syntax of regexp. Case folding is that of letters
  with one upper and one lower case.
* The bytes of a chunk, the body and the headers of plain responses, timeouts of
  the HTTP servers and of dials.
* The parsing of YAML and JSON, and the substitution of environment variables in
  the configuration; `FleetConfig` starts from the blocks of a parsed file.
* Listings of the console (traffic, bastion log, agents with their mode) and of
  the API besides its log; the wording of logs and answers; `SaveToFile` of the
  rule engine and `LogCommand` of the bastion, which nothing calls.
* Which keys are authorized, beyond which client has one of them; critical options
  and revocation lists of certificates, which the bastion does not use.
* Authentication of the API (one comparison per request), the CLI, the web page,
  flags and shutdown order, the firewall script: no state, or none of their own.
* Clocks that repeat a reading, where the code makes an ID of one: `Restart` of
  the store takes a unit of time, `ManagementApi` numbers its entries, and two
  properties of `BastionSessions` assume distinct session IDs (`DistinctIds`).
* The registry of the forward proxy is a constant: the gateway fills it before
  it serves and does not change it.

## 7. Plan

What is left, most important first.

1. `ManagementApi` composed with `ForwardProxy`: what pausing an agent does, and
   does not do, to its traffic.
2. Several loaders in `ForwardProxy` (no binary has two), with what then remains
   of `RulesNeverRollBack`; a repeating clock in `ManagementApi`.
3. The listings of the console that read two things under two locks.
4. Proofs: of the compositions of item 1, and of what `Gateway` promises of each of
   its two stores.

Runs that share a module and an instance are kept merged: a run is one question,
and there should be few.
