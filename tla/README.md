# TLA+ verification of team-cli-tracker

Each node of a project runs one server (`cmd/node`). The nodes keep signed
issue events in an append-only file, pull each other's events, and vote on
changes of governance, trust and team. This directory holds TLA+ models of that
system, TLC configurations that check them on small instances, and theorems
about each of them that TLAPS proves for instances of every size.

    tlc -workers 2 -config MCSyncCluster_pair.cfg MCSyncCluster.tla
    tlapm SyncClusterProofs.tla

`M_x.cfg` is a run of module `M`. `PROJECT.json` lists the runs, which property
each checks, a mutant of the model that breaks each property, the source lines
of every definition, the disagreement found, the hazards and the theorems.

## 1. Inventory

| Component | State | Operations | Interacts with | Hard behaviours |
|---|---|---|---|---|
| Event store (`internal/store`, `internal/events`) | `events.jsonl`; `lastSeq`, `replayIx` in memory | `Append`, `NextSeq`, `ReadAll`, `Clock`, `EventsAfter`, `VerifyIntegrity` | all handlers, sync loop, commands | `NextSeq` and `Append` under separate locks; index against file after a restart |
| Replication (`syncLoop`, `pullFromPeer`, `syncIngest`) | position in a pull, two clocks, fetched events | fetch a clock, fetch events, apply, skip | stores of the peers | stale clocks, lost requests, crashes, relays |
| Data directory (`crypto.go`, `runStorage`) | keyring file, keyring in memory, schema version | enable, rotate, drill, migrate | the server and commands, which share files without a lock | truncate and rewrite; processes that each trust their memory |
| Identity (`internal/node`) | the key file; the key in memory | `LoadOrCreate` | every process of the data directory signs with it | two first starts; a file emptied before it is written |
| Issues and board (`issue*`, `projectBoardFromEvents`) | none but the log | create, transition, comment, archive, unarchive, replay | the store | check-then-act, clocks apart, order of arrival |
| Team (`internal/team`, `teamOffboard`) | `team.json` | onboard, role, offboard with reassignments | issues; votes of the peers | a partial offboarding, tasks that arrive later |
| Governance (`internal/governance`, vote endpoints) | `governance.json` | voting set, node role, votes | peers, one vote at a time | lost votes, concurrent changes, restart |
| Trust (`internal/trust`) | `trust.json` | invite, join, revoke, expire | sync, discovery | whole-document saves, a second process |
| Discovery and back-off | maps in memory | refresh, probe, add, prune, pull or skip | trust, peers | check-then-act, peers that die, gossip |
| Audit log (`internal/audit`) | `security_audit.jsonl`; number and last hash in memory | `Append`, `VerifyIntegrity` | all handlers, commands | torn writes, errors ignored, two processes |
| Audit export | offset of each peer; the cursor of a client that asks for the merged result page by page | read the peers' logs, merge, sort, cut out a page | audit logs, which it makes longer | a target that moves; records sorted in before the offset |
| Master API idempotency | map of request keys | mark, run, prune | all mutating handlers | retries, restart, size limit |
| Attachments | files or a bucket; events | initiate, upload, complete, remove, verify | the store | late uploads, other nodes |
| Tokens and roles (`internal/auth`) | `auth.tokens.json`, its copy in memory, the tokens of the configuration | issue, revoke, bind a role, seed, validate | every request asks for its token up to three times | a token that lapses within a request; saves that fail after memory has changed; two sources of tokens |
| Webhooks | `webhooks.json`, its copy in memory; deliveries in goroutines | create, revoke, test, emit | handlers that have appended an event | one attempt, no order; a revocation among deliveries |
| Rate limiter | a window and a counter per caller, in two tiers | `Allow` | every request | end of the window |
| TLS, metrics, command line, scripts in `deploy/` | | | | |

What makes each correct is the list of properties in section 3; what can go
wrong, at its line, is the list `hazards` of `PROJECT.json`.

## 2. Modules

| Module | Models | Composition |
|---|---|---|
| `EventOrder` | events, files of events, `Clock`, `EventsAfter`, `VerifyIntegrity` | extended by the next two |
| `SyncCluster` | the store and the replication of all nodes | refines `ReplicatedLog` |
| `ReplicatedLog` | abstract: what a node knows of a signer has no gap, and what carries the signer's key is what the signer published; an event with another key may be taken up under its name | |
| `DataDir` | one data directory with its keyring and its signing key, the server and commands | |
| `Board`, `Tracker` | the replay; the issue handlers and offboarding | `Tracker` extends `Board`, and takes replication in the form that `SyncCluster` guarantees: next event of a signer, at any time |
| `Governance` | the voting set, the team and the trust list of all nodes, requests and votes | what an offboarding does to issues is in `Tracker`, how `trust.json` is saved in `Trust` |
| `Trust` | trust list and invites of one node | |
| `Peers` | the sync loop of one node as to which peer it pulls from | what a pull brings is left to `SyncCluster` |
| `AuditChain` | the chained file | |
| `ClusterPages` | the pages of the merged export | extended by the next one |
| `AuditExport` | the read of each peer's log while it grows | a behaviour is one of its own steps or one of `ClusterPages`, chosen by `paging` at `Init` |
| `MasterRequests` | `withMasterIdempotency` | extended by `MasterApi` |
| `RateLimiter`, `Tokens` | `simpleRateLimiter`; `internal/auth` | extended by `MasterApi` |
| `MasterApi` | a request on its way through limiter, role, key and handler, with kills and commands | composes the three |
| `Webhooks` | subscriptions and deliveries | extended by `Attachments`, whose handlers announce their events to it |
| `Attachments` | uploads, links, completion and listing | replication as in `Tracker` |
| `SyncClusterProofs`, `DataDirProofs`, `TrackerProofs`, `GovernanceProofs`, `MasterApiProofs`, `AttachmentsProofs` | theorems about the module they are named after | each extends it |
| `TrustProofs`, `AuditProofs` | theorems about `Trust` and `Peers`; about `AuditChain` and `AuditExport` | each extends both: what one says of its state does not depend on the other |

Every module at the top of a composition has an `MC<module>` that gives the
constants their values. One action stands for one step between two points where
another process, handler or crash can come in between: a lock released, a request
sent, a file emptied. Definitions carry the names of the code. A definition that is commented
"Mutant of X" is a plausible bug of X. It is in no specification.

How the state corresponds, for `SyncCluster`: `log[n]` is `events.jsonl`,
`lastSeq` and `replayIx` are the fields of `EventLog`, `inflight` are events
between `NextSeq` and `Append` in `appendIssueEventWithLog`, `pc`, `todo`,
`peer`, `remote`, `local`, `need`, `items` are the locals of `syncLoop` and
`pullFromPeer`. `Crash` empties everything but the file. An event carries the key it
was signed with, as in the code: its signature verifies with that key, whoever's it
is, unless its fields were changed after signing (`Altered`). `Strays` are events
that name a node and carry another key; the ingest endpoint and the loop take them
like any other.

A document is saved with `os.WriteFile`, which empties the file and writes it then.
`Trust`, `MasterApi`, `Webhooks` and `DataDir` have both steps, and a save can fail
before the file is opened, or after it is empty, with part of the document in it or
nothing; the process goes on either way, unless the code ends it.

For `MasterApi`: `slots` are the requests at work, each with the step it is at and
what it has read so far; `counts` and `windowAt` are the fields of the two limiters;
`doc`, `file` and `config` are `Manager.doc`, `auth.tokens.json` and
`syncServer.authTokens`; `seen` is `masterIdemSeen`.

The other modules say at their VARIABLES which field or local each one is.
Variables marked "history" record what was reported to a caller; no step depends
on them, but for a bound on how often something happens.

## 3. Runs

| Run | Instance | Shows |
|---|---|---|
| `sync_pair` | 2 nodes, 2 events, 1 event with another key under the name of each, 2 handlers each, 2 faults | `ChainVerifies`, `Agreement`, `IndexMatchesFile`, `AckedIsDurable`, `ClockTellsAll`, refinement `ReplicatesLog` |
| `sync_relay` | 3 nodes in a ring, 1 event, 2 faults | `EventsSpread` under fairness |
| `datadir_commands` | the server and a command, 1 old row, 2 events, 2 keys, 2 signing keys, 1 kill or write cut short | `KeyringCoversFile`; one at a time also `FileIsChain`, `AckedSurvives`, `EncryptedAtRest`, `OneKeySigns` |
| `tracker_board` | 2 nodes, one second apart, 2 issues, all operations, 3 events after a past of none or two, 1 offboarding, 1 clock set back two seconds | `BoardsConverge`, `SignerOrderKept`, `OffboardIsComplete` |
| `tracker_skew` | 2 nodes, one second apart, 1 issue, 2 events | a violation of `OffboardClears` |
| `gov_quorum` | 3 nodes, 4 ids, 2 members, 2 requests, 2 faults; a behaviour has changes of the voting set, of the team, or of the trust list with the validate endpoints | `QuorumsIntersect`, `VotersAreTheLastSet`, `OneFailureIsTolerated` |
| `trust_list` | 2 nodes, 2 tokens, 2 faults | `BarredStaysOut`, `MembersAreKept`, `InviteAdmitsOnce` |
| `peers_churn` | a static peer and one it lists, no bound on what they do | `RevokedPeersAreDropped`, and under fairness `DeadPeersAreForgotten`, `PeersAreFound`, `ReturnedPeersArePulled` |
| `audit_chain` | the server and a command, 3 appends of 3 bodies (two that hash alike, one that is no UTF-8), 1 failing, 2 torn, 1 damage, restarts | `OriginalVerifies`, `InnerDamageIsFound`, `TornWriteCostsOneRecord` |
| `export_ends` | 3 nodes: 2 exports, pages of 3; or a client of the merged result, 4 records of which up to 2 are there at first, pages of 1, 1 peer that does not answer | `ExportIsComplete`, `ExportEnds`; `PagesMissNothing` |
| `master_api` | 2 requests at a time on a node with limits of 1 and two addresses, on one whose admin changes tokens (2 kills or failed saves, at a start too), or on one whose clients repeat 3 keys (limit of the map 1, retention 1) | `AtMostTwiceTheLimit`, `RevokedTokensAreOut`, `IssuedTokensWork`, `RunsAreApart` |
| `files_uploads` | 2 nodes, 1 file or link, 2 upload attempts, 1 webhook, 3 events, 2 faults, both backends | `ListedIsIntact`, `OpensEverywhere`, `RevokedHooksAreQuiet` |

`SyncCluster` and `Governance` have a type invariant `TypeOK` besides.

Where a module covers several behaviours of clients that would only multiply each
other, `Init` chooses one and the run explores all of them: `requests \in Families`
in `Governance`, `kinds \in Kinds` in `Tracker`, a profile in `MasterApi`, `paging` in `AuditExport`, `hooked` in
`Attachments`.

### What the code does not promise

Some properties hold under a condition. It is a variable of the model that the
property asks for (`shared`, `cut`, `tear`, `torn`, `stepped`, `mangled`, `damage`,
`checked`, `last`, `began`, the `key` of an event), so that the steps beyond it are explored too, or a constant (`PageLimit`,
`Exclusive`). Outside of it the code behaves as follows.

| Condition | Outside of it |
|---|---|
| `Agreement`, `ClockTellsAll`: events with the key of the signer they name | the signature is checked with the key that the event carries (`signing.go:33`), and of the signer only the name is looked up in the trust list (`main.go:1804`; a pull asks for the events of a name, `main.go:4187`). An event of another key under a trusted name is stored if it has the next number there; the true event of that number is then refused as a replay, so two nodes with the same clock can hold different events, and no later pull tells them. `docs/SDD-02-near-term-execution-plan.md:24` says that a mismatch of signer and node is rejected. `ChainVerifies` and `IndexMatchesFile` hold all the same |
| `DataDir`: no process beside another (`~shared`) | each process numbers rows from its own memory (`eventlog.go:98`), so a command that appends beside the server gives one number to two rows; a rewrite loses rows appended meanwhile; after a rotation the server lacks the key of the new rows (`crypto.go:230`) until it is restarted. Two commands that rotate at once can each save a keyring without the other's key; one command is modelled |
| `AckedSurvives`: no rewrite is killed, or fails to write a row | `rewriteAllUnlocked` truncates the only copy of the log (`eventlog.go:304`), and a full disk ends it with an error and part of the rows (`eventlog.go:325`) |
| `EncryptedAtRest`: no rewrite is killed or fails | run again, `enable-encryption` sees an active key and reports success (`crypto.go:175`) although the old rows are in the clear |
| `OffboardClears`: would need clocks that agree | the replay sorts by the signers' timestamps (`main.go:4636`): a reassignment signed after a create it has seen comes before it if the other clock is ahead. This is the run `tracker_skew` |
| `SignerOrderKept`: the clock of the signer was not set back | timestamps are `time.Now().UTC()`, the time of the wall, so an event signed after the clock went back is replayed before the older ones. The board of every node is the same one still (`BoardsConverge`) |
| `OffboardIsComplete`: the tasks that were read | a create in flight, or one that replication brings later, stays with the user (`main.go:6084`) |
| `VotersAreTheLastSet`: this node's last change was a set | a set is applied at the node that was asked and carried nowhere (`main.go:2648`); a restart gives the node its own vote back (`main.go:1332`) and may make the set even |
| `OriginalVerifies`: one process at a time, no torn write, and records of UTF-8 | two processes link two records to one (`audit/manager.go:44`); a record after a torn one is glued to it (`audit/manager.go:83`). The hash is of the strings as they came (`audit/manager.go:159`), JSON keeps what is no UTF-8 as another character, so a record with such a string, which an `X-Forwarded-For` header (`main.go:6499`) or a filter of the export (`main.go:2831`) can bring in, fails the check for good, in a file that nobody touched. `docs/SDD-06-end-to-end-audit-logging-and-export.md:59` says that the check passes on the original |
| `InnerDamageIsFound`: lines of the chain, and not the end of the file | the head of the chain is kept nowhere else (`audit/manager.go:135`). A record without a hash is passed over when the file is checked (`audit/manager.go:143`) and when it is opened (`audit/manager.go:49`), so one that is put in goes unseen, and the next append links past a last line whose hash was left out. The hash needs no key: a last line can be changed and hashed again. The fields are trimmed and joined by a bar (`audit/manager.go:159`), so two records can have one hash. The documents say that tampering is found (lines 46 and 59 of `SDD-06`) |
| `ListedIsIntact`: the client sent its checksum | without it the hash of a half-written file may be recorded (`main.go:3450`) |
| `ExportEnds`: a page holds more than its peers' exports add to the log | with pages of 2 and two exports whose filter shows their own records, the logs grow as fast as they are read (`main.go:2828`). A client of the merged result whose filter shows the records of its own pages can be kept going the same way |
| `PagesMissNothing`: every peer answers for every page | the records of a peer that does not answer are not in the merge, so the offset counts over another merge than the next page's, and records are skipped (`main.go:5281`) |
| `RunsAreApart`, within one process and for one key | a restart forgets all keys; the map itself is not bounded, since keys younger than a day are kept (`main.go:6276`). The key holds the user that the token has at that moment: when it lapses after the request was authorized, the same request runs once more under the key of the address (`main.go:6256`) |
| `RevokedTokensAreOut`: not a token the running configuration names active | a token the document refuses is looked up in the configuration once more (`main.go:6306`), so a configured token goes on working after it was revoked or has expired, where `docs/SDD-03-security-and-team-lifecycle.md:27` forbids operations with one. One that the configuration no longer names comes back too, if a process ended, by a kill or after a save that failed, with `auth.tokens.json` empty or in part (`auth/manager.go:227`; a start saves too, `main.go:1318`) while a configuration named it: the record that is seeded then is active and says nothing of the revocation (`auth/manager.go:147`), and it stays when the next configuration drops the token |
| `IssuedTokensWork`, `MembersAreKept`: no process ends with the file empty or in part | `os.WriteFile` empties the file first (`auth/manager.go:227`, `trust/manager.go:157`). A kill then, or a full disk, leaves it so; a server that goes on makes up for it with its next save, but until then the file has lost what was reported. An empty file loads as an empty document, all issued tokens or members are gone, and one in part does not load. A start whose own save fails ends the server (`main.go:1318`) |
| `AtMostTwiceTheLimit`: per user, or per address a request names | the address of a request without a token is what its `X-Forwarded-For` header says (`main.go:6525`), so a client that names several has as many limits. A window is a minute of the wall clock (`main.go:6604`); setting the clock begins another one |
| Roles of a token: those it was issued with | `bind-role` changes only tokens issued later; a role lowered in the configuration does not reach a record that was seeded before; `team.offboard` revokes no token, which `docs/SDD-03-security-and-team-lifecycle.tasks.md:16` lists as done |
| `Tokens`, `Governance`: commands run while the server is stopped | the server never reloads its documents, so its next save undoes what a command saved beside it. A command asks no peer for a vote, and `QuorumsIntersect` is about servers. `Governance` also leaves out a save that fails while the server goes on: the file then lacks a change, as after a crash, until the next one |
| `OneFailureIsTolerated`, `QuorumsIntersect`: votes are counted over the configured peers | a peer that is revoked, or has no vote in the document, is asked and counted as well (`main.go:2737`). The validate endpoints only tell whether the votes are there; nothing holds a command to the answer |
| `OneKeySigns`: no process beside another | two first starts each make a key, and the rows of one are signed by a key no file holds (`identity.go:51`) |
| `KeyringCoversFile`: the keyring is not empty | a kill while it is written leaves it empty (`crypto.go:60`): no sealed row opens again, and no process starts |
| Files that do not parse | an emptied `webhooks.json`, key file, `events.meta.json` or keyring keeps the node from starting, as does a row glued to an append cut short; emptied `governance.json`, `team.json`, `trust.json` and `auth.tokens.json` load as empty documents, and one of these with part of a document keeps the node from starting |
| `RevokedHooksAreQuiet` says nothing of deliveries that must arrive | each is tried once, in no order, and those on their way at a kill are lost (`main.go:5470`) |
| `Trust` with `Exclusive = TRUE` | the server never reloads its list: its next save undoes what a command saved (`trust/manager.go:152`) |

### Bounds and why they suffice

* Two nodes and two handlers are the least that race for a number and disagree;
  a third node is needed only where an event passes through a node that did not
  sign it (`sync_relay`), or where votes can be split (`gov_quorum`).
* Two events, and one with another key under the name of each node, let a pull meet
  a duplicate, a number that is taken, and an event appended while it runs. One fault is a crash or a lost request in any place, and the
  second one hits the recovery from the first.
* In `tracker_board` an offboarding that has handed on one of two tasks must be
  able to lose the race for the next number: two tasks from before, two
  reassignments and one comment. The nodes are asked for different operations, so
  that the instance stays small: either both create one issue and one moves and
  comments, or one archives an issue while the other unarchives it.
* In `tracker_board` a clock set back two seconds, from one ahead to one behind, puts
  the next event of its node before the last one.
* `OldRows` are rows of schema version 1.
* In `DataDir` two keys are one before and one after a rotation, two signing keys
  a first start and one that comes too late.
* In `MasterApi` a limit of 1 a minute of two ticks puts the end of a window
  between two requests; one issued token and two configured ones, of which the
  next configuration may drop one, meet every source a token can come from; two
  requests in flight are the least where one revokes what the other has read.
* Four records and pages of 1 let a record be sorted in before, at and after the
  cursor of a client in the middle of its pages. `Reader` is one node: the others
  differ from it only in what they hold, and `Init` deals the records in every way.
* `MasterApi` has two restarts: one to seed a token again, one to drop it from the
  configuration.
* The pasts a `tracker_board` starts from are files that ascend, of events signed
  no later than their signer's clock (`PastsAssumption`).
* In `MasterRequests` the limit of 50000 keys is 1 and the retention of 24
  hours is 1; in `Peers` the TTL of 45 seconds and the longest back-off of
  2^6 seconds are 1 and 2^1. Nothing depends on their size but on which is reached
  first, and time passes both.
* `Peers` has no bound but `MaxPass`, the seconds a pass takes.

* `audit_chain` has a constraint, `Telling`: states in which the file was damaged and
  also disturbed are not explored further. All three properties are true of such a
  state and of all that follow, since neither is ever undone.

Deadlock is checked in the run of `Peers`. `Trust` may stop for good: when
`trust.json` holds part of a document no process starts, and nothing repairs the file.
The other modules stop when a bound (`Max...`) is used up. Their runs say
`CHECK_DEADLOCK FALSE`. Symmetry is used in `sync_pair` (nodes),
`files_uploads` (nodes, upload attempts) and `master_api` (requests in flight): model
values that no constant tells apart. None of the three checks liveness.

### Fairness

* `SyncCluster`: weak fairness of each node's sync loop, a goroutine on a
  ticker, and of the restart of a stopped node (systemd, `Restart=always` in
  `deploy/install-systemd-service.sh`). Nothing is assumed of clients and
  handlers. Faults are bounded, which is the assumption that they end; a request
  that is skipped because of the back-off is such a fault, and `Peers` shows
  that the back-off ends.
* `AuditExport`: weak fairness of a handler that runs; its requests have a timeout.
* `Peers`: weak fairness of the loop and of the clock.

## 4. Proofs

Every safety property of the passing runs is a theorem. A module's `ASSUME`s are
the only hypotheses, except where a table says otherwise. They give bounds and sets
their types and keep model values apart; the ones that say more are named below.
Every proof has the same course: `Init` implies the invariant, each action keeps it
(one lemma or step per action, and under it one per part that the action touches),
and it implies the properties.

### Replication (`SyncClusterProofs`)

For every set of nodes, keys and strays, topology, trust relation and bound.

| Theorem | Statement |
|---|---|
| `Invariance` | `Spec => []IInv` |
| `TypeCorrect` | `Spec => []TypeOK` |
| `ChainAlwaysVerifies` | `Spec => []ChainVerifies` |
| `NodesAgree` | `Spec => []Agreement` |
| `AckedStays` | `Spec => []AckedIsDurable` |
| `FilesOnlyGrow` | `Spec => AppendOnly` |
| `ClockIsEnough` | `Spec => []ClockTellsAll` |
| `IndexIsExact` | `Spec => []IndexMatchesFile` |
| `RefinesReplicatedLog` | `Spec => ReplicatesLog` |

`Agreement` is not inductive: that a node may copy an event needs the copy it is
offered to be the one its signer holds. So `IInv` says that each event in a file, or
in a batch that was fetched, is in its signer's file if it carries the signer's key
(`OriginInv`): signing with it is the one thing only the signer does. Of events with
any key it says that the rows of a name ascend without a gap up to a top number
(`FileInv`), and that the index of a running server is that top number and the
numbers of its rows (`IndexInv`); and that what a handler holds carries its node's
signature (`InflightInv`). All changes of a file are one operator, `Write`, and the
lemma `WriteKeepsInv` says once what it preserves for an event that `Accepts` lets
through and that its signer holds or did not sign. `NextInv` has one step per action.
`Agreement` follows since a signer's own file has each number once
(`NumberOccursOnce`). `ClockTellsAll` follows since files have no gap, for two nodes
that took up no event of another key. The refinement uses `StepWritesOne`: a step
leaves all files alone or writes one event to one.

### Data directory (`DataDirProofs`)

| Theorem | Statement |
|---|---|
| `Invariance` | `Spec => [](TypeInv /\ SchemaInv /\ AloneInv)` |
| `FileStaysChain`, `CommandsKeepEvents`, `EnabledIsEncrypted`, `KeyFileSigns` | `FileIsChain`, `AckedSurvives`, `EncryptedAtRest`, `OneKeySigns` |
| `KeyringIsEnough` | `KeyringCoversFile`, if `Commands` has one member at most |

`AloneInv` holds as long as `~shared`. A process's memory is then what the file
says: the keyring it holds is the one on disk, `lastSeq` is the length of the file,
and while it writes the file anew, the rows written so far are those it has read,
sealed with its key (`Rewriting`). `FileIsChain` follows wherever the process is
killed, since a part of a numbered buffer is numbered. `AckedSurvives` needs to say
that an acknowledged body is in the file or in the buffer, which is why a kill
or a failed write among the writes is excepted. `SealedInv` says beside `EncryptedAtRest` that no row
is in the clear once there is a keyring and no process is at work on it, without
which a second `enable-encryption` could report success over rows in the clear. That the highest
number `loadIndexes` looks for exists is by the least number principle (`LeastNumber`).

`KeyringCoversFile` is about a command beside the server, where `AloneInv` says
nothing. `RingInv` says that the command holds the keyring on disk and that every
other process holds part of it; with two commands it fails, as section 3 says.

### Issues and board (`TrackerProofs`)

| Theorem | Statement |
|---|---|
| `Invariance` | `Spec => []IInv` |
| `BoardsAgree` | `Spec => []BoardsConverge` |
| `SignersStayInOrder` | `Spec => []SignerOrderKept` |
| `OffboardsAreComplete` | `Spec => []OffboardIsComplete` |

For clocks set apart in any way and set back any number of times. `PastsAssumption` says of the files a behaviour
starts from what `LogInv` says of all later ones.

A signer's events are in order of number and of time only because a number that
was taken too early is refused by `Append`. So `PendingInv` says of an event that a
handler has signed, and not appended yet, that its number is at most the next one,
and that it was signed no earlier than the rows with smaller numbers, unless the clock
of that node was set back (`stepped`). An event that lost the race then has a number the file holds. `OffInv` says that each task
an offboarding found is left to do or has its event.

The replay's sort is written as a rank: the place of a row is one more than the
number of rows that `Before` puts ahead of it. `BoardsConverge` then needs no
induction over the replay: rank depends on the set of rows alone (`NodesAgree` of
the replication is what makes the rows of two files equal), so two files
with the same rows are replayed from the same sequence. That every place from 1 to
the number of rows is taken is an injection of a finite set into itself.

### Votes (`GovernanceProofs`)

| Theorem | Statement |
|---|---|
| `Invariance`, `TypeCorrect` | `Spec => []IInv`, `Spec => []TypeOK` |
| `AppliedChangesShareAVoter` | `Spec => []QuorumsIntersect` |
| `RefusalNeedsHalf` | `Spec => []OneFailureIsTolerated` |
| `DocumentsFollowTheSet` | `Spec => []VotersAreTheLastSet` |

For every finite set of nodes. What a change had in votes is seen only from the
handler that applies it, so `HandlerInv` says that a request which is saved has
asked everybody and has a majority, and that a peer is yet to be asked, agreed, or
lost. Two majorities of a finite set meet (`MajoritiesMeet`), by the cardinality of
their union.

### Trust list and discovery (`TrustProofs`)

| Theorem | Statement |
|---|---|
| `Invariance` | `Spec => []IInv`, if `Exclusive` |
| `RevokedStayOut`, `ReportedMembersAreKept`, `InvitesAdmitOnce` | `BarredStaysOut`, `MembersAreKept`, `InviteAdmitsOnce`, if `Exclusive` |
| `PeersFollowTheList` | `PeersSpec => []RevokedPeersAreDropped` |

`Exclusive`: a command runs only while the server does not, as section 3 says. The
answer to a caller comes after the save, so `JobInv` ties what a process is about to
report to the document in its memory, and the invariant speaks of memory and file
alike: a copy that a kill or a failed save has left is loaded later. `disk` says whether
the file is whole, and `torn` that a process ended while it was not; until then
memory makes up for the file, which is why `MembersInv` speaks of both.
`RevokedPeersAreDropped` is inductive with its types, for every topology, since
`Prune` reads the list itself and not a copy made at the beginning of the pass.

### Audit log and its export (`AuditProofs`)

| Theorem | Statement |
|---|---|
| `Invariance` | `Spec => [](TypeInv /\ ChainInv /\ TornInv)` |
| `OriginalsPass`, `DamageStaysVisible`, `TornWritesCostOneEach` | `OriginalVerifies`, `InnerDamageIsFound`, `TornWriteCostsOneRecord` |
| `ExportInvariance` | `ExportSpec => [](ExportInv /\ PagesInv)` |
| `ExportsAreComplete`, `PagesAreComplete` | `ExportIsComplete`, `PagesMissNothing` |

A hash is the text of a record with the hash of its predecessor, and records without a
hash are passed over. As long as nothing disturbs the file, `Whole` and `Chain` say
that every line is a record of the chain, hashed with the hash before it, and that no
two hashes are equal, although a number may be given twice after a failed append
and two records may have one text: a hash contains all the hashes before it. `Chain`
does not say that a line holds what was hashed. `Kept` does, and `ChainInv` has it
exactly as long as no record was written whose text reading does not keep
(`mangled`). Since all hashes differ, a line of the chain that is lost, moved, put in or
changed breaks a link. `StaysBroken` says that no later `Append` repairs it: an
append after another line changes no link before it.
`TornInv` says that a write cut short is paid for when the next record joins its
line. For the export, `Progress` bounds the offset by what the log held; for the
pages, a record that was there at first is given already or lies at the offset of
the merge or beyond, wherever new ones were sorted in.

### The way of a request (`MasterApiProofs`)

| Theorem | Statement |
|---|---|
| `Invariance` | `Spec => [](IdemInv /\ LimiterInv /\ TokensInv)` |
| `HandlersRunApart` | `Spec => RunsAreApart` |
| `TwiceTheLimitAtMost` | `Spec => []AtMostTwiceTheLimit` |
| `RevokedStayRefused` | `Spec => []RevokedTokensAreOut` |
| `IssuedKeepWorking` | `Spec => []IssuedTokensWork` |

The three parts of a request have state of their own, so each has an invariant.
`IdemInv`: a key that began within the retention is in the map with that time,
and a prune keeps it. `LimiterInv`: what was let through in a stretch of time
is split at the begin of the window, and each part is bounded by the limit; for this
`passes` counts, per age, the requests of this tick and of the younger ones, so
that no sum is needed. `TokensInv` speaks of memory and file alike, as for the
trust list. The attempt to prove it showed that `RevokedTokensAreOut` was stated too
strongly and the bound on restarts was too small to tell: the exception for a file
left empty or in part, in section 3, came from the step that could not be proved, and TLC
meets it with two restarts.

### Attachments and webhooks (`AttachmentsProofs`)

| Theorem | Statement |
|---|---|
| `Invariance` | `Spec => []IInv` |
| `ListedStaysIntact` | `Spec => []ListedIsIntact` |
| `OpensAtEveryNode` | `Spec => []OpensEverywhere` |
| `RevokedStayQuiet` | `Spec => []RevokedHooksAreQuiet` |

`BytesInv`: part of a file is stored only where one of its attempts is writing or was
cut short. `HashInv`: what was hashed is stored still, and was all of the file if the
client's checksum or the bucket says so. `HookInv`: a hook lives at one node,
and from the save of its revocation on it is active in no memory and no file, so no
restart and no failed save brings it back.

### Only model-checked

* Liveness: `EventsSpread`, `ExportEnds`, `DeadPeersAreForgotten`, `PeersAreFound`
  and `ReturnedPeersArePulled`. The prover has no ENABLED and so no fairness.
* The contents of a board. The replay folds over the events, and an
  induction over data needs a theorem that none of the installed provers can
  instantiate. `BoardsConverge` says that boards are equal and needs no more;
  `OffboardClears` is refuted by its run.

The runs of `DataDir` and `Trust` have the hypotheses of their theorems: one command,
and `Exclusive`. Section 3 says what the code does without them.

## 5. Not modelled

* Contents that no property tells apart: summary, priority, payloads, rendering.
* Clocks that are set, outside of `Tracker`: the windows of the limiter and the expiry
  of tokens and invites are told by a clock that only goes on.
* fsync, and files that go back to an older state (a restored backup), after which
  a node may sign numbers its peers already hold.
* The archive the recovery drill makes; the command that reads a keyring through
  the external provider (its file counts as part of the keyring).
* Reads of attachments: download, open, verify, and the verify loop, which reads a
  file while it may be uploaded again (`main.go:4112`) and then reports a mismatch
  that the next round takes back. They change nothing.
* The filter of a webhook by event: every subscription is to all events.
* Filters of an audit export, except whether they show the export's own records.
* TLS, metrics, the command line and the deployment scripts: they keep no state of
  their own.

## 6. Plan

Done: the replication with its proofs, the data directory with keyring and
signing key, the tracker, the documents that need votes (governance, team, trust),
the trust list of one node, discovery, the audit log, its export and the pages of
it, the way of a request through limiter, tokens and idempotency, attachments with
links and webhooks; and a theorem for each of their safety properties.

Next, in this order:

1. Abstract specifications: a trust list as an atomic set that `Trust` implements
   when one process runs; an audit chain as a sequence that only grows. Prove the
   refinements from the invariants of section 4.
2. Action properties: what a step may never do to a document that was reported
   saved, and to the rows of a file outside a rewrite.
3. A node whose file goes back to a backup, in `SyncCluster`, and which of its
   properties survive.
