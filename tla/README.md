# Verification of WebRequestAttribution

TLA+ models of the server in `src/`, TLC runs that check them on small
instances, and TLAPS proofs of their main theorems for every instance.
`PROJECT.json` lists components, runs, mutants, the source lines behind every
definition, findings, hazards and theorems.

## The system

A single Go process ingests web-server logs into SQLite and serves a dashboard.

| Component | State it keeps | Operations | Hard behaviour |
|---|---|---|---|
| Directory watcher, `internal/watcher/dir.go` | `file_state` rows (path, inode, size, offset, fingerprint) | scan every 5 s, `handleFile`, `consumeRange`, `importCompressed` | rotation and truncation between any two calls; crash between a committed batch and the checkpoint; sources that share a row |
| File watcher, `file.go` | an open file, an offset, a scanner; nothing persistent | `watchLoop` on fsnotify events | queued events of several rotations; retries that skip; the scanner after end of file |
| Syslog receiver, `syslog.go` | sockets, TCP buffers | UDP and TCP reception | connections at shutdown; framing |
| Source manager, `manager.go` | running sources, keywords, `watch`, a mutex | `Apply`, `Stop` | waits for goroutines with the mutex held; concurrent saves |
| Runtime configuration, `internal/runtimeconfig` | the `runtime_config` row, `current`, subscribers | `New`, `Get`, `Set`, `notify`, `Subscribe` | notification outside the lock |
| Request store, `internal/storage` | `requests`, `keyword_hits`, `file_state`, `geo_cache` | `Insert`, `InsertBatch`, upserts, queries | transactions and single statements; page and count without a snapshot |
| Accounts, `internal/auth/auth.go`, `handler.go` | `users`, `sessions`, `audit_log` | login, sessions, user management | check-then-act on the last administrator; sessions against password changes |
| Login limiter, `ratelimit.go` | failures per key | `tooMany`, `recordFailure`, `reset` | the check and the record are separate; bound on keys |
| Geo resolver, `internal/geo` | an enabled switch; `geo_cache` | `Run`, `resolveBatch`, `lookup` | an address that fails for ever; rate limiting |
| Server lifecycle, `cmd/main.go`, `api/config_handler.go` | the process | boot order, `-import`, signal, re-exec | what survives a restart |
| Parsers, query API, configuration file, web page | none of their own | pure functions, reads | |

**How they interact.** `main` loads the stored configuration, calls
`Manager.Apply` with it and subscribes `Apply` and `Resolver.SetEnabled` to the
configuration store. A PUT of the configuration runs `Set`, and with it both
subscribers, on the HTTP request's goroutine. `Apply` starts and stops one
goroutine per source; these call the store's `InsertBatch` and, for directory
sources, read and write the `file_state` row of each file. The only state shared
between processes, one after the other, is the database and the log directory.

**What makes each component correct.** Watchers: no line skipped, none twice
without a cause, every line in the end. Manager: what runs is what was last
applied; never two readers on one source. Configuration: what is shown, stored
and running agree. Accounts: an enabled administrator is left; a session does
not outlive what authorised it. Limiter: failures within the window are counted.
Geo: every address is resolved in the end. Store: a request and its keyword hits
appear together.

## Modules

| Module | Models | Extends |
|---|---|---|
| `DirWatcher` | the directory watcher, plain files, with log writer and logrotate | |
| `Ingestion` | what a directory source promises: an at-least-once shipper that keeps its place | |
| `DirIngestion` | the refinement mapping from `DirWatcher` to `Ingestion` | `DirWatcher` |
| `DirWatcherProofs` | theorems of `DirWatcher`, and that it implements `Ingestion` | `DirIngestion`, TLAPS |
| `FileTail` | the file watcher, with log writer, logrotate and inotify | |
| `FileTailProofs` | theorems of `FileTail` | `FileTail`, TLAPS |
| `ArchiveImport` | `.gz` archives read by directory sources, file sources and `-import`, with logrotate | |
| `ArchiveImportProofs` | theorems of `ArchiveImport` | `ArchiveImport`, TLAPS |
| `SyslogReceiver` | the syslog sources, their sockets and connections, down to the statements of `Insert` | |
| `SyslogReceiverProofs` | theorems of `SyslogReceiver` | `SyslogReceiver`, TLAPS |
| `SourceManager` | the manager and its readers | |
| `ConfigReload` | the configuration store, the geo switch and the server's lifecycle around the manager | `SourceManager` |
| `ConfigReloadProofs` | theorems of `SourceManager` and of `ConfigReload` | `ConfigReload`, TLAPS |
| `Accounts` | accounts, sessions and the HTTP handlers that use them | |
| `AccountsProofs` | theorems of `Accounts` | `Accounts`, TLAPS |
| `LoginLimiter` | the login throttle | |
| `LoginLimiterProofs` | theorems of `LoginLimiter` | `LoginLimiter`, TLAPS |
| `RequestStore` | the tables `requests` and `geo_cache` with the queries made of them | |
| `GeoResolver` | the background resolver | `RequestStore` |
| `RequestPager` | the request list of the web page and the query behind it | `RequestStore` |
| `Dashboard` | the composition of ingestion, resolver and pager | `GeoResolver`, `RequestPager` |
| `DashboardProofs` | theorems of `Dashboard` and its parts | `Dashboard`, TLAPS |
| `MCDirWatcher`, `MCFileTail`, `MCArchiveImport`, `MCConfigReload`, `MCAccounts`, `MCDashboard` | values of the constants for TLC | |

An operator named in a comment `Mutant:` is a plausible wrong version of the
definition below it. No specification uses it; `PROJECT.json` says which
property refutes it.

### DirWatcher

A file is an inode holding a *generation* (what was written since it was created
or truncated) of some number of *chunks*; a line is `LineLen` chunks. Line `i`
of generation `g` is `<<g, i>>`, so a line is one thing wherever its file is
renamed to. `requests` counts its copies in the table. Paths `0..Depth` are the
live log and the names logrotate gives it that the source's pattern also
matches.

Each call that touches a file or the database is an action of its own: `Stat`,
`GetFileState`, `ReadHead` (`readFingerprint` and the switch that picks the
offset), `Open`, `ReadBatch`/`ReadEOF`/`ReadTooLong` (the scanner up to a full
batch, the end of the file, or a line over 1 MiB), `Insert` (one transaction),
`Upsert`, `Unchanged`, `Refresh`. The environment (`Append`, `Create`, `Rotate`,
`CopyTruncate`) acts between any two of them; freed inodes are reused. `Fail` is
any call that returns an error, `Crash` any end of the process. Renaming onto a
file the pattern does not match is a rotation past `Depth`. Modification times
are left out: they decide only whether an upsert that changes nothing else is
made.

Assumptions about the environment are constants: `LineLen = 1` (whole lines are
written at once), `UniqueHeads` (different contents differ in the first 64
bytes), `FPLen` (chunks the fingerprint covers), `StatWindow` (a file may be
emptied between `os.Stat` and `readFingerprint`, two adjacent calls). Dropping
the first, the second or the last makes TLC find a skipped line; the hazards in
`PROJECT.json` say which.

The code repeats lines in two ways that need no fault. A line over 1 MiB ends a
scan without a row after the full batches before it were committed (`dir.go:296`
and `302`), and a head shorter than 64 bytes is another fingerprint once the
file has grown (`dir.go:212`). `again` counts, for each generation, the times
this was about to happen: a `ReadTooLong` with batches behind it, and a
`ReadHead` that finds the head of the row's file grown (`HeadGrew`).
`DuplicatesHaveACause` allows one copy more for each, for each failed call and
crash, and for each time a file was replaced while the handler was at it
(`raced`); everything else, scans, rotation and reused inodes, is allowed none.

### Ingestion

Its state is three sets: the lines in the files the source matches, the copies
of each line in the table, and the lines that are covered, that is, that no scan
will read again. `Change` is the writer and logrotate, `Ship` a batch, none of
which is covered, and `Checkpoint` moves the place over lines that have arrived.
`DirIngestion` maps the covered lines to those below the offset at which the
next scan of their file would resume (`ResumeAt`), which takes row, inode,
length and fingerprint together. `ShipsAtLeastOnce` is the specification of
`Ingestion` under that mapping. So a rotation out of the pattern or a truncation
may take lines away, but no step of anyone makes the source forget a line that
stays.

It holds for one source on the live log. It does not for a pattern that also
matches rotated names, for a rename makes the row forget (`dir_rename`), nor for
two sources on a path, whose rows overwrite each other, nor where a head is more
than one write (`FPLen > 1`), for the row of a short head is forgotten when the
file grows.

### FileTail

Events on the log's name are queued from the moment the directory is watched. A
Write not yet read from the kernel may merge with the one before it; a Create or
Write refers to the name, not to the file, as in inotify. `atEOF` is the state
of the `bufio.Scanner`: once it has seen the end of the file it yields nothing
more. `StopOrFail` stands for any failing call and for the manager stopping the
reader; `Watch` then starts again, and `OpenAtEnd` skips what is there. `opens`,
`unread` and `tailed` are history for the properties.

### ArchiveImport

Archive `a` has lines `<<a, 1>>`, `<<a, 2>>`, ..., one for each block logrotate
has written; the end of the gzip stream is one block more. A size is a number of
blocks. The three readers share `ReadBatch` and `ReadRest`. The scanner stops
where the stream breaks off or ends, or before a line over 1 MiB (`Oversized`);
the lines before that are committed, the rest of a batch too, and only then does
an error of the scanner make the reader return without a row. So an archive with
such a line is imported up to it by every scan, and what follows it is never
read. The readers:

- a directory source walks (`Scan`, `Visit` with `os.Stat`), compares inode and
  size with the row (`GetFileState`), opens (`Open`), reads, and writes the row
  with the inode and size of the first `Stat` (`Upsert`);
- a file source lists the siblings once at its start (`ListSiblings`,
  `OpenSibling`) and keeps no row;
- the command opens the archive it is given (`Import`) and keeps no row.

Between any two of these logrotate begins, extends, completes or renames an
archive; readers are cancelled, exit and start again; a call fails, the process
dies. `InodeOf` says which archives are written on one inode, one after the
other: the code compares neither the fingerprint nor the equality of sizes, so
that an archive on a reused inode that is no larger than its predecessor at that
name is taken for imported (`storage.go:77-80` keeps the fingerprint,
`dir.go:169` does not look at it). `Mistaken` names that case, in which
`SkippedIsImported` and `CompleteArchivesArrive` promise nothing; in every other
a row that makes the source skip an archive must have been written for it.

`excuses` counts, for each archive, the events after which it may rightly be
read once more: a rename, a change or replacement while a source is at it, an
import that ended in an error, a file source's start, a command. The
documentation says that archives are imported once; the code does so only of one
that was complete when it was found, keeps its name and has no oversized line,
and `RepeatsHaveACause` says that there nothing is repeated. A rename to a name
at which the source is handling the archive before it counts twice: the row that
the source then writes is not that of the archive now there. `RepeatsHaveACause`
is about one directory source; of two, the one's row is the reason why the other
repeats. `.bz2` and `.xz` archives are rejected by every scan without effect,
and left out.

### SyslogReceiver

A receiver is a start of a source, of which the manager has at most one for each
`proto`; sources of different `proto` share the port. Each transport has a loop
(`Bind`, `ReadDatagram` or `Accept`, `LoopEnds`, `LoopFails`) and a helper
goroutine that closes its socket on cancellation (`CloseSocket`, then
`ReleasePort`: a closed socket first wakes the blocked call, and its port is
free a moment later). `LoopFails` leaves the socket bound until the context is
cancelled, as the code does. A connection has its own goroutine (`Scan`,
`HangUp`, `ScanTooLong`), which looks at the context between two lines.
`InsertRow` and `InsertHit` are the two statements of `Store.Insert`. `Stopped`
is the end of `stopLocked`'s wait. A line is accepted or dropped, by choice;
every accepted line matches one keyword. Of a line with several, a failed hit
statement also drops the hits of the keywords behind it (`storage.go:306-313`
returns), which would add to a row without its hit but to no row without any;
that is not represented. `Bind` may fail for any reason.

`Listen` may return before `Close` has given the port back, though
`manager.go:129-131` waits so that ports are "fully released": a successor that
binds in between fails, and nothing tries again. `Bind` models it and
`PortsReleased` promises only that the port is free in the end. The cancellation
of the root context is in `ConfigReload`.

### RequestStore, GeoResolver, RequestPager and Dashboard

`requests` is a sequence of rows with address and time; `Page` and
`DistinctUnresolvedIPs` are the queries, the first with the order of rows, the
second as the set of its possible results, for it does not order ties.
`InsertBatch` is some `Insert`s with nothing between them, so its behaviours are
among those of single inserts.

The resolver's loop is `StartBatch` (the switch, then the query), `SaveLocal` or
`Lookup` and `Save` for each address, `LookupFails` (the rest of the batch is
given up), `SaveFails`. `answered` and `sinceOff` are history. "Reserved
addresses are never sent upstream" (`docs/DEVELOPMENT.md:170-171`) is not stated
as a property: `localEntry` decides it by text, and knows fewer ranges than that
(`geo.go:220-230`); `LocalIPs` are the addresses it knows.

The pager is the request list of the web page. Whatever asks for a page sets
`currentPage` and counts (`Load`): the search button (`ApplyFilters`, page 1),
opening the tab (`SwitchTab`, the page there was), the page buttons and the
number typed in (`JumpToPage`). The filter is that of the input fields when the
page is asked for, so each of them may come with another one. `ReadRows` is the
second statement and the display; `RowsCutShort` is an error in the middle of
the rows, at which `Query` does not look (`rows.Err()` is not called), and
`LoadFails` one that leaves the rows and total of the page before under the
number of the new one. `unseen` are the rows that were there when the filter was
first used and have not been shown since, `front` the furthest page shown,
`passed` the pages before it that were not shown before it was, and `exact` says
that the page was shown whole with no row inserted between its two statements.
`MissedArePassedOver` allows a page of rows for each page passed over, and so
none to a reader who meets no fault and goes page by page.

Two things are assumed: a click while a load is under way is left out, whose two
answers could be shown in either order; and two rows with one timestamp stay in
one order from statement to statement, which `ORDER BY timestamp DESC` does not
promise but the index it is served from does in practice.

### SourceManager and ConfigReload

`Apply` and `Stop` are a call (`Call`), the acquisition of the mutex with the
plan of what to stop and look at (`Lock`), a cancel and a wait for each outdated
source (`CancelReader`, `Released`), a start or a skip for each key
(`StartReader`, `SkipStart`) and the return (`Unlock`). The order of keys is
Go's map order, so any. Readers exit when cancelled, die of errors of their own,
and are cancelled with the root context. `ConfigReload` adds boot, `Set`
(`LockStore`; `Persist` or `PersistFails`; `Publish`, which makes the document
current and releases the store's lock; then the subscribers in any order, then
`Saved`), SIGTERM and restart, between any two of these; requests, and so saves,
are served until the process ends, also while `mgr.Stop()` waits; its steps are
steps of the manager or leave it alone, which `ServerUsesManager` proves.

### Accounts

A request is the sequence of its SQL statements, with any statement of another
request between two of them: `CheckNoAccountMode`, `LookupSession` and
`LoadUser` are `RequireAuth`; then the handler keeps the `actor` of that moment.
`BeginUpdate`, `CountAdmins`, `UpdateUser`, `RevokeSessions` are a PATCH without
a password; `ChangePassword` and `RevokeSessions` change one. `BeginUpdate` is
the handler's checks together with the read of the account, on which nothing
else depends; a session that has expired is one that `LookupSession` may find so
at any time. `Fail` is a failing statement and `Stop` the end of the process,
after which `Boot` may make the first administrator.

A row of `users` is its role and whether it is disabled; user names and
passwords are not modelled, for `Authenticate` succeeds or changes nothing, and
whether the limiter refuses a login does not matter here. Deleting an account
leaves its sessions: the schema says `ON DELETE CASCADE`, but the server opens
its database without enabling foreign keys (only the unit tests do). That this
is harmless rests on `AUTOINCREMENT`, as the mutant `InsertUserReusing` shows.
The audit log and `last_login_at` are written and never read by this logic; the
CSRF check compares two values of the request itself; `PurgeExpiredSessions` is
called by no production code.

`created` and `born` number the accounts, `clock` counts disablings and password
changes, `since` and `revoked` carry it to the request's successful end, and
`overlap` says whether two requests have been past `RequireAuth` together: all
are history for the properties.

### LoginLimiter

`TooMany`, `RecordFailure` and `Reset` are each one critical section of the
limiter's mutex. A failure is its age; `Tick` is the passing of time, and a
failure is out of the window when its age is `Window`. The order in which
`recordFailure` visits the address and then the name matters when one place is
left, and is kept. Failures are in the order of their times, for `now` is read
with the mutex held, and so what `prune` keeps is the end of the list (`Live`).
`history` holds the failures of the keys that the map has room for, as an
observer who never cleans up would keep them; a failure for which
`recordFailure` finds no room is in neither (`KeysBounded` is about that bound).

## Runs

| Run | Instance | Shows |
|---|---|---|
| `dir` | 1 watcher, 1 path, 2 inodes, 2 generations of 3 lines, the third of the first oversized, batches of 2, 1 failed call, 1 crash, 2 copies of a line | `NoLineSkipped`, `DuplicatesHaveACause`, `OffsetAdvances`, the refinement `ShipsAtLeastOnce`, `EveryLineArrives` |
| `dir_rename` | 2 paths, 1 generation, no faults | violation of `RotationNeverReingests`: a rename into the pattern repeats lines |
| `tail` | 2 generations of 2 lines, 1 fault, one oversized line | `OnceForEachOpen`, `FirstReadArrives` |
| `tail_live` | 1 generation, no faults | violation of `LiveTailed`: the scanner is at its end for good |
| `archives` | 1 directory source, 1 file source, 1 command, 2 names, 2 archives of 2 lines on one inode, the second line of the second oversized, batches of 2, 2 starts, 1 failed call | `SkippedIsImported`, `RepeatsHaveACause`, `OneLateArchive`, `CancelledExits`, `CompleteArchivesArrive` |
| `syslog` | 2 receivers one after or beside the other, 1 connection, 2 lines, 2 faults | `AtMostOneLateRow`, `HitsAreComplete`, `ReceiverStops`, `PortsReleased` |
| `reload` | 2 admins, 2 saves, 4 documents, 2 keys, 1 restart | `OneReaderPerKey`, `Reconciled`, `StoredFirst`, `SerialSavesTakeEffect`, `SaveReturns` |
| `reload_order` | the same, no restart | violation of `SavesTakeEffect`: the older of two saves is applied last |
| `accounts` | 2 requests, 1 token, 3 accounts, 1 disabling or password change | `SessionsKeepTheirAccount`, `RevocationHolds`, `SerialAdminRemains` |
| `accounts_last_admin` | the same with 2 accounts | violation of `UpdatesKeepAnAdmin`: counted before, updated after another request |
| `login_throttle` | 2 attempts, 2 addresses, 2 names, 3 keys, limit 2, window 2 | `KeysBounded`, `FailuresBounded`, `NothingForgotten`, `ThrottleEnds` |
| `live_data` | 3 addresses, one of them local, 2 times, 3 rows, batches of 2, pages of 1, 2 overlapping filters | `LookedUpOnce`, `OffEndsWithBatch`, `MissedArePassedOver`, `EveryAddressResolved` |

Each passing run also checks the type invariant of its module.

**Bounds.** Two inodes let a new file take a rotated one's inode and two
generations let a path hold first one content and then another; three lines let
a file shrink, regrow to the old offset and pass it, and make a full batch and a
rest. One crash and one failed call reach every step. The oversized line comes
behind a full batch, which every scan of its file inserts again, so there are
ever more copies: states with a line in the table more than twice are checked
but not left (`CopiesBounded`), and the behaviours that remain are those in
which that file is rotated away or truncated before long. Heads are of one line
(`FPLen = 1`), for `ShipsAtLeastOnce` needs it; with two, `DuplicatesHaveACause`
holds in TLC as well, and `CopiesHaveACause` proves it for any. For `FileTail`
two generations already give a line read twice. In `archives` the first archive
is enough for its name, size and state to change under each of three readers,
and two starts let a reader come back to it. The second is on its inode, so that
its row may be taken for that of the first, and has an oversized line; once it
has begun, only the directory source is explored, without a restart or a failed
call (`Scope`). `MaxCount` is where copies and excuses stop counting. Two
receivers are the least that contend for a port, one connection the least that
outlives its receiver, two lines the least of which the second is refused; two
faults let a statement fail in a process that then dies. Of the four documents
one changes a definition and lists a key twice, one changes the keywords and
holds a source that cannot start, and one turns watching off; two saves are the
least that overlap, and two readers the most that live at once. For `Accounts`
two requests are the least that interleave, one token is reused by account after
account, three accounts let one be deleted and another created while an
administrator remains, and one revocation is enough for a login to race it. For
`LoginLimiter` four keys contend for three places: the map fills, a failure can
find one place for two keys, and cleaning up makes room; two attempts overrun
the limit together, and in a window of two units failures age apart. In
`Dashboard` three addresses do not fit in one batch, so that an address waits
for those that occur more often; rows with two times are inserted before, after
and among those shown, on up to three pages of which some are passed over, and
two filters share rows. The resolver and the list leave each other's variables
alone, so a behaviour of `MCSpec` has steps of one of them only. Deadlock is not
checked where the environment may run out of moves: the writer has reached its
bound, or the server is down.

**Fairness.** `DirWatcher`: the goroutine of a running watcher is scheduled and
its ticker ticks (`WF` of `Watch`); a context cancelled between two files does
not happen for ever just before the walk reaches a file (`SF` of `Stat`).
`FileTail`: the goroutine is scheduled. `ArchiveImport`: a source's goroutine is
scheduled (`WF` of `Run`), and a `select` that finds its context done again and
again takes that branch in the end (`SF` of `Exit`; Go chooses among ready cases
at random). `SyslogReceiver`: loops, helpers and the manager are scheduled and
statements come back; nobody has to send a line or to read it. `ConfigReload`:
goroutines are scheduled, a waiter of a `sync.Mutex` is served in the end (the
runtime's starvation mode), and a cancelled reader exits, which `CancelledExits`
and `ReceiverStops` show of theirs. `LoginLimiter`: time passes; nobody has to
log in, and a password check may never end. `Dashboard`: the timer fires; a
lookup or a write that is tried again and again succeeds in the end (`SF`). The
last one is more than the code can promise: an address whose lookup alone never
succeeds blocks those that occur less often, which is listed as a hazard.
Nothing is assumed of the writer, logrotate, clients, administrators or
failures.

## Proofs

TLAPS proves, for all values of the constants that satisfy the `ASSUME`s:

- `DirWatcher`: `TypeCorrect` and, if lines are written whole, heads are
  distinct and no file is emptied between `Stat` and `readFingerprint`
  (`WellBehaved`), `CheckpointSafe`: `[]NoLineSkipped` for any number of
  watchers sharing rows. With one watcher (`OneWatcher`) also
  `OffsetsNeverBack`: `OffsetAdvances`, at any depth of rotation; if moreover
  the pattern matches the live log only (`OneLog`), `CopiesHaveACause`:
  `[]DuplicatesHaveACause`, with oversized lines and heads of any length; and if
  besides the first write fixes the head (`LiveLog`), `Ships`:
  `ShipsAtLeastOnce`, the refinement.
- `FileTail`: `TailTypes`, `TailOnce`.
- `ArchiveImport`: `ImportTypes`, `ImportLate`: `[]OneLateArchive`,
  `ImportSafe`: `[]SkippedIsImported`, for any reuse of inodes; with one
  directory source (`OneDirSource`), and any number of file sources and
  commands, `ImportCauses`: `[]RepeatsHaveACause`.
- `SyslogReceiver`: `SyslogTypes`, `OneLateRow`, `HitsAccounted`, and
  `SyslogConservesLines`: `[]LinesAccounted`, which only the proof module
  defines.
- `SourceManager`: `ManagerTypes`, `ManagerOneReader`, `ManagerReconciles`,
  `ManagerNoDeadEnd`: `[]NoDeadEnd`, which only the proof module defines.
- `ConfigReload`: `ServerUsesManager` and through it `ServerTypes`,
  `ServerOneReader`, `ServerReconciles`, `ServerNoDeadEnd`; `ServerStoresFirst`:
  `[]StoredFirst`; `ServerSerialSaves`.
- `Accounts`: `AccountsTypes`, `AccountsSessions`, `AccountsRevocation`,
  `AccountsSerialAdmin`.
- `LoginLimiter`: `LimiterTypes`, `LimiterBounded`: `[]KeysBounded`,
  `LimiterOverrun`: `[]FailuresBounded`, `LimiterCounts`: `[]NothingForgotten`.
- `Dashboard`: `DashboardTypes`, `DashboardLooksUpOnce`: `[]LookedUpOnce`,
  `DashboardSwitchesOff`: `[]OffEndsWithBatch`, `DashboardMissesNone`:
  `[]MissedArePassedOver`.

So every invariant that a passing run checks is proved.

**The argument of `CheckpointSafe`.** `NoLineSkipped` speaks of the offset the
*next* scan would resume at, and is not inductive: a watcher in the middle of a
file holds a position that will become an offset. `CheckpointInv` adds that each
inode is linked at one path (`OneHolder`), that a row covers only lines that are
in the table as long as its fingerprint is that of a generation (`RowInv`), and
that a watcher's position is covered by the table plus its pending batch for the
generation its fingerprint names or the file it has open holds (`CursorInv`). An
`Upsert` turns the third into the second; an `Insert` only adds copies; a
rotation changes which row is compared with which content, which the fingerprint
tells apart.

**The arguments of `OffsetsNeverBack` and `Ships`.** `PlaceInv` adds to
`CheckpointInv` what only a single watcher guarantees: a row's offset fits the
content its head names as long as that content is at the path (`RowFits`), and
the position of the handler fits its file and is not behind the row it will
overwrite (`CursorFits`). An `Upsert` then writes the offset the row has or a
larger one, or a row of another head. For the refinement each step is a step of
`Ingestion` or a stutter: `Insert` is `Ship`, and what it inserts lies above the
resume offset because the handler started there and nobody else moves the row;
`Upsert` is `Checkpoint`, over lines that `CheckpointInv` has in the table; a
step of the writer or of logrotate is `Change`, where an offset that stays in
force must stay the same offset, which distinct heads give. Every assumption is
needed: TLC finds a counterexample without it.

**The argument of `CopiesHaveACause`.** Causes are failed calls, crashes, the
files replaced while the handler was at them and, for the lines of one
generation, the readings counted by `again` (`Paid`). For each line the copies
in the table and one more, if the line is in the handler's hands and the row
does not cover it, are at most one more than the causes; a line that may be read
both by this handler and by a later scan has a cause to spare (`CauseInv`).
`GenInv` says that of a generation to come nothing is in the table. An oversized
line that ends a scan after batches leaves lines to come that are in the table
already, and a head that has grown puts lines in hand that the row covered: both
are paid for in that step.

**The argument of `TailOnce`.** A line may still come from the open file while
the scanner has not reached the end and stands before the line, or after a
truncation not noticed yet (`MayCome`); while it may, its copies are fewer than
the openings of its content. An opening makes room for one copy; nothing but an
opening or a truncation lets a line come that could not.

**The argument of `ImportSafe`.** A row that was written for the archive now at
its path was written when the archive was complete and in the table (`RowsInv`);
one that was written for another has another inode, or is the case of
`Mistaken`. That the source read the same archive that it had looked at follows
from names only ever growing (`AtMostAt`): an archive that has left a name never
returns to it, so one that is still there was there all the while (`JobInv`).
That it was complete is because reading one that is incomplete, or has an
oversized line, fails.

**The argument of `ImportCauses`.** The debt of a line is its copies in the
table and the readers that have still to insert it. `CauseInv` says that there
is room for it: the debt is at most one more than the excuses of the archive,
and stays so by as much as the scans will add. That is at most two, counted by
`Coming`: the source may be about to open the archive, and a later visit will
find the row it leaves (`Left`) to be that of another content. Reading a batch
turns a pending copy into one in the table; opening turns a coming copy into a
pending one; every other step of logrotate or a reader that makes one more come
is an excuse, and a rename onto a name at which the source is busy makes two
come. An archive that is not made yet has room for its first import.

**The argument of `ImportLate`.** A directory source whose context is cancelled
and that stands before `os.Open` has opened nothing since (`LateInv`); it comes
there again only through `walkFn`, which looks at the context.

**The arguments for `SyslogReceiver`.** A connection with a line to insert has
inserted no late row: it took the line before the cancellation, for it looks at
the context before it takes one (`LateInv`). Rows are as many as hits, handlers
between the two statements, and at most one for each fault and each handler that
a crash cut off (`HitsInv`); counting handlers uses the library's theorems on
cardinality. That rows, hits and late rows are bounded by the lines sent needs
an account of every line (`LinesInv`): those that wait, counted as a set of
pairs of a handler and a place in its queue, those about to be inserted and the
rows are together no more than were sent; hits, handlers between the statements
and cut-off lines are no more than the rows. `SyslogConservesLines` states it.

**The argument of `ManagerReconciles`.** `ReconcileInv`: a caller past its
`Lock` holds the mutex; of the keys it has not yet to stop, all run as its
argument asks (`Progress`); of the keys it has looked at for starting, all run
or cannot start. When nothing is left to do this is `Reconciled`. Between calls
the keywords the sources were started with are `m.keywords`, which is what makes
the test for a change of keywords right. That several sources may have a key
needs the least index of a set of naturals, from the library's theorems on
well-founded relations.

**The argument of `ManagerNoDeadEnd`.** `stopLocked` waits for a reader with the
mutex held, so a wait that cannot end would hold up every save and the shutdown.
`NoDeadEnd` is what `SaveReturns` needs besides fairness: the holder of the
mutex is in `Apply` or `Stop`, and the reader it waits for is gone or is that
key's own, cancelled. `WaitInv` adds that no two entries of `m.running` have one
reader, so that `cancel` reaches the right one, and that what is left to stop
runs and is not what is waited for.

**The argument of `ServerStoresFirst`.** Only the holder of the store's lock
writes the row or `current`, and while nobody holds it the two are equal; a save
past its `Persist` has a document that was stored, and so has what it hands to
the manager (`StoredInv`). A failed persist lets go of the lock with nothing
changed, and the end of the process leaves a row that the next one loads.

**The argument of `ServerSerialSaves`.** `SerialInv`: as long as no two saves
have overlapped, the one in progress saves the current document, the geo switch
is current once its subscriber ran, and the manager has applied the document or
is applying it.

**The arguments for `Accounts`.** As ids are never given twice, the id of an
account is the number of its creation; so what a session or an actor notes of
the two is the same (`TypeInv`), and `SessionsKeepTheirAccount` follows.
`RevocationInv` adds that no number is ahead of the clock, neither one reported
nor the one a request carries, so that a session stored later is younger than
any change reported, and that a request carries one only up to its last
statements: a success is reported no earlier than the sessions are deleted.
`SerialInv` says that as long as no requests overlap, the one past `RequireAuth`
is alone there, its actor is still the administrator it was let in as (`Safe`),
and an `UPDATE` that takes an administrator away comes when there is another;
what `CountAdmins` counts becomes that fact by the library's theorems on
cardinality.

**The arguments for `LoginLimiter`.** Pruning never adds a key, and `Recorded`
adds one only below the bound; the second key of a failure looks at the map the
first has left (`LimiterBounded`). The failures of a key are in time order
(`Kept`), which `Tick` and a new failure preserve; so those still in the window
are a suffix, and pruning now or after the next tick leaves the same ones
(`LiveOlder`): that is `NothingForgotten`. What counts for a key and the
attempts that are past `tooMany` with it are together at most `Most`, that is
`Max - 1` and the number of attempts (`CountInv`): an attempt passes only while
fewer than `Max` count, and a recorded failure is an attempt that is past no
longer.

**The arguments for `Dashboard`.** What is left of the resolver's batch are
different addresses without a row (`BatchUnresolved`), for nobody else writes
`geo_cache`; an answer given is in the table or at hand (`AnswersKept`), so an
address that is looked up has none; and the requests sent since the switch went
off and the rest of the batch fit in a batch (`SentInBatch`). For the pager
(`PagerInv`), of the rows not shown at most `PageSize * passed` are among the
first `front * PageSize` of the order. A row inserted only pushes others back,
so it takes none of them in there. `ReadRows` of page `front + 1` shows all that
lie between the old and the new front; of a later page, it leaves `PageSize`
places for each page between, and each place holds one row. If the last page is
shown whole and the count is that of the rows there are, no row lies beyond the
front.

**Only model-checked.** The liveness properties (`EveryLineArrives`,
`FirstReadArrives`, `CancelledExits`, `CompleteArchivesArrive`, `ReceiverStops`,
`PortsReleased`, `SaveReturns`, `ThrottleEnds`, `EveryAddressResolved`) rest on
fairness, which is out of the prover's reach. That `LineLen`, `UniqueHeads` and
the other hypotheses of the theorems are needed is shown by TLC's
counterexamples without them, which no theorem states.

## Findings

Four runs show the code doing other than the documentation or a comment says;
`PROJECT.json` quotes the lines.

- A rename into the pattern repeats lines (`dir_rename`).
- A file source reads its file to the end once and then nothing until it is
  rotated or truncated (`tail_live`).
- Of two overlapping saves the older may be left running (`reload_order`).
- Two administrators who act at the same time can leave none
  (`accounts_last_admin`), which `SerialAdminRemains` shows to need just that
  overlap.

Other behaviour that a reader of the documentation may not expect, each visible
in a passing run as an exception its property makes:

- A process that ends between a committed batch and the row's upsert reads the
  lines again, against `docs/DEPLOYMENT.md:180-181` (`dir`: crashes are causes
  of `DuplicatesHaveACause`).
- A line over 1 MiB stalls its file, and the full batches before it are inserted
  again by each scan, every 5 s (`dir.go:302` against `296`); a file that is
  read while it is shorter than 64 bytes is read again from its start once it
  has grown (both are counted by `again`; `dir` has the first).
- An archive on the inode of an earlier one at its name, and no larger, is taken
  for it and never imported, which `storage.go:77-80` says the stored
  fingerprint is there to prevent (`archives`: `Mistaken`).
- An archive that a scan meets before it is complete is imported again by each
  scan until it is, and so is one that is renamed, once, against
  `docs/DEVELOPMENT.md:160-162`, `docs/CONFIGURATION.md:89-90` and
  `docs/TODO.md:30`. A file source imports its siblings at each start, against
  `docs/DEPLOYMENT.md:172-173` and `180-181` (`archives`: all are excuses).
- Of an archive with a line over 1 MiB every scan imports the lines before it
  again, and those after it are never read (`archives`: an excuse, and not
  `Importable`).
- After a cancellation a TCP connection writes one more row with the replaced
  keywords (`syslog`).
- A page of the request list whose load failed is skipped by the next click on
  Next, and one that was cut short looks complete (`live_data`: both are passed
  over); a row inserted between the count and the rows of the last page pushes
  another one off it (`live_data`: the page is not `exact`).

## Not modelled

- The log-line parsers and the user agent: regular expressions over text. A line
  is accepted, or rejected if cut.
- The configuration file's syntax, `Validate`, `PathAllowed` and the splitting
  of filter values: pure text operations, of which what matters here is a choice
  among documents, paths and filters.
- The read-only API besides the request list: handlers that read once and change
  nothing.
- The web page besides the pager.
- The HTTP and SQLite layers themselves. Each SQL statement is atomic; SQLite's
  locking errors are failed calls. `InsertBatch` is a transaction of the
  watchers' models, and so one step.

## Plan

What would add most next:

1. `PathAllowed` and `splitFilterValues` against reference definitions.

`Ingestion` is for one watcher, and not worth weakening for several on a path:
there a batch may hold lines already covered and a place may move back, and what
is left is what `CheckpointSafe` says.
