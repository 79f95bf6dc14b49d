# A TLA+ model of Vandelay

Vandelay copies accounts between mail and groupware servers by way of an
*archive*, one SQLite file. An **importer** (JMAP, IMAP, CalDAV/CardDAV/WebDAV,
Exchange EWS and Graph, ManageSieve, Maildir, Google Takeout) brings the archive
in line with one source; the **exporter** brings a JMAP account in line with the
archive. Each command is run once and exits; there is no daemon and no journal.
What the program promises is about running it *again*: "Re-running an
interrupted import or export picks up where it left off without bookkeeping
flags" (`src/README.md:65`). Its correctness therefore lies in what a run may
leave behind, and in what the next run makes of it while the server goes on
changing. That is what these modules are about.

Paths below are relative to the repository's `src/src/`.

## 1. Inventory

### Components, their state and their operations

| component | source | state | operations |
|---|---|---|---|
| JMAP import of a type | `sync/import_jmap.rs`, `diff.rs`, `db/ids.rs`, `db/sync_state_jmap.rs` | the rows of the type, `sync_id_jmap`, the sync state (*cursor*) | enumerate, capture the state, fetch new, insert by batches, delete vanished, `/changes`, refresh, move the cursor |
| tree order, row mapping | `import_jmap/tree.rs`, `mapping.rs` | none beyond a call | topological order with orphans and cycles; conversions |
| JMAP calls | `jmap/request.rs` | none beyond a call | paging of `/query`, chunked `/get`, `/set` in parts, retries of method errors |
| JMAP session | `jmap/session.rs`, `jmap/account.rs` | none beyond a call | well-known URL and its neighbours, the account by name |
| HTTP client | `jmap/http.rs`, `inflight.rs`, `retry.rs` | two semaphores, a shared cooldown, failure counters | `execute`: cooldown, two permits, attempt, retry |
| worker pool | `import_jmap/pool.rs` | a job channel, a bounded result channel, threads | submit, results, finish, drop |
| blob uploads | `sync/export/blobpool.rs` | budget in flight, id cache, failures | `upload`, `invalidate`, drop |
| email export | `sync/export/email.rs` | chunk size, pending emails, counters | match by key, `Email/import`, halving, second uploads |
| other exporters, pruning | `sync/export.rs`, `export/*`, `sync/prune.rs` | map of local to target ids, plans | match, create by depth, merge, destroy |
| IMAP import | `sync/import_imap/*`, `imap/*`, `db/imap_*.rs` | mailboxes, emails, `sync_id_imap`, `imap_folder_state`; a control connection and a pool of fetching ones | sign in; folders; per folder: select, wipe, diff, fetch, insert, flags, store state |
| DAV | `sync/import_dav/*`, `dav/*`, `db/dav_ids.rs` | files, events, cards, ctags and etags, a shared cooldown | discover, walk, multiget pool with fallback, download, delete vanished |
| EWS, Graph | `sync/import_exchange_*`, `exchange*` | id tables, sync states, a token with the thread that renews it, a shared cooldown and schema version | sign in, discover, folders, items, occurrences, files, conversions |
| ManageSieve, Maildir, Takeout | `sync/import_{managesieve,maildir,takeout}`, `managesieve/*` | id tables | list, diff, read, write |
| archive | `db/{init,blobs,sources,roles,defaults}.rs`, `schema.sql` | the tables; one exclusive connection | sources recorded, replaced and refused; blobs interned by hash, garbage collection |
| command line, logging, inspection | `cli.rs`, `main.rs`, `logging.rs`, `inspect/*` | none | parsing and printing |

### How they interact

* An importer's main thread owns the archive's only connection. Worker threads
  do network I/O only; they are given jobs and give results over channels, so
  database steps never interleave with one another, but they do interleave with
  the server's changes and, through the order of the results, with the workers.
* All threads of a JMAP run share one `HttpClient`: its permits, its cooldown
  and its counters are the only state they write together.
* `Error::aborts_run` (`error.rs:46`) decides whether an error ends the run or
  only the type or folder in hand; an open transaction is rolled back, committed
  ones stay.
* The importer of one type relies on ids of the types before it (mailboxes
  before emails), and the exporter's map of ids works the same way.

### What is hard, and the properties that make it right

* *Interleaving with the server.* Between a listing and the fetch of what it
  listed anything can change. A cursor, an etag, a change key or a UIDVALIDITY
  must never claim more than the archive holds: `CursorCovers`,
  `CleanRunMirrors`, `Filed`.
* *Partial failure and reruns.* A chunk, a row or a listing fails and the rest
  goes on, or the process ends. Nothing the server has may be forgotten
  (`ImplementsMirror`, `KeptIfListed`, `KeptWhileThere`), nothing imported twice
  (both `NoDuplicates`), and reruns must converge (`ReachedConverge`,
  `IndexConverges`, `TreeConverges`, `Converges`, `KeysArrive`, `Settles`).
* *Order under constraints.* Trees and flags are written one row or one request
  at a time under `UNIQUE` and `RESTRICT`: `RowsAreTrees`, `Converges`,
  `CleanRunCopies`.
* *Several accounts.* An archive is filled from more than one, with blobs and
  keys they share: `SourcesSound`. A target has other clients: `PruneSparesArchive`.
* *Blocking.* Threads wait on two nested semaphores, on bounded channels, on a
  budget, on cooldowns and for a thread to end: `EverythingReturns`,
  `PoolsServe`; wakeups must not be lost (`NoLostWakeup`) nor permits
  (`CapsRespected`).
* *Retry inside retry, split inside split.* Bounds and bookkeeping:
  `RequestsBounded`, `RunEnds`, `CountsTrue`, `Accounted`, `SettledOnReturn`.
* *Connections.* What is read must be the answer to what was asked, over
  protocols with tags and without, across drops, sign-ins and upgrades, and
  secrets must not travel uncovered or to another host: `AnsweredAsMeant`,
  `CredentialsHold`.
* *Conversions with consequences.* A flag left up in a streaming reader, a date
  in the wrong zone, a column forgotten in one of four lists: `ReadAsMeant`.

`PROJECT.json` lists the hazards at their lines with the properties about them.

## 2. What is modelled

### `ArchiveMirror` and `JmapImport`

`ArchiveMirror` is the promise: server objects come, change and go; the archive
absorbs, for any set of objects at once, versions no older than those it has,
and forgets an object only when the server destroyed it. `JmapImport` is
`reconcile_type`. A version of an object *is* the server state that made it, so
"the cursor covers the change" is `version <= cursor`.

| action | code |
|---|---|
| `Enumerate` | `enumerate`, `diff` (one `/get` of everything for types without `/query`) |
| `ReadState` | the state captured before the first fetch, `run_state` |
| `FetchNew`, `FetchNewFails` | one answer of `fetch_objects`; chunks are any sets, so every chunk size is covered |
| `InsertBatch(b, bad)` | one transaction of inserts, with rows that fail |
| `DeleteVanished` | `delete_vanished` |
| `ChangesAnswered`, `ChangesRefused`, `RefreshAll` | the three ways `reconcile_updates` gets the set to refresh and the state to move to |
| `FetchUpdate(Fails)`, `UpdateBatch` | `fetch_and_update` |
| `AdvanceState` | `advance_state` |
| `Abandon` | an error that ends the type, or the end of the process |
| `Create`, `Change`, `Destroy` | the server, between any two of these |

`kind`, fixed from the start, is the way the type works: with `/query`, by one `/get`,
and without `/changes`. `exposed` is a history variable: the objects that
changed while the archive held them and the cursor did not reach their creation.
`CursorCovers` and `ReachedConverge` are about the others; the run `import_lost`
shows that the exposed ones are really lost. `CursorlessConverge` shows that the
cursor is to blame: without one, all objects converge.
Rows have neither parents nor names nor blobs here, and `/query` is one
consistent answer: `JmapTree`, `ObjectRows` and `ArchiveSources` have the rest.

### `WorkerPool`, `UploadPool` and `FetchPool`

`WorkerPool` is `Pool<J, R>`: an unbounded job channel, a result channel bounded by
the number of workers, and a panic that kills a worker together with its job. The
other two are its owners and EXTEND it.

`UploadPool` is `BlobPool::upload`, whose blobs are the jobs: look at the next blob,
read it, wait for results until the budget admits it, submit, drain. `Accounted`
says that a blob is in one place, and that the budget counts what really is in
flight; `SettledOnReturn` that a call leaves nothing for the next one to mistake
for its own. A call may wait for ever in exactly one case, which `Returns`, a
conjunct of `NothingHangs`, excuses and names: one worker died with a blob and
another lives. `Dropped`, its other conjunct, shows that dropping the pool does
not hang, even then.

`FetchPool` is an importer: it submits all its jobs at once and then calls
`finish()` (`fetch_objects` of JMAP), or receives as many results as it submitted
jobs and drops the pool (`download_blobs`, the files of DAV), or fails to write one
of them and drops the pool with results and jobs still in it. `PoolGoes` says that
the pool's threads end in all these cases, which takes `drop` to empty the result
channel before it joins them; the loop that counts may wait for ever in the case
above. `AllFetched` says that counting gives the importer one result of each job.
`MCPools` gives each owner a pool; `PoolsServe` is the conjunction of `NothingHangs`,
`PoolGoes` and `AllFetched`.

### `HttpGate`

`execute()` with its cooldown, the requests gate, for uploads the uploads gate
inside it, the attempt, the permits' return in the opposite order, and the
retry loop for method errors around it. A semaphore is its count and the threads
blocked on the condition variable; `Release` wakes one of them, spurious wakeups
included. Time passes in ticks and a delay is any number of them.

### `EmailExport`

Run after run of the exporter's emails. Requests are cut in halves until they
fit, results are collected in order, emails whose blob is gone are uploaded and
sent again in batches half as large. `Dedups` and `Forgetful` are the target's
freedoms in the JMAP standard: to refuse a message it has, and to drop blobs
nothing refers to. `UploadPool` is one step, `Upload`, here: `SettledOnReturn`
is what justifies it. `KeysArrive` is about keys, not emails: of two emails with
one Message-ID an interruption may leave the second behind for ever.

### `ImapImport`

`reconcile_folder` over a list of folders with the pool of fetching connections.
All folders share one job and one event channel, and an event names neither the
run's folder nor its transaction: `Filed` is what the code relies on. The history
variables name what the code does not handle: `strays` (the folders that came in a
run behind one that was left with events on their way, and may get these), `early`
(a folder's rows older than its first stored state), and `drops` (a FETCH that was
sent again). Messages flagged `\Deleted` and keywords are
left out; the list of folders is in `PathFolders`, a connection's lines in
`ImapSession`.

### `WebDavTree`

`reconcile_filenodes`: the breadth first walk, a transaction per directory,
downloads in any order committed by `FILE_COMMIT_BATCH`, and `delete_vanished`
with its order by the slashes of the hrefs and the `RESTRICT` it runs into. A
node is an href, so a file and a directory of one name are two nodes, of which
the server has one at a time. The row of a file is named by its href, that of a
directory by its DAV:displayname (`NameOf`), which siblings may share, which may be
the name of a file, and which another client may change (`Retitle`): each listing
writes it anew (`Written`), one directory after the other in the answer's order,
and `Clashes`, which is `UNIQUE (parent_id, name)`, refuses some of them and ends
the walk of their collection (`WalkStops`). Two directories that exchange their
names stand in each other's way until a failed run has swept one of the rows; where
two members of a collection have one name for good, no run gets through, and
`TreeConverges` leaves what is below that collection out (`Ambiguous`). Hrefs of
collections end with a slash; the panic of a downloading worker is left out.

### `Reruns` and the importers of items and trees

`Reruns` is what the other importers share: a server whose folders hold items,
rows in an archive, a run (`run` holds the locals of the importer's functions)
that is repeated, and the promise `MirroredBut`. Each importer is a module of its
own that EXTENDS it; `part` says which one a behaviour is about, and `MCReruns`
puts them side by side. In each, the server may change between any two steps, a
request or a row may fail, and the run may be killed.

| module | code | what it is about |
|---|---|---|
| `ExchangeItems` | `import_exchange_ews/{items,messages,calendar,contacts}.rs`, `import_exchange_graph/{messages,contacts,calendar}.rs` | EWS: FindItem by offset, change keys, GetItem in batches, parts fetched apart, one transaction for each item; a message without content, which counts as skipped (`NoContent`). Graph: comparison by id only, one GET for each through the pool, deletions at the very end |
| `DavItems` | `import_dav/items.rs` | etags, multiget in chunks through the pool, single GETs for what it lacks |
| `SieveItems` | `import_managesieve/{coordinator,reconcile}.rs` | scripts, and the one that is active under a partial unique index |
| `FileItems` | `import_maildir/{messages,coordinator}.rs`, `import_takeout/*` | Maildir: `cur` and `new` read while mail programs rename. Takeout: files in order, objects that occur twice, no deletion; paths that cannot be read, which no run reports (`FilesOverlooked`) |
| `ExchangeFolders` | both `folders.rs` of Exchange | folders with ids, moved and renamed; three classes in three tables |
| `PathFolders` | `import_imap/folders.rs`, `import_maildir/tree.rs` and their coordinators | folders that are paths, restored parents, vanished folders |
| `JmapTree` | `import_jmap/tree.rs`, `jmap/request.rs` | what `JmapImport` leaves out: `/query` in pages while the server changes, `/get` in chunks, topological order, parents, names and roles |
| `GraphDrive` | `import_exchange_graph/files.rs` | OneDrive's walk, downloads, deletions by depth |
| `ArchiveSources` | the `run` of every importer, `db/sources.rs`, `db/blobs.rs` | two accounts of a kind and a neighbour in one archive: source changes rejected, allowed or answered by replacement, dry runs, keys and blobs they share, garbage collection |

### `ExportTypes`

The export of mailboxes, files, address books with cards, and Sieve scripts: the
listing of the target, the matching, creation parents first, merges of what was
created meanwhile, `onSuccessSetIsDefault` and its like, the plans and their
execution with `--prune`. Another client works on the target between any two
requests; an answer may be lost, an object's creation or destruction refused, a
request fail, the run end.
A request is the set of rows it is made for. The set `Creations` of what the
target makes of it, and likewise `Matchings` and `Destroyed`, has exactly one
member, which is said by what it must satisfy row by row, in the order in which
the code or the target takes the rows; a plan is kept for each type until the
pruning comes back to it.

### `GraphSeries`

The occurrences of a recurring event that Graph does not report: the window, the
dates a rule should have and the exclusions made of the difference.

### What talks to the servers (`MCClients`)

| module | code | what it is about |
|---|---|---|
| `HttpGate` | `jmap/http.rs`, `inflight.rs` | above |
| `RemoteCalls` | `execute` of `dav/client.rs`, `exchange_ews/client.rs`, `exchange_graph/client.rs` | redirects with and without credentials, throttling, the shared cooldown, EWS schema versions shared by threads |
| `TokenRefresh` | both `coordinator.rs` of Exchange, `exchange_graph/oauth.rs` | the device code, the setup during which the token grows older, the thread that renews it, if there is one, and what it takes for the token's end; the end of the import |
| `ImapSession` | `import_imap/pool.rs`, `imap/client.rs` | a worker and its connection line by line: tags, drops, BYE, unparsable lines, panics |
| `ImapLogin` | `imap/client.rs`, `imap/transport.rs`, `import_imap/coordinator.rs` | the control connection: STARTTLS, mechanisms, COMPRESS, ENABLE, and how it is made again |
| `SieveSession` | `managesieve/*`, `import_managesieve/coordinator.rs` | the same for a protocol without tags |
| `XmlReaders` | `exchange_ews/parse.rs`, `dav/parse.rs` | streaming readers whose flags stand for the place in the document |
| `EventRules` | `exchange_{ews,graph}/{recurrence,calendar_map}.rs`, `exchange/*` | the occurrences an Exchange event has against those of what is archived of it |
| `ContactCards` | `exchange_{ews,graph}/contact_map.rs` | what an Exchange contact says against what its card says: keys made by counting, titles and readings that point at other members |
| `Discovery` | `exchange_ews/autodiscover.rs`, `dav/discover.rs`, `jmap/{session,account}.rs` | the search for a service from a name, with redirects |
| `ObjectRows` | `import_jmap/mapping.rs`, `jmap/wire/*`, `jmap/blob.rs`, `sync/export/*` | an object's properties from account to row to account, with its blobs, homes and parent |
| `JmapCalls` | `jmap/request.rs`, `export/keyed.rs` | one call about many objects in chunks and halves, and what its caller makes of the outcomes |

These modules share no state; `part` again says which one a behaviour is about.
The properties of `MCClients` are conjunctions of one part for each module, named
there: `AnsweredAsMeant` of `AnswersMatch` (IMAP), `ScriptsMatch` (ManageSieve),
`LinesAgree` (sign-in) and `FoundAsMeant` (discovery); `ReadAsMeant` of
`ReadFromPlace` (XML), `MeetingsKept` (events), `ContactsKept` (contacts),
`ObjectsKept` (rows) and `CallsTold` (calls); `RequestsBounded` of `SendsBounded`,
`RoundsBounded`, `SearchBounded` and `RequestsFew`; `CredentialsHold` of `CredentialsKept`, `NotExposed`, `TokenLasts`
and `SecretsCovered`.

## 3. Runs

Every run checks deadlock but `pools` and `clients`, where everybody may be done.

| run | question | bounds |
|---|---|---|
| `import_safe` | is the cursor sound, does the mirror only move forward, do reruns converge | 2 ids, 3 server changes after the first state, 3 faults |
| `import_lost` | *violated*: convergence as the README has it | 2 changes, no fault |
| `pools` | the budget, settlement, return; does an importer get every result; does a pool go away | 4 blobs of sizes 1, 1, 2, 5, budget of 3 and 3, 2 calls; up to 4 jobs of an importer; 2 workers that may both panic |
| `email_safe` | counters, duplicates, outcomes, arrival | 5 emails, 4 in a request of which 3 fit, 2 faults, a forgetful and a deduplicating target |
| `imap_safe` | filing, duplicates, loss, convergence | 2 folders, 2 UIDs, 2 workers, 1 change, 1 fault |
| `imap_twice` | *violated*: each message once | 1 folder, no change, 1 fault |
| `dav_safe` | deletions, clean runs, convergence | 5 nodes, 2 of them directories of 2 displaynames, 3 changes, 2 faults |
| `dav_lost` | *violated*: a failure loses nothing | no change, 1 fault |
| `items` | the importers of items and trees, and accounts sharing an archive (`MCReruns`) | 3 items in 2 folders, 2 changes, 1 fault; pages, batches and chunks of 1 or 2 |
| `export` | pruning spares the archive, clean runs copy, reruns settle | archives of 2 or 3 rows, targets of up to 2 objects, 1 upset |
| `series` | *violated*: only what is absent is excluded | one weekly series of four, no change |
| `clients` | what talks to the servers, and what is made of its answers (`MCClients`) | below |

Why these are enough. *Import:* a hazard of the cursor is about one object and
the order of its creation, changes and reads with the cursor's two states (before
and after); a second object makes batches and chunks proper subsets, and three
changes let the first object be created, changed between two runs and destroyed.
*Upload:* each of the budget's limits is reached in turn, the oversized blob only
alone, and with two workers both "some died" and "all died" happen.
*Email:* five emails in a chunk of four are cut twice, need two chunks, and their
re-upload goes through sizes 4, 2 and 1; two share blob and key, two the key only.
*IMAP:* two folders are needed for events of one to meet the other, two workers
for chunks out of order. *Fetching:* with twice as many jobs as workers the result
channel is full, both workers are blocked on it, and no job is missing behind them.
*WebDAV:* the five nodes are a directory with two directories, a file that has the
name of one of them and is there in its place, and a file in that one; either of
the two can have the displayname of the other, or both one. Three changes suffice
to put one in the other's place and back, and two to exchange the names.

*Items:* two of the three items share a UID. At first the items are 1..k for some
k, in folders in their order; another start would only rename them. Two changes
move an item and move it back, or put one in the place of another; three folders
make a parent, a child and a rival, of which the first two are there at first and
at most one is a calendar. *Sources:* two accounts and a neighbour; the 21
combinations of an importer and a type it has; a server changes once, and before
any fault; dry and unselected runs are tried where a changed source is rejected.
*Export:* rows and objects are chosen so that names differ by case only, parents
merge, and roles collide.

*Clients:* `HttpGate` with 3 threads, caps 2 and 1, 1 retry, delays up to 1: two
uploaders fill the requests gate while one waits for the uploads gate, which is
the nesting that could deadlock, and the third thread competes from outside.
`RemoteCalls` with 2 callers of 2 calls, 1 retry, 3 schema versions, and 2
redirects, where the code allows 5. `TokenRefresh` counts 20 seconds a tick after
the sign-in: lives of 2, 6 and 12, a Graph margin and a pause of 3, a setup of up to
3, requests of at most 1. EWS's margin is 10 instead of 15, and what is assumed of a
token that does not say is 7 instead of 150: more than the margin and less than a
life is what tells these apart.
`ImapSession` with 4 jobs, the fewest that can file a message wrongly after one
unparsable response; 2 folders, 1 retry. `SieveSession` with 2 scripts, 1 retry,
1 garbled line. `XmlReaders` takes ten kinds of documents and makes them element
by element in every order and with every repetition, until a container turns out
empty. `EventRules` has years of two months of 31 and 28 days, for 2 years, four
ticks to a day, and every combination of pattern, range, source and two zones,
then of zone, name of a zone, whole day and overrides. `ContactCards` takes lists of
up to 3 entries of which any may be blank, 3 addresses in two orders, the subsets of
a name's parts with and without readings, and companies with and without titles;
two entries suffice to tell a key that is counted from one that is not. `Discovery` has 2 domains
with 2 candidates each, 2 hosts and one request that fails. `ObjectRows` takes two
objects, one of which deviates in one way from a plain one and changes in another.
`JmapCalls` takes 4 items of sizes 1, 2 and 5 against limits of 3 objects and
size 4, on a server that takes 1 to 4, with 2 runs and 2 faults. `ImapLogin` goes
through 1134 kinds of servers and users, with 2 folders, 1 retry and 2 faults.

**Fairness.** The program's own steps only: the command is run again
(`Reconcile`, `Start`, `Enumerate` are steps), the operating system
schedules its threads, and each request is answered or times out, as the clients'
timeouts guarantee. Faults, panics, spurious wakeups and the server's changes are
never fair, and are bounded by `MaxFaults`, `MaxPanics`, `MaxState`,
`MaxChanges` and their like, so that "once the faults are over" means something.
Weak fairness of a blocked thread's step is enough in `HttpGate`: a thread that is
overtaken at a gate is overtaken finitely often, because calls are bounded. In
`MCReruns` and `MCExportTypes` it is stated as `[]<><<Progress>>_vars`: some step
of the run can always be taken there, so that this is weak fairness of the run.
One assumption is weaker than the rest: the clients that ask for tokens have no
timeout of their own, so `TokenFairness` is where an endpoint that is silent for
ever, and Graph's join with it, is left out. It also bounds the setup, by
`LongestSetup`, any number in the proofs.

## 4. Proofs

`tlapm` proves the following for every value of the constants. The theorems of a
component are in the module named for it with `_proofs`, and each rests on an
inductive invariant, because no property below is preserved by a step on its own.
`Export_proofs` is about `ExportTypes` and `UploadPool` with its `WorkerPool`,
`ClientCalls_proofs` about the modules of `MCClients`, `Reruns_proofs` and
`Trees_proofs` about those of `MCReruns`.

| theorems | what they say | argument |
|---|---|---|
| `JmapImport_proofs!TypeCorrect`, `CursorSound` | `TypeOK`, `CursorCovers` | Nothing in `CursorCovers` says what a running import knows. `IInv` adds that versions are in order (`Histories`), what each phase knows of the sets (`Phased`), that a version read but not committed is current or listed by the next `/changes` (`GotCovered`), that fresh rows are current (`FreshCurrent`), and what the captured state covers before the first cursor (`FirstCovered`) and while refreshing (`TargetCovered`) |
| `JmapImport_proofs!MirrorImplemented` | `Spec => ArchiveMirror!Spec` | a batch is an `Absorb`, `DeleteVanished` a `Forget`, the server's actions are themselves, everything else stutters; `IInv` gives `arc <= got <= ver` |
| `Export_proofs!UploadTypeCorrect`, `BudgetCorrect`, `AccountCorrect`, `ReturnCorrect` | `UploadTypeOK`, `InFlightBounded`, `Accounted`, `SettledOnReturn` (`UploadPool`) | `UploadInv` ties `count` and `bytes` to what is in flight (`Counts`, `Weighs`: a budget of more than one blob was within the limit when it took the last). It needs that blobs to come are not in the pool (`ToComeYet`), that workers leave only after the channel is closed (`Staffed`), and that the pool is empty between calls (`Between`). Bytes are pairs of a blob and an offset, so that their number is a cardinality and no sum over a set is needed |
| `ClientCalls_proofs!TypeCorrect`, `CapsCorrect`, `WakeupsCorrect` | permits are conserved, no wakeup is lost (`HttpGate`) | a step moves one thread into or out of the holders of one gate; only uploaders are ever at the second gate (`Routed`) |
| `ClientCalls_proofs!SendsCorrect` | `SendsBounded` | what was sent is paid from the two budgets of the nested loops (`Paid`) |
| `ClientCalls_proofs!RoundsCorrect`, `CredentialsCorrect` | `RoundsBounded`, `CredentialsKept` (`RemoteCalls`) | the schema version is shared: what other threads raised since is what a call may lower once more (`Headroom`); credentials only go to the host they are for, and no more once a redirect has led away from it (`strayed`), though it lead back (`Trusted`) |
| `ClientCalls_proofs!TokenCorrect` | `TokenLasts` | an ended token in an import with a thread means that what the thread took its end to be too late (`late`), its failures with their pauses, and the request under way come to the margin or more. Wherever the thread is, what is left of the token, and these three, make up the margin (`Ahead`). It does not say that no token ends: section 5 says where one does |
| `ClientCalls_proofs!CredentialsHoldCorrect` | `CredentialsHold` of `MCClients` | besides the two above, that a password of ManageSieve (`ShellInv`) and a secret of IMAP (`LoginInv`) go over a channel that is sealed, or that the user let be in the clear: whenever a login is about to sign in, the capabilities it decides by are those of the channel it has, however the steps before failed or the connection was made again (`Apart`, `Settled`) |
| `ClientCalls_proofs!RequestsBoundedCorrect` | `RequestsBounded` of `MCClients` | besides `SendsBounded` and `RoundsBounded`, that a batch of n objects takes at most 2n requests and one for each lost answer: the parts to come are cut from the batch, in order and none empty (`Cuts`), so that a request is paid for by an item or by one part more (`PartsLeft`); and that the search of a service asks each place once (`EwsPaid`), thrice (`DavPaid`) or once for each stage (`JmapPaid`), whatever the servers answer |
| `ClientCalls_proofs!AnsweredAsMeantCorrect` | `AnsweredAsMeant` of `MCClients` | that a job of the IMAP worker reads its own answers: the lines in its connection carry tags in order, none above the last command's, and while nothing was garbled none of an earlier job is left; that without tags a ManageSieve connection is out of step only if it could not be replaced; that both ends of an IMAP connection have the same layers, that folders are selected in the form they were listed in, and that a folder passed over is paid for by a fault; and that a search looks at its places in their order, each once, so that what it finds first is what was asked for |
| `ImapImport_proofs!TypeCorrect`, `FiledAlways` | `TypeOK`, `Filed` | events do not name their folder. While a folder waits, everything in the channels is its own (`Own`), and when it stops, nothing is left in them (`Quiet`). That takes a count, `waiting` against jobs, busy workers and "done" events (`Awaited`), and an order, a "done" still to come behind every message (`Followed`); then rows are filed under a validity no later than their message's (`Current`, `RowsFiled`). All of it is about folders that came behind no abandoned one in the same run; those that did get wrong messages (`strays`) |
| `ImapImport_proofs!RowsUnique`, `KeepsWhatIsThere` | rows of one key are one row; `KeptWhileThere` | until its commit a transaction has what the archive has (`Drafted`), and keys are unique in both (`Unique`) |
| `ImapImport_proofs!NothingTwice` | `NoDuplicates` | a UID is to come in one job or FETCH only, of no more than a batch (`Alone`, `Sized`); the messages to come or on their way, beyond the UIDs among them that the transaction does not have yet, are paid for by FETCHes that were sent again (`Paid`). A commit finds nothing to come or on its way (`PoolInv`), so that the rows it orphans are paid for |
| `EmailExport_proofs!TypesHold`, `CountsAreTrue`, `NothingTwice` | `TypeOK`, `CountsTrue`, `NoDuplicates` | an email not settled yet is in one place (`Apart`), nothing is counted of it (`Told`), and it is on the target only by an answer that was lost (`Untaken`). Halving needs to know that the pieces to send are the rest of the chunk, cut in order (`Cut`), as outcomes are given to emails by position (`ResultsTrue`) |
| `WebDavTree_proofs!TypeCorrect`, `KeepsWhatIsListed` | `TypeOK` (with the tree and its unique names), `KeptIfListed` | `Accounted`: a node the server had all along is seen, below the queue, or below a collection that could not be listed to its end. It needs that what the server had all along is closed towards the root (`Missing`), and that rows have parents in the table of the moment (`Tables`) |
| `WebDavTree_proofs!CleanRunsMirror` | `CleanRunMirrors` | `Clean`: while nothing failed and nothing moved, whatever is seen is archived with its content and the name of now, or on its way; no row claims an etag it has not the content of (`NotAhead`) |
| `Reruns_proofs!SourcesCorrect`, `SourcesKeep` | `SourcesSound`, and `KeptWhileThere` of `ArchiveSources` | a source is recorded before its rows (`SourceFirst`), only where it is alone or allowed (`Permitted`), a blob is stored before its row (`Stored`), and a replacement takes only what is expendable (`Expended`) |
| `Reruns_proofs!MaildirKeeps`, `GraphKeeps`, `DavKeeps` | `KeptWhileThere` of `FileItems` (Maildir), `ExchangeItems` (Graph), `DavItems` | what is not on the server was missed (`Missing`); rows are in the folder the server has them in; what the scan of a folder did not list is excused (`Scanned`); with Graph, every item is in a listing, excused, or in a folder still to be listed (`GraphRunOK`); a DAV transaction that goes on over several replies has what the archive has (`DavRunOK`) |
| `Reruns_proofs!EwsKeeps` | `KeptWhileThere` of `ExchangeItems` (EWS) | pages are places in a listing that grows and shrinks under them: an item no page has named yet is behind the offset, or excused, as new, gone, or pushed into a page that was read when an item before it went (`OnPages`). A deletion moves each later place by one, which is said of the numbering of a set (`OneAfterTheOther`) |
| `Reruns_proofs!SieveKeeps`, `Trees_proofs!DriveKeeps` | `KeptWhileThere` of `SieveItems`, `GraphDrive` | what was not got counts as gone, so each row's script is still to be got, was got, or is excused (`InSight`); what the drive's walk has not found yet is in a directory it will list, or in one it has to find itself (`Coming`) |
| `Trees_proofs!DriveStaysTree` | `RowsAreTrees` of `GraphDrive` | the rows have ranks, each a higher one than the row above it, and what this run has written is under rows it has written (`Ordered`). That a tree is one where every lineage comes to the top is shown by the least rank, not by recursion |
| `Trees_proofs!ImportsKeep` | `KeptWhileThere` of `MCReruns`, whichever importer a behaviour is about | the disjunction of one invariant for each importer (`RerunsInv`), of which no step leads to another one. Rows of a Takeout are written over and never deleted. For the folders of Exchange, the folders that are paths and the mailboxes of JMAP, whatever is about to be deleted was away at some time since the run began, or moved while it was being listed; rows that are made by a fold over a list are followed from one element to the next |
| `Trees_proofs!TreesStay` | `RowsAreTrees` of `MCReruns` | the mailboxes have ranks (`Stacked`), ids that no two of them share, and parents that are there (`Woven`). What this run has written is under what it has written, so the next row to be written, with all that is not written yet, can be given ranks above those. EWS looks parents up among all rows, so it needs its order: a folder is deeper than its parent (`DeeperBelow`), hence later (`OrdersWait`). Graph knows of the rows of this run alone. Left out, by `Rooted`, is an account where a mail folder has been in a calendar (`Mixed`): its row loses its parent, and those below it their order |
| `Reruns_proofs!SieveCleanRunCopies`, `MaildirCleanRunCopies` | `CleanRunMirrors` of `SieveItems`, `FileItems` (Maildir) | what has to be true in the middle of a run that has met no failure and no change (`Steady`): scripts that were got are as the server has them, what is not got is written and only the active one may be marked wrongly, which the run knows (`SieveCopies`); the folders behind are copied, and what was listed is what is in the folder (`MaildirCopies`) |
| `Export_proofs!TypeCorrect` | `TypeOK` (`ExportTypes`) | `Account`: the target is a tree, ids are given once, siblings differ; `RunOK` has the types of the run |
| `Export_proofs!PruneIsSafe` | `PruneSparesArchive` | plans are made long before they are carried out, and rows of later types are mapped in between. `Spared`: an id in a plan is of the plan's type, is no row's, has no mark, and no name that is a row's key. This survives because an object is, as long as it is there, what was listed (`Listed`, `Follows`), ids keep their type (`Mapped`), each type comes once and in order (`Unreached`), and what a row was matched with is kept from the plan (`Kept`) |

Assumptions are those the modules declare: finite sets of ids, threads, workers
and blobs, positive limits, trees that are trees. The bounds on faults and changes
are in `Nat`, so the theorems hold for any number of them, as they do for any
number of threads, workers, emails, folders, objects and rows, where the runs have
a few. `WebDavTree!RootAssumption` says that every href lies below the one the
import starts from, as paths do: that is what makes its `Parent` a tree.
`JmapCalls!TasksAssumption`, `ImapLogin!SitesAssumption`, `Discovery!SeekAssumption`,
`SieveItems!SieveAssumption` and `ExchangeItems!EwsAssumption` say of what kind their
parameters are.

Only model-checked:

* every liveness property: the prover has neither fairness nor ENABLED in reach;
* `CleanRunMirrors` of the importers that the table does not name;
* `CleanRunCopies` of `ExportTypes`, which is about what a whole run adds up to;
* `ReadAsMeant`: conversions, and sequences that are rebuilt element by element;
* the types of the modules without a theorem: `MCTypeOK` of `MCClients` and of
  `MCReruns`, of which the theorems' invariants state what they need.

## 5. Findings

Each is the counterexample of a *violated* run. `PROJECT.json` quotes the lines.

* **`import_lost`** - an object read as new, changed, then listed by the first
  `/changes` as created only: its change is skipped and the cursor passes it
  (`sync/import_jmap.rs:851`). No fault is needed.
* **`imap_twice`** - a connection that drops inside a FETCH makes the worker send
  the chunk again; messages that had arrived are inserted twice and the first row
  is out of reach of any later run (`sync/import_imap/pool.rs:185`).
* **`dav_lost`** - a PROPFIND that fails leaves its subtree out of `seen`, and
  `delete_vanished` deletes it (`sync/import_dav/tree.rs:119`).
* **`series`** - the starts of occurrences are UTC and the dates of the rule are
  local: an event late in the day is excluded on dates it takes place on
  (`sync/import_exchange_graph/calendar.rs:397`).

### What the properties except

A property that the code breaks only under a nameable circumstance excepts that
circumstance, by a history variable or a predicate of the model, and the code's
behaviour under it is as follows.

*JMAP.* Insert failures do not hold the cursor, so a child written without its
parent stays there; an object changed behind the cursor stays stale and may hold
a name; a role or `isDefault` can be lost when its new holder is updated first; a
stale row and a move can make a loop of parents (`JmapTree`: `frozen`). A blob id
set by a patch is not rewritten; `created`, `modified` and `isSubscribed` of a file are
not exported; a parent that is not archived becomes none, an unknown home refuses
the object; `null` for a property that cannot be refuses it too (`ObjectRows`).
One object too large for any request fails its call for good, with what comes
after it; an error of a later part drops the outcomes of earlier ones; `/get` of
everything is not paged (`JmapCalls`). With several accounts and none of the name,
the principal's id is taken for an account's (`Discovery`).

*Exchange.* When one folder was given the place of another, deletions come after
the writes and `UNIQUE` aborts every later run (`Reused`); a mail folder in a
calendar gets a wrong parent on the second run (`Mixed`). Offset paging misses
items when one goes meanwhile, and Graph's listing folders that move (`unseen`). OneDrive
files are never read again once archived; a stale row in the way of a name aborts
later runs; a failed request for the root is taken for "no drive". EWS schema
versions go down without counting as attempts and are raised by other threads;
its refresher spins when tokens live no longer than its margin, and asks for a code
again without a refresh token. An ended token is sent in these cases (`TokenLasts`):
Graph counts `expires_in` from the start of the thread, after the requests of the
setup with their retries and throttling, which may take longer than the minute of
its margin, and again from the arrival of each new token; its margin is no longer
than its pause after a failure; EWS adds 50 minutes to the last end where it cannot
read a new one; and there is no thread at all for a token the user brought, in Graph
without a refresh token, in EWS where the first token cannot be read. The clocks of
both sides are taken to agree. A message that EWS returns without content counts as
skipped: no run reports it, and it is not archived before a run gets its content
(`ExchangeItems!NoContent`). The reader of listings ignores the class of a
response, so an error reads as an empty folder, whose rows go. Days 29 to 31 of a
pattern are the month's last in Exchange and skipped by the archived rule; EWS
drops the first day of the week; its whole-day events east of UTC are a day
early; an unknown zone leaves the rule in UTC (`EventRules!Exact`). A contact read
over EWS without a display name loses the parts of its name (`ContactCards!Whole`). A redirect of
autodiscovery to an address that redirects fails its candidate.

*IMAP, Maildir, ManageSieve, Takeout.* A vanished folder whose subfolders survive
keeps its mail; entries of a Maildir that cannot be read are taken for gone, and
two reads of a directory can miss a file that is renamed; a script that could not
be fetched is deleted as vanished; roles of Maildir and Takeout are stored without
`unique_role`. An unparsable response leaves an IMAP connection out of step, and
the rest may be filed by a later job (`doubtful`); a failed SELECT leaves the
worker's folder stale. When the reconnection for an ignored NOOP fails half way,
folders are passed over, on a connection nobody signed in on, or are selected by
names in the wrong form (`doubted`, `unnamed`). COMPRESS that is advertised and
refused ends the run, ENABLE does not. Without tags, a late or
unparsable answer of ManageSieve on a connection that could not be replaced gives
a script another one's body (`odd`). A relabelled message of a Takeout becomes a
second row; where an object occurs twice the last one wins, in each run anew; paths
that cannot be read are warned about and not counted as failed, so a run that reports
no failure may lack their objects (`FilesOverlooked`). A message that could not be
stored leaves an IMAP folder with events on their way, which the folders behind it
in that run take for theirs (`strays`).

*DAV.* Where two members of a collection below the first one get one name, from equal
displaynames or a displayname that is a file's name, the second is refused in every
run; if it is a directory, the walk of the collection ends with it, and what is below
the collection is not kept up (`Ambiguous`). Displaynames that were exchanged do so
only until a run has swept one of the rows. Of a response with several hrefs the
first is read; hrefs keep only their path, so principals and home sets of another
host are looked for on this one; an id is deleted even if its row could not be. An empty container element leaves a flag
of a reader up, or makes it swallow what follows (`XmlReaders`).

*Archive and export.* The IMAP importer collects no garbage; keys that are unique
across sources refuse a second account's card or script; four importers refuse a
dry run on a changed source; rows without sync id survive a replacement; a second
vacation response overwrites the first (`ArchiveSources`). A failed
`onSuccessSetIsDefault` is not tried again; an `AddressBook` created by a repeated
request is there twice; an object the server refuses to destroy counts as skipped
and stays (`DestroyRefused`); rows whose names differ only in what `fold_name`
ignores share one object; `--prune` deactivates the target's script even if the
archive's could not be created (`ExportTypes`).

## 6. Not modelled

* The field-by-field conversions: IMAP's response parser and keywords, message
  keys and headers, the participants of Exchange events, `calcard.rs`, labels.
  They have no behaviour over time, and what a property could say of them is the
  conversion again. `XmlReaders`, `EventRules`, `ContactCards` and `ObjectRows` are
  about those where state, time, references or several lists that must agree make
  it otherwise.
* The decompressor under COMPRESS beyond what `ImapLogin` says of its buffer:
  `flate2` may hold output back that `DeflateImapStream` only asks for after
  another read.
* Memory: the bytes held by an unbounded job channel, a response, a blob.
* `SyncFolderItems` of EWS as a way to enumerate: it needs a stored sync state,
  which only that way stores. SRV records. The parsing of the command line, logging and
  `inspect`, which only read and print.
* The two connections of two processes: `locking_mode = EXCLUSIVE` keeps a second
  process out of the archive.

What could come next: the refinement of `JmapImport` by the worker pool (an answered
chunk is `FetchNew` or `FetchNewFails`); proofs of clean runs of EWS, Graph and
CalDAV, and of `CleanRunCopies`.

## 7. Running

    tlc -config JmapImport_safe.cfg JmapImport
    tlc -config MCClients.cfg MCClients
    tlc -config GraphSeries.cfg GraphSeries
    tlapm JmapImport_proofs.tla

Operators preceded by "Seeded bug" are variants of the definition that follows
them, as a plausible mistake would have it. No specification uses them: put in
that definition's place, each makes TLC refute the property `PROJECT.json` names.
