# Verification of anchored

TLA+ models, TLC runs and TLAPS proofs for anchored: the durable core (the temporal
ledger of memories, the embedding queue behind it, the remote outbox and the
routing that chooses its remote) and, around it, the caches, gates, hooks,
commands and installers that share the machine and the database.

anchored is one Go binary that runs as several processes at once: an MCP server
per editor session, the dashboard hub, hooks and CLI commands.  All of them open
the same SQLite file (WAL, `txlock=immediate`), so a transaction is atomic and
the transactions of different processes are serialized, while everything a
process does *between* two transactions interleaves with the others and may be
cut short by a crash.  That is what the models are about.

## The system

| Component | State | Operations | Correct when |
|---|---|---|---|
| Temporal ledger (`sqlite_temporal.go`) | `memory_revisions`, the row in `memories` | save, correct, tombstone, update, restore, hard delete, `RevisionAt` | a write changes only what is known from then on about its interval; the row shows the revision in force |
| Compaction (`compact.go`) | the same tables, vectors, jobs | three sweeps | no readable answer changes |
| Processing queue (`sqlite_processing_queue.go`, `service_workers.go`) | `memory_processing_jobs`, a worker per process | insert, claim, complete, fail, requeue, `processClaimedJob` | a valid lease excludes; `done` means embedded; every job settles |
| Embedding generations (`sqlite_embedding_generation.go`, `service_embedding_generation.go`) | `embedding_generations`, `memory_embedding_vectors`, `memories.embedding` | ensure, store a vector, reconcile, activate, publish | the projected embedding is that of the current content; a build completes |
| Embedding upgrade (`embedding_upgrade.go`, `legacy_gate.go`, `processes.go`) | served generations, process registry | gate, rebind, health | never activated under an old binary |
| Remote outbox (`sqlite_remote_outbox.go`, `remote_outbox.go`, `pkg/mcp/remote_outbox.go`) | `remote_outbox`, a sender per process | insert, cancel, claim, deliver, fail, defer, requeue | at least once, in order per memory, never claimed without the server |
| Remote resolution (`remote_resolution.go`, `pkg/sync/resolve.go`) | cache of answers and holds | resolve for read or write | a write never passes over a remote that may own the repository |
| Memory service (`service.go`, `sqlite_store.go`) | stamps of the texts | save with deduplication, update, forget, restore, raw delete, undo, backfill | what has a tombstone stays forgotten |
| Vector cache (`vector_cache.go`) | vectors of one semantic space in memory | put, replace, warm | a search meets one space, and ends |
| Search (`hybrid_search.go`, `federation.go`) | candidates, page | scan, fuse, boost, diversify, cut; merge of two engines | the best are kept; nothing shown twice or lost |
| File indexer (`indexer.go`) | file times and hashes | walk, chunk, save, record | what is recorded was saved; the walk ends |
| Shrink (`shrink.go`) | names, inodes, open files | lock, copy, verify, swap, remove the log | no write is lost but in the window of the swap |
| Server life (`serve.go`, `hub.go`) | context, pipe, watch, sessions | serve, watch the parent, shut down | without its client it exits |
| Sessions and task threads (`pkg/session`) | `sessions`, `task_threads`, working sets | upsert, status, link | no note is lost but to a close just before it |
| Context store and tools (`pkg/context`) | chunks, artifacts; process groups, fetch cache | index, evict; run a batch, fetch | the cap holds; every batch returns |
| Projects, knowledge graph (`pkg/project`, `pkg/kg`) | rows by path; triples | resolve, plan and apply a fold | repositories stay apart |
| Dream (`pkg/dream`) | proposals | analyze, run, apply | a stale proposal destroys no last copy |
| Curation (`curation*.go`, `retention.go`) | lifecycle in the metadata | rescore, reconcile, clean, sweep | every old score is renewed |
| Importers (`pkg/importer`) | `imports` | look up, import, record | what is skipped was saved, or given up by the import relied on |
| Bulk sync (`remote_per_project.go`, `remote.go`) | projects of the servers | probe, find, adopt, create, push | a clean exit sent all; nothing goes to a project another repository owns |
| Hooks and context gate (`hook_*.go`, `context_gate.go`) | marker files; memories | credit, deny, relent; recall, stop, start | credits stick, denies are bounded, nothing saved twice |
| Self-update, plugin (`pkg/updater`, `plugin_*.go`) | binary and backup; cache and registry | swap, roll back; copy, promote | a whole one is there |
| Embedder (`embeddings_onnx.go`) | model, tokenizers, timer; the partial download | embed, unload, close; download, resume | a vector is what its label says; an idle model goes; what is in place is whole |
| Tokenizers (`tokenizer_hf.go`, `tokenizer_fast.go`) | vocabulary, scores | split, normalize, segment, frame | the best segmentation; no cut is seen |
| Entity detection (`entity_detector.go`) | lexicon, watermark | detect, load, refresh, close | known up to the watermark; nothing runs after close |
| Other commands, dashboard, text heuristics | - | front ends and pure functions | - |

How they interact: a save appends a revision, moves the current row, inserts one
job per embedding generation the process serves and, if it is synchronized, one
outbox item, all in one transaction.  A worker per process polls both queues,
is woken by local saves, and finalizes through statements guarded by the owner.
A tombstone cancels outbox items in its transaction.  Storing a vector projects
it onto the row when its generation is active and its revision current.
`PROJECT.json` lists the behaviours that are hard to test, at the line where
each bites, with the property that covers it or why none does yet.

## Modules

| Module | What it is |
|---|---|
| `ProcessingQueue` | the embedding queue, its workers and the generations as the queue sees them |
| `RemoteOutbox` | the outbox, its workers, the network and an at-most-once server |
| `RemoteRouting` | which remote answers for a repository: two resolvers, their cache, holds |
| `BitemporalHistory` | abstract: what was known when to hold when |
| `TemporalLedger` | the revisions of one memory, all write modes, compaction |
| `VectorCache`, `EmbedderRuntime`, `EntityLexicon`, `Indexer`, `Serve` | inside a server |
| `EmbeddingUpgrade`, `ContextTools`, `ContextStore`, `ContextGate`, `Curation` | beside the servers |
| `Shrink`, `MemoryService`, `TaskThreads`, `Dream`, `Projects`, `Importers`, `HookMemory` | processes that share the database |
| `SelfUpdate`, `PluginSync`, `ModelDownload`, `BulkSync` | processes that share files or servers |
| `SearchRanking`, `FederatedSearch`, `Tokenizer`, `SessionBlock` | algorithms, with every order of their input |
| `MCServe`, `MCUpkeep`, `MCCallers` | instances of the three groups above, one run each |
| other `MC...` | finite instances for TLC; the `.cfg` files give the bounds |
| `ProcessingQueueProofs`, `RemoteOutboxProofs`, `RemoteRoutingProofs`, `TemporalLedgerProofs` | theorems about the durable core |
| `ServeProofs`, `UpkeepProofs` | theorems about the components of `MCServe` and of `MCUpkeep` |
| `CallersProofs`, `KeptProofs` | theorems about all components of `MCCallers` but `Tokenizer` |

### ProcessingQueue

`state, attempts, owner, lease, delay, grace, created` are the columns of a job
row (`next_attempt_at` is `delay`; `grace` is the time during which a process
whose model is unloaded leaves a fresh job alone, `claimCutoff`).  Deadlines are
the ticks left, so the clock is unbounded and the state finite.  A worker is a
program counter over `processClaimedJob`: `Claim` (sweep of expired leases and
claim, one transaction, rolled back with its sweep when nothing can be claimed),
`CheckRevision`, `CheckGeneration`, `EmbedAndStore`, then `Complete` or `Fail`;
`ProcessingError` is an error of any step and `Abandon` a crash, or a finalizing
statement that was lost.  `since` lets a worker outlive its lease: the context
that bounds a pass runs on the monotonic clock, which stops in sleep.  The
writes that feed the queue are `Write` (save, update of the content), `Rewrite`
(update of the category, restore), `Forget`, `Correct` (metadata) and the
deletes made by SQL outside the ledger (`RawDelete`: purge, curation, directives)
with their undo.  `Reconcile`, `Activate`, `Revive` and `Rebind` are the life of
a generation.

### RemoteOutbox

The same lease discipline, plus: an item is claimable only when no older open
item of its memory exists (`Prior`), a held delivery goes back without its
attempt (`Defer`), a tombstone dead-letters what is open (`Forget`) and an
operator may requeue what was not cancelled.  A request is put on the wire by
`Send`; the server applies it at any later time or never, once per operation id
(`Apply`, external); `Answer` chooses among the outcomes that
`ClassifyOutboxResult` distinguishes, `delivered` only if the server did apply
it, so a lost answer and a late application are both there.

### RemoteRouting

One repository, so one cache key; the remotes are their ranks.  `cached`,
`cacheLeft` and `holdLeft` are the two entries and the ticks until they expire.
A call is a program counter over `resolveProjectAcrossRemotes` and its callers:
`Begin` looks for a hold (writes), `Look` in the cache, in separate lock
sections; `Ask` is one remote's answer or failure, in precedence order for a
write and in any order for a search (the hedge); `Resolve` decides and keeps the
answer, or does not when the caller was cut short; `Use`, `Refused` and `Hold`
are what the caller does to the cache afterwards.  `Change` is the environment:
a project is created on a remote, or dropped.  `unowned` and `failed` are
auxiliary ages the properties speak of; `MaxAsk` stands for the deadlines that
bound one resolution.

### TemporalLedger and BitemporalHistory

Revisions carry two half-open intervals.  `Commit` is the body of every write:
close what overlaps (`Hit`, `Closed`), put back what sticks out (`Before`,
`After`), insert, check disjointness or roll back, choose the current revision
(`Selected`).  The clock of the machine may jump either way; `Advances` is what
`advanceSystemTimeTx` guarantees.  Supersede and tombstone writes may carry an
explicit past interval (library API; the commands write at `now`).  The
refinement mapping sends the rows to the table of answers of `RevisionAt`, and
`KeepsHistory` is the abstract specification.  `Compact` is only in
`CompactSpec`: under it the property fails (see Findings).

### Inside a server

`VectorCache` has the four threads of a process that share the cache: a save that
refreshes its memory after its commit, the embedding worker, the binder that follows
the active generation of the database, and a search.  Every critical section of the
cache's lock is a step; `embeddingLock` and `searchLock` are the locks of the
service and of the searcher, and `warm` the channel a search waits on.
`EmbedderRuntime` has the embedders of a process over one model: every critical
section of `onnxRuntime.mu` is a step, the idle callback is fired by the timer and
takes the lock later, and files may arrive after an embedder got its label.
`EntityLexicon` has the holders of `loadSem` (a search that waits for the first
load, or a refresh in the background) with a load in three steps, each of which a
database error or the end of its context may cut short, the writers of the rows it
reads, and the close of the service.  `Indexer` walks the watched files: a version
of a file stands for its content, hash and time.  `Serve` is the main goroutine with
its client, the pipe, the watch on the parent, the timers that bound a request and
the teardown, and the sessions that servers and the hub close by age.

### Beside the servers

`EmbeddingUpgrade` is `tryActivateEmbeddingGeneration` step by step (list, prune,
scan, measure, activate) while processes of five kinds start, heartbeat, stall
and end, and pids are reused.  `ContextStore` inserts parts row by row, with the
look-up of the hash before each insert, while evictors measure, choose and
delete.  `ContextTools` has commands as process groups with members that hold
the output pipe, and the fetch cache.  `ContextGate` is one hook process per tool
call over three marker files.  `Curation` reads a page, works, and writes it back
row by row, while commands and hooks write the same column.

### Processes that share the database, files or servers

In each of these a caller's program counter separates what it reads from the
transaction it writes in: `MemoryService` (duplicate search, read of an update,
backfill pages), `TaskThreads` (each statement of an upsert, a status change or a
link), `Dream` (every check and write of the consolidator), `Projects` (plan and
apply), `Importers` (look-up, phases, record), `HookMemory` (what a hook reads,
what it saves and counts), `Shrink` (lock, copy, close, rename, removal of the
log), `SelfUpdate` and `PluginSync` (every rename, with crashes), `ModelDownload`
(inodes, names and descriptors, one write per chunk, with broken responses and
kills) and `BulkSync` (every request, which may fail before or after the server
applied it).

- A row of `MemoryService` is deleted twice over: by `deleted_at`, which readers
  look at, and by a tombstone, which the conditional writes look at.  The commands
  that delete by a raw UPDATE leave it `raw`: deleted for a reader, active for the
  ledger, so an update that read it before writes it live again.
- In `Shrink` a log belongs to an inode and is found by its name.  `window` are the
  writes whose inode or log is put away, `gap` says that someone opened the file
  between the command's close and its removal of the log, or that no removal came,
  and `crossed` that a log was taken up for an inode it was not written for, or that
  an inode has two; from then on nothing is promised.
- `ListPhase` and `SaveItem` of `Importers` may pass over any items, `LoadFails` all
  of a database; what an import gave up is remembered beside its record (`lost`),
  which the table itself cannot tell.
- Projects of a server are registered to a repository or `Unowned`: without a key,
  with the local one, or with the timestamp an earlier version gave.  `AtFirst`
  says what may exist at first; in the instance two repositories share a slug, and in one
  of its three beginnings a timestamped project has it.

### Algorithms

`SearchRanking`, `FederatedSearch`, `Tokenizer` and `SessionBlock` compute from an
input chosen by `Init` out of all inputs within the bounds; what the code leaves open
(the order of a map, what a server answers, an edit between two reads, a kill) is
nondeterministic.  `FederatedSearch` takes the steps of `federateSearchResults` one
candidate at a time: `SearchLocal` makes the hits of the local results, `AddRemote`
joins a candidate of the server to the hit of its id, else of its text, else appends
one, and `Answer` sorts and cuts.  `Answer` takes any order the scores allow
(`Sorted`): the times and identities that break ties are not in the model.  A rank
is the position in the list, which is what both engines send; a rank a server declares
otherwise, the category filter and a failing local search are left out.  Of
`SearchRanking` only the scan of the cache is stated; the stages after it are there
to take its result to the page.  `Tokenizer` leaves out the cut of a text to 32 KiB
that comes before the segmentation.

### The composed instances

`MCServe`, `MCUpkeep` and `MCCallers` instantiate the components of one group.
Those share no variables, so the instance does not interleave them: `focus` picks
one in the initial state, that one runs, and the others keep an initial state.
Properties that say the same of several components are joined in one definition;
each conjunct has a mutant of its own.  The bounds and sets of the components with
theorems are constants of these modules too, with values in the `.cfg`; what the
proofs need of them is one assumption per module (`ServeAssumption`,
`UpkeepAssumption`, `CallersAssumption`), which TLC evaluates in its run.  The
components without theorems get their sets where they are instantiated.

## Runs

| Run | Checks | Instance |
|---|---|---|
| `pq_queue` | type, row consistency, lease exclusion, projected embedding | 2 processes, 1 memory, 2 revisions, 2 attempts, lease 2, 1 requeue, raw deletes |
| `pq_rebind` | done is embedded, done is reopened only if missing | 2 processes, 2 generations of different kinds, rebinding, activation |
| `pq_live` | every job settles, a build completes | 2 processes, 2 revisions, fairness below |
| `ro_queue` | type, attempts, delivered was applied, one sender, order, cancellation | 2 processes, 2 memories, 2 items, 2 attempts, lease 2, item 1 may be requeued |
| `ro_live` | every item settles | 1 process, 2 items of one memory |
| `rr_routing` | type, writes keep to precedence, searches return to it, misses and holds are short, searches keep holds | 1 search, 2 writes, 2 remotes, lifetimes 2 and 1, one tick to resolve |
| `tl_ledger` | type, never refused, current view, refinement | 4 instants, 2 payloads, every sequence of the 9 writes |
| `tl_compact` | compaction is lossless: violated | 3 instants |
| `se_serve` | types, one space per search and label, marks are true, searches end, servers exit, models unload | 1 memory, 2 revisions, 2 generations; 3 embedders, 3 embeds; 2 searches, 2 memories; 2 files, 2 versions, one longer than a chunk; 1 session |
| `up_upkeep` | types, old processes, cap and denies, credits, everything begun ends | 1 local and 1 remote pid, 2 starts; 2 commands; 2 memories; 2 evictors, cap 2; 2 hooks, 2 denies |
| `ca_callers` | types, repositories apart, done means done, answers, tokens, whole or not at all (the swap window with it), nothing undone | each of its 15 components alone: two callers, commands or sessions (one shrinking beside two other processes; the scan, the merge, the block and the tokenizer have one); 2 writes to a shrunk database; 2 transactions of 2 callers of the memory service; a failed read or save of an import, a failed request; texts of up to 4 characters over 6 pieces with 4 scorings; a download of 2 chunks |
| `ix_start` | the indexer's start returns: violated | 2 files, one section longer than a chunk |

Why the bounds are enough to be interesting: two processes and a lease of two ticks
give every order of claim, takeover and late finalization, since a third process
only repeats the role of the second; two attempts distinguish the last one from the
others; two revisions give a job whose revision was replaced; two items of one
memory give order, and a second memory gives independence; four instants give a
write that cuts an open interval in three and a later one over the pieces; two
lifetimes that differ by a tick tell a long answer from a short one, and two remotes
are one to pass over and one to pass to.  In the composed instances two actors are
enough for a read of one to be made stale by a write of the other, one failure or
crash for each step to be cut short, two files, commands or pages for a walk to go
on after the first, and a cap of two with parts of one and two for an eviction to
need one part or two.  Raw deletes and rebinding are split over two runs because
their product is large and they share no state but the row.  The safety properties
of the durable core, and those of most composed components, are also proved for
every value of the bounds (see Proofs).

Every property, and every conjunct of a joined one, has a mutant of a mapped
definition (`PROJECT.json`) under which
TLC finds it violated: a lease that expires early, a sweep that gives up
everything, a missing owner check, an unchecked projection, a retry that is not
refunded, a forgotten remainder of an interval and so on.

### Fairness

Time passes (`WF(Tick)`); a worker that holds a job takes its next step; an idle
worker polls on a ticker and a full batch of one kind yields to the other
(`processingMaxBatchPerWake`), so a claim enabled again and again is made
(`SF(Claim)`, assumed only for the weakest claim, the poll of a process whose
model is unloaded).  Nothing forces a success: errors and crashes may take any
step that is not `Tick`, `Step` or `Claim`.  `BuildCompletes` adds that startup
reconciliation and activation attempts recur while a generation is built.
In `se_serve` the goroutines of a process take their steps (a load has a timeout),
the parent is polled, the forced exit fires on its timer and so does the idle
callback; the binder gets a lock it asks for again
and again.  In `up_upkeep` heartbeats, the poll of an idle worker, the tickers of
curation and the steps of a command that can return are fair; processes, commands
that hang and children that hold a pipe are not.
`ro_live` assumes two things of the environment: a remote that is asked again
and again does not hold every time, and its resolution succeeds again and again.

## Findings

Two are counterexamples of a run:

1. `CompactIsLossless` (`tl_compact`): the sweep of "redundant" revisions removes
   the part of a superseded revision that the ledger put back, and repeats that
   are not successive, so a point-in-time answer that a test of the repository
   asserts is gone after `anchored compact`.  `compact.go` and the changelog say
   it is lossless.  No caller outside the tests reads the history yet.
2. `StartReturns` (`ix_start`): a Markdown section longer than a chunk makes
   `chunkMarkdown` append the same piece forever; `serve` waits for it before it
   answers.

The others were met while modelling; `PROJECT.json` quotes code and comment of
each.  Of the queue: a memory deleted by SQL before its job ran comes back
without vector or job, a metadata correction before the embedding leaves the live
revision with neither, and the claimability precheck counts jobs no claim would
requeue.  Where a property had to be weakened to hold, the finding is the
difference: the window from the close to the removal of the log in `Shrink`, rows a save
refreshes in `VectorCache`, nine denies instead of three in `ContextGate`, what could not be
read or saved in `Importers` and `Indexer`, pushes whose target was not looked at and projects
that two repositories adopt in `BulkSync`, raw deletes in `MemoryService`, a close
between a status and its note in `TaskThreads`, a pair that changes between its check and
its delete in `Dream`, a crash between two renames in
`PluginSync`, reserved items in `SessionBlock`, two downloads at once in
`ModelDownload`, a model whose first run failed and a closed sibling in
`EmbedderRuntime`, reused rowids in `EntityLexicon`, long runs of unknown
characters in `Tokenizer`.  A model that was downloaded whole and not yet renamed
is never completed.

## Proofs

`ProcessingQueueProofs` proves, for all constants allowed by the assumptions of
the module, six of the properties the runs check.  The inductive invariant
`LeaseInv` joins the types, the consistency of rows and `LeaseHolderOwnsJob`: a
finalizing statement is harmless only because the row still names the worker,
and the sweep is harmless only because the lease on the row is the time the
holder has left.  `ProjectionIsCurrent` needs that jobs and vectors exist only
for revisions already written, and that a projection is made in the transaction
that compares the revision.  `DoneIsEmbedded` needs, beyond the lease, that a
worker past its checks has stored its vector or holds a job whose revision has
been superseded; it is proved without raw deletes (with them it is false: a memory whose
delete is undone comes back without vector or job, see Findings).

`RemoteOutboxProofs` proves every safety property of the outbox that the runs
check.  Its inductive invariant `OutboxInv` has, besides the types, four parts:
`RowsInv` (attempts are failures plus the running claim, and only dead items
carry the mark of a tombstone), `HoldersOwn` (the row of a worker whose lease
runs names it and has the time it has left, so neither a sweep nor another claim
touches it), `ClaimsInOrder` (once an item was claimed, its older siblings stay
closed unless an operator reopens one: what makes the order survive a worker
that outlives its lease) and `RemoteInv` (the server's latest item was sent, and
a `delivered` outcome was applied).

`RemoteRoutingProofs` proves every property of the routing.  Its invariant
`RoutingInv` bounds the age of what each call and each entry rests on: what a
remote said to a call that still asks was so since it began, and what a cached
answer passed over was so at most as long before it was put as a resolution
takes, which the time left on the entry tells (`CachedRecently`; `HeldRecently`
for the hold).  A slow call may put its old answer after a newer one: the bound
`MaxAsk` is exactly what that costs.  The proof needs that no call is both a
search and a write.

`TemporalLedgerProofs` proves the ledger's three invariants and that it
implements `BitemporalHistory`.  The invariant is: revisions are pairwise
disjoint, closed ones ended in the past and open ones begin in it, exactly one
open revision has no end, and the row names the revision in force.  Without the
clause that no revision begins after the last write the clones of the next write
could overlap it.  The refinement goes by the answers: disjointness makes the
answer at a pair of instants unique, each write leaves every answer before its
time as it was and sets those of its interval.

`ServeProofs` proves every safety property of `MCServe` for any number of
memories, generations, searches, files and embedders.  `ServeInv` joins one
invariant per component, because none of the properties is inductive:

- `VCInv` (vector cache): who holds `embeddingLock` and `searchLock` at each stage;
  what the cache holds, beside what saves put into it, is of its space; a vector
  the worker is about to put is of that space, or there is none.  The worker may
  put what it computed before a rebind only because it compares the generation
  under the lock the binder also takes.
- `ERInv` (embedders): `refs` counts the open embedders of each pipeline (a
  cardinality, so the siblings are finite), and the tokenizer that is loaded is
  the one the label of those that use it names.
- `ELInv` (lexicon): whoever loads holds `loadSem`, and a load about to merge has
  read every row up to the watermark it will set, but those that took a freed rowid.
- `IXInv` (indexer): which version of which file the walk holds at each stage, so
  what it records is what it saved.  `ServeLong` is the safety half of the finding
  `StartReturns`: where chunks overlap, the start of the next piece of a long
  section stays before its end, so a file that has one is never saved.

`UpkeepProofs` proves the types, `OldIsLate`, `LimitsHold` and `CreditSticks`:

- `EUInv` (gate): from its look at the registry on, an old process that runs came
  late or is shadowed; shadowed is whatever took a pid while the row of a newer
  process was stored for it or listed.
- `CSInv` (context store): unless something was inserted since an evictor measured,
  what is there is at most what it measured, and what its choice leaves fits under
  the cap.  Bytes are counted as a set of numbered bytes of each part, so the size
  of a store is a cardinality and needs no induction.
- `CGInv` (context gate): a potential.  A hook that has read `k` takes the counter
  back to `k + 1`, so the denies made and still possible are bounded by triangular
  numbers of what is left of the counter and of what each hook in flight has read
  (`Deniable`); of two hooks in flight at most one has read less than the counter.
  `CreditSticks` needs only that a credit is a file, which nothing but the sweep
  removes.
- `CXInv` and `CUInv` are the shapes of a batch, a fetch and a page.

`CallersProofs` proves `RepositoriesStayApart`, `DoneMeansDone` and
`NothingIsUndone`.  For the first two:

- `PJInv` (projects): there is a function (`home`) from the ids of all projects to
  repositories that rows, writers and planned merges keep to, whatever becomes of
  the paths; it needs that the root of a root is itself.
- `IMInv` (importers): of the phases an import has done, every item is saved, still
  to do, or among those it gave up; a record that lets a later import skip its
  source says so of all phases.
- `BSInv` (bulk sync): servers only grow and have one project of a slug, and nobody
  changes its key, so what a machine found to be its own or unowned stays that;
  while it has counted nothing as unsynced, every project with a route and something
  to send is still to do or was sent whole.

`NothingIsUndone` says of single steps what they may not take back, and is true by
what the actor still knows when it acts: `TTInv`, a note not yet written is on a
thread that takes it, or the last status the thread got since then closed it
(`closed`; this is the order of statements in `UpdateTaskThread`); `DRInv`, a pair
about to be folded was two copies at the check and still is until another touches
one of them, and a dedup is always of two memories (the keeper `CHOOSE`n among
equals exists because memories are numbered); `HMInv`, a Stop hook that saves has
seen every text of the rows it was shown that are still live, because rows are only
added, demoted or forgotten.  For `MemoryService` the types are enough: the
condition on the tombstone inside the transaction is what an update relies on, and
all it relies on.

`KeptProofs` proves `WholeOrNotAtAll` and `AnswersAreSound`.  The first says of every
state what is whole in it:

- `SHInv` (shrink): nobody has the file open while it is locked, the copy equals
  the file when it is closed, and at the swap it lacks only the writes of the window;
  unless `gap`, the log beside the file is its own or is about to be removed, nobody
  has another inode open or lost a log, and from lock to removal nobody has any open.
- `SUInv` (self-update): unless two swaps overlapped, one updater swaps at most, and
  a binary that is missing is the one it has put aside; so every way the swap fails
  or ends has something to put back.
- `PSInv` (plugin): only the holder of the lock is past it, what it is about to swap
  in is a whole copy, and the directory it points the registry at is in place.
- `MDInv` (model download): until one process clobbers the file of another, every
  partial file is the first chunks the server sent, and who writes it stands at the
  chunk it is sent next, resumed or not.
- `SBInv` (session block): tokens spent, separators and what remains add up to the
  budget; what was passed over did not fit or had no reserve left; the identity is
  refused only when the rules before it have used the budget.  Characters and tokens
  are counted as sets of numbered ones, so the size of the printed block is a
  cardinality: it rounds up once where the budget rounded up every item.

`AnswersAreSound` is about two algorithms, each proved from an invariant of its loop
and not from what it computes:

- `SRInv` (the scan of the vector cache): every entry kept comes before every entry
  that was seen and is not kept, and there is room only if all that was seen is kept.
  The entry to push out exists because a finite set of entries in strict order has a
  last one (well-foundedness of the strict subset); when nothing is left to scan, the
  entries before a kept one are kept too, so they are fewer than the room there is,
  and an entry left out has all of the kept before it.  The stages that follow do not
  touch what was kept; that their page is the best of it is not stated.
- `FSInv` (the merge): the hits have disjoint ids, hold each local result once and in
  its place, and, once the server's first candidate was added, the first hit is both
  engines' first if their ids are equal.  Joining by id or text keeps this, whichever
  ids and texts coincide, because a candidate that joins no hit has no id of any, and
  one that joins by text brings an id no hit has.  A permutation that puts no hit
  before a better one then puts that hit first, and loses none while there is room.

The assumptions on the constants: bounds and sizes are numbers; finite are the
embedders, hooks, items, memories and directories that a proof counts, and the
memories in the vector cache; names such as
`nobody`, `none` and `background` are no member of the sets beside them; memories
of `Dream` and of the vector cache are numbered, so that ids order them, and a pair has
two; a worktree has one root; an item's kind
is one its source is read for; a server begins with one project of a slug, and the keys
of projects nobody owns are no repository's; a version, a model, the
characters of a token, a page and the overscan of a search are at least one.

Only model-checked:

- the liveness properties and `ServeSettles`, `UpkeepEnds` with them: TLAPS proves
  no ENABLED;
- `TokensAreBest`: what `Tokenizer` segments and cuts is computed by functions that
  recurse over the text, and that the result is the best segmentation of every text is
  an induction over data, which these provers cannot do;
- `MCCallers.TypesOK`: it contains the types of `Tokenizer`, which need the same
  induction, and those of `SearchRanking`'s page, which needs that every finite set can
  be sorted and what `SelectSeq` keeps, inductions too.  Of the other thirteen
  components the invariants above type what their proofs need;
- the findings, which are counterexamples.

## Not modelled

- Inside modelled components: an error while a failed update is undone (`SelfUpdate`) or
  a failed promotion restored (`PluginSync`), and the opening of the partial file
  (`ModelDownload`), count as a kill at that point; `confirm_upgrade` and systems
  without /proc (`EmbeddingUpgrade`); a child that leaves its process group and keeps the
  output of a batch open, which the wait in `sandbox.go:121` outlasts (`ContextTools`);
  more than one key of a repository (`BulkSync`).
- Inference, the forms of a tokenizer.json the shipped model does not have
  (WordPiece, BPE), the extraction of the runtime library, the LRU of query
  embeddings, classification, sanitizing, topic changes, redaction, intent,
  evaluation, parsing of foreign files and formatting: values computed from
  values, with golden tests in the repository.
- FTS queries and query expansion: their result is an input of `SearchRanking`.
- The dashboard, the installers of editor integrations, the service units and
  the other commands: front ends of what is modelled.
- The migration runner: one transaction per migration, applied in order.
- The vector and job sweeps of `compact`, session events and metadata, entities
  and predicates of the knowledge graph, the sync of task threads, skills, and
  restoring a backup by `curation restore`.
- Contents are data throughout: a property never depends on a text but through
  the classes its module names (normal form, hash, score, length, path).

`ProcessingQueue` and `RemoteOutbox` follow one lease discipline.  An abstract queue
that both implement is not stated: what it would promise (a lease that runs excludes,
a finalizing statement of a stale holder changes nothing) is in `LeaseInv` and in
`HoldersOwn`, proved of each of them.
