# Formal models of ietf-llm

This directory holds TLA+ modules that model the concurrent core of `ietf-llm`, the TLC
configurations that model-check them, and TLAPS proofs about them. The modules are translated
from the Python source under `src/ietf_llm/`; `PROJECT.json` names, for every definition, the
lines it stands for.

## The system

`ietf-llm` gathers the public record of an IETF effort into a cache and serves it to LLM
clients. Gather is the only writer of corpora; any number of readers (a CLI search, an MCP
server, an exporter) read the cache. Deployed on a "cloud" store, several server processes
share one S3 bucket: there is no database and no lock service, only conditional puts.

### Inventory

| Part | State it keeps | Operations | What makes it correct |
|---|---|---|---|
| Cloud publish (`store/cloud.py`, `store/control.py`, `store/kv*.py`, `store/blobs*.py`, `store/s3.py`) | per corpus: version pointer, lease record, blobs under version prefixes | acquire, renew, confirm and release the lease; stage blobs; flip the pointer; reap | a reader finds the current version whole; publishers exclude one another; a publisher that lost its lease moves nothing; the previous version stays |
| Gather runner (`gather/runner.py`, `gather/lifecycle.py`) | per process: registry of jobs, queue, stop tokens and events, lease watches, worker pool, heartbeat; shared: lease, fleet slots, status record | start, stop, run, report, finish, heartbeat | one gather per corpus in a process and in the fleet; cleanup of one job never touches the next; every job ends; the record tells the truth |
| Cloud readers (`store/cloud.py`) | resolve cache, version pins, local scratch trees, per-version file locks | resolve the current version, materialise it, retry when it was reaped, reap scratch | a request reads one version throughout; a reader never sees a version that is being deleted locally; staleness is bounded |
| Fleet slots (`store/control.py`) | one JSON record of slots with expiries | acquire, renew, release by compare-and-swap | no more than the cap in flight; a dead host's slot comes back |
| Routing and identity records (`corpus/routing.py`, `gather/sources/identity_cache.py`, `store/cloud.py`) | shared JSON maps | read, merge, compare-and-swap with retries | no lost update |
| IMAP mail cache (`gather/sources/cache_sync.py`, `mbox.py`) | per host: message files, epoch marker, confirmed epoch, archive directories; in the store: an index and chunks per unit | hydrate, sync, reconcile a renumbered folder, persist, clear | a UID names one message; stored mail is never lost; threads are rebuilt from all of it |
| Atomic files (`atomicio.py`) | files and directories | temp file and rename, directory swap with a backup, recovery | a reader sees the old or the new content whole; a crash loses neither |
| Embedding index (`embeddings/`) | `embeddings.db`, a scratch database beside it, a file lock | seed the scratch database, build, promote, discard; a reader's schema upgrade | readers see a whole index; an interrupted build costs only its own work |
| Seed store (`seed/`, `rfcindex/publish.py`) | bundles, manifests and the index of a store directory; a local mirror of the index | publish a member, write the index, prune; fetch, verify, install | the index never names a bundle that is absent; an install is whole |
| Live lookups (`live_lookup/`) | an in-process cache, `.live-cache.json` | lookup, fetch, expiry, stale answer after a failure | an answer carries its real age; a failure is never a negative |
| HTTP governor (`net/http_governor.py`, `net/transport.py`) | one bounded semaphore per host | wait for a slot, request, retry | a host's concurrency bound holds; every slot comes back |
| Gather pipeline (`gather/pipeline.py`, `child.py`, `sequencer.py`, `stages.py`, `plan.py`) | the stages of one gather, a child process | run stages, isolate the index build in a child, interrupt | a failed stage fails the gather; a child never outlives it |
| MCP server (`mcp/`) | per-request pins, the shared freshness sweep of the probes, the writer's queue | tools over the stores, probes | a probe never queues behind a failing store; the reader loop never waits for a dead writer |
| Regex scan (`regexscan.py`) | worker process | search with a time limit | a pathological pattern is cut off |
| Gather sources (`gather/sources/`), digests (`digest/`), people (`people/`), RFC index (`rfcindex/`), singletons (`singletons/`), CLI, exporter, config | text and JSON documents | fetch, parse, render | conversions, checked by the repository's own tests |

### How the parts interact

A client asks the MCP server's `start_gather`, which calls `runner.start`. The runner admits the
call in its registry, takes the corpus's lease in the control plane, publishes a `queued`
record and queues the spec. A worker takes it, waits for a fleet slot, runs the pipeline, and
publishes the workspace through the corpus store (upload, confirm the lease, flip, reap). The
heartbeat renews leases and slots of every job of the process; a job whose lease was taken over
stops at its next check. Readers resolve the pointer, materialise that version locally and
answer from it. Before its pipeline a gather restores the corpus's caches (its mail among them) from
the store, and stores them again after its publish. All coordination across hosts is by conditional puts on small records.

### What is hard

- every step of publish is a request of its own, and another gather's requests fall between any two;
- leases expire by clock, so a stalled gather may wake up after its successor has published;
- the S3 client resends requests on its own, a conditional put among them;
- a job's cleanup (slot, lease, registry entry) runs after its terminal status is visible, so a
  client may restart the corpus in the middle of it;
- start's rollback, the queue and the worker pool can disagree about whether a spec will run;
- a stop is authenticated against one gather and delivered by corpus name;
- a reader holds a version that publishes supersede and reap while it reads, on a scratch directory
  that other readers sweep;
- the mail server may renumber a folder between, or within, the gathers of hosts that hold different
  parts of its mail;
- a host may die at any point, and its lease, slot and record must not block the corpus.

## The modules

Every variable and action is commented with the attribute or method it stands for; `PROJECT.json`
gives the lines. Every operator whose comment begins with "Mutant of" is a plausible bug put in the
place of the definition it names; each checked property fails under one of them. Variables and record
fields marked "history" record what properties speak of; no guard reads them unless the comment says so.

A property whose name ends in `Inv` or `True` is a conjunction of named parts, each with a comment of its
own: the module's type invariant with the safety properties that are cheap to check beside it (`ReadInv`,
`MailInv`, `IndexInv`, `FleetInv`, `LiveInv`, `ChildInv`, `ProbeInv`, `WriterInv`), or parts of one promise (`PinsHold`,
`RowsTrue`, `TopicsTrue`, `NoUpdateLost`, `AnswersTrue`, `ResponsesTrue`, `RecordTrue`, `ThreadsTrue`, `ChosenStay`). Some modules also
state a property that the code does not keep; its comment says so. For two of them a run shows it ("Findings"); the
others are under "What the checks found besides".

Parts that share no variable are checked in one run where their bounds allow it: the first state picks a scene, and
only its part moves. Three modules put such parts together: `MCGather` (the publish and the processes of a gather),
`MCCopies` (versions read and seeds installed) and `MCParts` (the small modules). In the first two, deadlock is
checked: a scene whose part may come to rest has stuttering steps of its own, the others must always have a step.

### AtomicPublish, CloudPublish, MCCloudPublish, MCGather, CloudPublishProofs

`CloudPublish` models publishing one corpus by any number of gathers. Its variables are the
bucket's (`pointer`, `blobs`, `lease`) and each gather's locals (`pc`, `lost`, `ver`, `expect`,
`sent`, `todo`). An action is one request, or a read and the conditional put that makes it
atomic. Expiry is modelled by the ticks left on the lease. `Delay` bounds the age of the clock
reading a lease write carries, `Stall` the time between a confirmed lease and the end of the
reap, `Skew` the difference of two hosts' clocks. `Faults` chooses what may go wrong: a crash, a
failing request, a lapse (a live gather does not renew in time), a resent put.
`AtomicPublish` is the contract with the readers: the pointer moves, in one step, to a whole version that was
never current before; of a version that is no longer current parts may go at any time; nothing else
changes. It says nothing of `Retain`: the version just superseded may be reaped at once (`PreviousKept`, below). `Kept` maps the blobs of the versions that are or were current to it; what is
staged or orphaned no reader sees. The history variables (`used`, `past`, `before`, `later`, `beaten`) record what
properties speak of; no guard reads them but for the choice of a fresh version id.

Abstractions: a version's blobs are a set of parts, with the manifest as the last; `Newest`
orders versions by id as the listing's sort does, and `OrderedIds` says whether ids are allotted
in publishing order (the id is a timestamp and random bytes, so hosts with skewed clocks may
allot them out of order).

| Run | Instance | What it shows |
|---|---|---|
| `gather`, scene "publish" | 2 gathers, 3 versions, every fault but the resent flip, `Delay + Stall + Skew < TTL` | the current version is whole, publishers exclude one another, the atomic publish is implemented |
| `publish_fence` | 2 gathers, 2 versions, every fault, `Stall > TTL`, fair | a gather that a later holder has beaten never moves the pointer; a dead holder's lease becomes takeable; each publish ends |
| `publish_resent_flip` | 2 gathers, 2 versions, resent puts only | a finding, below |

Two gathers are enough for a stale holder and its successor; three versions are needed for one
superseded, one current and one staged.

### GatherRunner, MCGatherRunner, GatherRunnerProofs

`GatherRunner` models the hosts' gather runners. Per call of `start`: `call` (where the caller
is), `at` (its host), `of` (its corpus), `spec` (where its job is: none, queued, and the steps of
`_run_one`), `want` and the like. Per host: `jobs` (the registry), watches, events, tokens, the
pool and the heartbeat. Shared: leases, slots and status records. Every critical section under
`_registry_lock` is one action; between two of them anything may happen.

Abstractions: the queue's order is left out (any queued spec may be taken next), which only adds
behaviours. Publishing is one step of `Finish`; its own steps are `CloudPublish`. The record and
the lease that `get_gather_status` reads are read at once. A heartbeat's snapshot of the
watches is taken when each watch is renewed. The status file kept on the local disk, and the
listings read from it, are left out. `Workers` bounds the pool and `QueueMax` the backlog as in the
code; the calls of `start` and `request_stop` in a run are bounded by the sets `Gather` and `Stopper`.

| Run | Instance | What it shows |
|---|---|---|
| `runner_one_host` | 1 host, 1 corpus, 3 starts, 1 stop, 2 workers, lapses, errors, a crash | a restart during the old job's cleanup puts no two workers on the corpus and loses no lease (`CleanupApart`) |
| `runner_fleet` | 2 hosts, 2 corpora, 2 starts, 1 stop, one fleet slot, a queue of one, lapses, errors, crashes | one gather of a corpus in the fleet, and no more gathers at work than slots, but for one that has outrun its lease or slot (`FleetBounds`); each gather's record moves forward, also after its lease was lost or a stop came, and who writes a corpus's record holds its lease or has outrun it (`RecordTrue`) |
| `runner_lost_lease` | 2 hosts, 1 corpus, a lapse | a finding, below |
| `runner_live` | 1 host, 2 starts, crash, errors, failing thread starts, fair | no corpus stays registered, or reported in flight, for ever |

`runner_one_host` and `runner_fleet` are bounded (`BoundedSpec`): at most one gather of a behaviour goes on after its
lease or slot has lapsed, and a stop comes only where all gathers are of one corpus and no host has died. A lapse, a
takeover and the late notes of the gather that outran its lease are one such gather's; the stop needs no second corpus.
The theorems hold without these bounds.

`overrun` (history) holds the gathers whose lease or slot lapsed while they went on. `FleetBounds` and the half of
`RecordTrue` about the lease's holder leave them out, because the code does let them go on until they notice: a note
is written without a look at the watch, so `Report` has no guard on it. `RecordTrue` also leaves out the one
step in which a stop puts its flag into another host's record (`StopWrite`), which may be an older copy.

A slot is got or lost in one step here: `GatherSlots` is what is assumed of them, and `FleetRecords` implements it
request by request.

Three starts are needed for a restart during the cleanup of a job that itself was a restart.

### CloudRead, MCCopies, CloudReadProofs

`CloudRead` models the tool calls of one server that read one corpus while gathers anywhere publish
it: the resolve cache with its lifetime (`cache`), the pins (`pins`), the trees on local scratch
(`dirs`, `files`) and each call's locals (`call`). Publishing is the environment: `Publish` and `ReapBlob` are
steps of `AtomicPublish` (`Bucket!Publish`, `Bucket!Reap` of one blob), with the versions numbered as they become
current. So the two modules compose: `PublishRefines` proves that publishers keep that contract,
`ReadsWithinContract` that readers assume no more. A call with a pin is a
request under `_requires_corpus`, with its one rerun; a call without one is a single read under
`_with_current`. The sweep of scratch reads the pins, then the cache, then the directory, and unlinks
file by file, each in a step of its own.

A server that restarts keeps its scratch directory. The model's `cut` survives the restart, so
`StagedComplete` does not speak of a tree that a crash left half deleted: the code takes such a tree
for whole (hazards).

| Run | Instance | What it shows |
|---|---|---|
| `copies`, scene "read" | a pinned call and a single read, 3 versions, failing requests, restarts | what is staged is whole (`ReadInv`); no tool call fails because its version was reaped (`NeverLostToReap`) |
| `parts`, scene "resolve" | 2 pinned calls of 2 reads, 2 versions, restarts, cache lifetime 2, lookups of up to 1 tick | a call answers from one version and keeps its own pin (`PinsHold`); the cache is never older than its lifetime and one lookup (`CacheFreshEnough`) |

Three versions are needed for a call whose first and second version are both reaped.

### MailCache, MCMailCache, MailCacheProofs

`MailCache` models the mail of one list of one corpus on the hosts that gather it in turn. A message is
its epoch (UIDVALIDITY) and UID. Per host: `marker` (`.uidvalidity`), `verified`
(`.verified-uidvalidity`) and `disk` (the files of the main unit and of each epoch's archive). In the
store: `index` and `chunks` of each unit. `gather` is the running gather: its stage and locals. The lease
lets one gather run at a time (`CloudPublish`). An action is one request, one section of local file
operations, or one answer of the mail server; the files of a renumbered folder move one at a time. A
gather may end after any step (`Stop`); a host may lose its disk.

Left out: the other caches that the same module carries (`FleetRecords` has the identity maps), a server
that reports no UIDVALIDITY, corrupt chunks and indexes, and the removal of the local cache file by file
under `--clear-cache`. The chunks of a cleared unit, which no index names any more, go in one step.

| Run | Instance | What it shows |
|---|---|---|
| `mail_cache` | 2 hosts, 3 UIDs in 2 chunks, one renumbering, 3 gathers, `IMAP_RETRIES` = 1, every fault | stored mail stays stored unless cleared (`StoredMailStays`); an index names only what is there and epochs never mix (`MailInv`); threads are rebuilt from all stored mail, but for one case, below (`ThreadsNearlyWhole`) |

Three gathers are needed for one host to store mail, another to carry it over the renumbering and the
first to come back; two UIDs in one chunk for a chunk of which a host holds a part.

### IndexBuild, MCIndexBuild, IndexBuildProofs

`IndexBuild` models the embedding index of one corpus on one host. `disk` is what the gather has fetched (a
file is the set of texts it is cut into), `env` the embedding backend and the code's chunker, `live` and
`scratch` the two databases, `topics` the sidecar `topics.json`. A row is a text with its vector: what was
embedded, by which backend, and the hash under which the vector may be reused. Per build: the files still
to do, what was reused, what failed. A build that finds a scratch database discards it or goes on with it as
`seed_build_db` does; it embeds file by file and commits each; it promotes the scratch database and then the
topic map is made. `Faults` has a failing or short answer of the embedder, a chunk key that occurs twice, a
rate limit, a cancelled or killed gather, a failing topic map and a model that changes its dimension.

Left out: queries, the encoding of rows in SQLite, the numerical work, and the RFC index's own database.

| Run | Instance | What it shows |
|---|---|---|
| `index_build` | 2 files, 2 texts of which one may be split, 2 models, 2 dimensions, 2 changes, every fault but a failed probe | one index is of one model and dimension (`IndexInv`); rows are those of the present texts and are reused by honest hashes (`RowsTrue`); a failing embedder never empties a file (`StaysSearchable`); the topic map belongs to its index and catches up (`TopicsTrue`) |

Two texts with two files have a row reused across files; two changes have a build interrupted, the input
changed, and another build on what is left. The failed probe is left out of the instance because it breaks
`OneSpace` (below).

### GatherSlots, FleetRecords, MCFleetRecords, FleetRecordsProofs

`FleetRecords` models the two records that all gathers write by compare-and-swap: the slots that cap the
gathers in flight (`slots`), and an identity map (`store`, with a `file` on each host). A gather is admitted,
hydrates the host's map, adds what it looks up, saves the file, merges it into the store with up to `Tries`
puts, and gives its slot back; its heartbeat renews the slot beside it (`beat`). Each read and each put is a
step of its own; every copy carries the ticks its entries have left. A hydrate that fails leaves the host's file as it
is. A merge whose read or put fails ends there (`MergeFails`; `except Exception: pass`, `cache_sync.py:405-406`), with
the put applied or not, and the gather goes on to give its slot back; `failed` (history) marks it.

`GatherSlots` is the contract of the slots, for a table of entries (`taken`) of which some have not expired (`live`):
a holder comes in when the live entries and its own are within the cap, which sweeps the expired ones out; it renews
or gives up an entry, and entries expire. `FleetRecords` implements it (`ImplementsSlots`) with the entries of its
record; `GatherRunner` keeps it, with `slots` for both.

| Run | Instance | What it shows |
|---|---|---|
| `fleet_records` | 3 gathers on 2 hosts, `Cap` 2, `TTL` 2, heartbeats every tick, 3 tries, 1 key, crashes, failing requests | no more than `Cap` slots are given and no more than `Cap` gathers run (`FleetInv`); no release and no stored entry is undone (`NoUpdateLost`); what a gather looked up is stored if it is alone on its host and no request of its merge failed (`AdditionsPersisted`); the record is a table of slots (`ImplementsSlots`) |

Three gathers are needed for a third to ask while two hold slots; two hosts for a merge that neither sees the
other's file. The fault "lapse" (a heartbeat that comes late) is left out of the instance: with it a third
gather is admitted beside two that still run, which the code accepts.

### SwapDirs, SeedStore, MCCopies, SeedStoreProofs

`SwapDirs` models `swap_dirs`: a batch of directories, each moved aside and replaced, rename by rename, with the
undoing in reverse when a rename fails, and a death between any two steps. `SeedStore` EXTENDS it: its client's
install swaps the index directory and the workspace in one batch. Beside the client runs the store's publisher:
members, bundles, manifests, prune and index, each file a step; a bundle is named by its version (the gather's
time) and rebuilt ones have another digest (a new build).

| Run | Instance | What it shows |
|---|---|---|
| `copies`, scene "seed" | 1 client, 2 corpora, 3 gathers, 2 builds of a version, 2 runs of the publisher, every fault | a batch lands or is undone (`AllOrNothing`), nothing is lost before it lands (`NothingLost`); between runs the index lists only what can be installed (`IndexInstallable`); an install that succeeds is the tree its manifest names (`InstalledAsPublished`); a new workspace never stands beside the old index (`IndexFirst`) |

A failing request, or the staging of the index, makes the client go on without a seed; a bundle that cannot be
unpacked fails the gather (`SeedFails`). An index that a dead publisher left may name what is not there: a client that
follows it installs a whole tree or nothing (`InstalledAsPublished`), but `IndexInstallable` does not speak of it.

Three gathers give an old, a current and a newer version; two builds a bundle replaced between a client's
manifest and its download; two runs one that dies and one that continues. The scene has one bound more: a client is
killed in the middle of a swap only between two runs of the publisher, who reads nothing of what is swapped.

### LiveCache (proofs: PartsProofs)

`LiveCache` models the live lookups of several processes of a machine: each process's `memory`, the file on
`disk` that they share under a lock, the slots of the host (`inflight`) and each lookup's locals. A lookup
reads memory, then disk, then takes a slot and asks; a failure falls back on an old answer. A body is named by the
time the server read it, so that what a client is told of its age can be compared with the truth.

Scene "live" of `parts`: 3 lookups, 2 at a time, in 2 processes, 2 documents, a lifetime of 2 ticks, 1 slot; failing
requests and disks, processes that end. It shows `AnswersTrue`, `LiveInv` (every slot comes back) and
`NotClobbered`.

### HttpStore, GatherChild, MCGather (proofs: PartsProofs)

`HttpStore` models the store of validated responses that the gathers of a machine share: the index of ETags
(`stored`), the body files (`body`), and each process's copy of the index, which it writes back as a whole when it
ends, after the bodies and before the removals. `GatherChild` EXTENDS it with the life of those processes: the
server's worker that spawns one, pumps its pipe, kills it on a stop, waits for it and takes its exit code for
the outcome, and the server's exit. What the process does in between is `HttpStore`'s. An answer that is not an
object returns nothing, also when there is a cached body.

The exit has the steps of `_reap_children`: it copies the registry (`ExitBegins`), terminates the processes of the
copy one by one (`ReapNext`) and is over (`ExitEnds`); the workers, which are daemon threads, go on meanwhile. A process
that does not die within the second wait of `_terminate_child` is left to itself (`doomed`) and may still do anything
until the kill takes effect.

| Run | Instance | What it shows |
|---|---|---|
| `gather`, scene "process" | 2 child processes in 2 spawns, 1 document with 2 ETags that changes once, 1 request each, every fault but an orderly exit (kills that take effect or not, a stop, a full disk, an unreadable body, a server that dies) | no worker returns before its process has ended, only a whole gather is reported as one (`ChildInv`); no response is stale or empty (`ResponsesTrue`) |
| `gather`, scene "exit" | the same with orderly exits, over a store that is empty at first and a document that stays as it is | an exit ends what it listed (`ChildInv`) |

Two spawns have two processes at once, or a second one of a gather. With one document there is nothing to evict; the eviction is in the model and not in the instance.

### DraftSources (proofs: PartsProofs)

`DraftSources` models which drafts a subscription corpus keeps: what the user named and what was mentioned
(`gather.json`), what an author wrote and what is new within the window (asked for at every gather), and the prune
of the rest. `Preflight` reads the list of mentioned drafts; a gather from the command line does so before it has
the lease (`PreflightEarly`). An outage is an answer that is a subset of the true one.

Scene "drafts" of `parts`: 3 gathers, 2 at a time, 3 drafts, one of them named and by the author, one that mail
may mention; outages, crashes, early reads. It shows `ChosenStay`.

### MailThreads (proofs: PartsProofs)

`MailThreads` translates `build_threads` into functions of the archive: the parent of each message (`ReplyTo`), what a
root leads to (`Subtree`, the least set that has it and is closed under replies: the result of the walk that meets no
message twice), the roots, and the loop that places them oldest first (`Merging[n]`: what is left, `parent_id` and the
last date of each cluster after `n` turns; `Near` is `_mergeable_cluster`), then the subtrees collected (`Threads`). The only state is the archive, which grows by any message; every
archive within the bounds is a state. Scene "threads" of `parts`: every archive of up to 3 messages with dates 1, 2
or none, one reference each, replies, other subjects and blank ones, a window of 0 ticks. It shows `ThreadsTrue`.
Three messages have a reply, a reply without a parent and a circle; a window of 0 is enough to have a message within
it of a conversation's last message and not of its first.

### ProbeSweep, StdioWriter (proofs: PartsProofs)

`ProbeSweep` models `_freshness_sweep`: probes on threads, the shared sweep, the remembered failure and the lock that
a probe only tries. Scene "probes": 4 probes, 2 at a time, clock up to 4, lifetimes 2 and 1. It shows `ProbeInv`.
`StdioWriter` models the answers on stdio: the bounded queue, the daemon thread, the parked put, the sentinel. Scene
"stdio": 5 answers, a queue of 2, a pipe that may break. It shows `WriterInv`: order, no gap, and at most one answer
lost by a session that ends in order.

### MCParts

`MCParts` puts the small modules above, and a second instance of `CloudRead`, into one run: the first state picks the
scene, and only that part moves. The parts share no variable; they share model values (calls are lookups and
gathers, processes are probes), so that one symmetry group serves all of them. Modules
whose runs need fairness, the deadlock check or a symmetry group of their own have runs of their own.

| Run | What it shows |
|---|---|
| `parts` | `PinsHold`, `CacheFreshEnough`, `LiveInv`, `AnswersTrue`, `ThreadsTrue`, `ProbeInv`, `WriterInv`, `NotClobbered`, `ChosenStay` |

## Findings

Two runs show the code at odds with what it says of itself; each finding in `PROJECT.json` quotes the line.

- `publish_resent_flip` (`CurrentComplete`): the S3 client resends a pointer flip whose answer was lost; the second
  answer is a refusal, and `publish` deletes the version the pointer now names.
- `runner_lost_lease` (`LostStaysLocal`): a gather that its watch has told of a lost lease still writes notes, and each
  puts its record over the one of the gather that holds the corpus now ("records stay local from then on",
  `lifecycle.py:512`). The runner's recorder is never fenced.

### What the checks found besides

These were met in runs of the same modules. They are kept as properties that no run of `PROJECT.json` checks, as
assumptions of theorems, or as faults and cases that a run or a property leaves out.

Stated as a property that the repository promises, and refuted by TLC:

- `GatherRunner!RolledBackIsOver`: when a worker thread cannot be started, the spec is already queued ("no worker
  will ever run this spec", `runner.py:374`), and a worker that did start runs it after `start` has rolled back.
- `GatherChild!NoneOutlivesTheExit`: a process registered after the exit has copied the registry outlives the server
  ("the parent reaps it on exit", `child.py:77`).
- `SeedStore!SeedFallsThrough`: an error of the file system while a seed is unpacked fails the gather ("Any failure
  logs and falls through to a normal gather", `sequencer.py:455`).
- `MailCache!ThreadsWhole`: a host that missed a renumbering does not restore the archive of the epoch
  its cache is still in ("would only duplicate it", `cache_sync.py:606`), although the archive may hold more of it, and
  rebuilds the threads without the rest. The next gather of that host has them back.
- `DraftSources!MentionedAlwaysStay`: a mentioned draft is pruned, and may be forgotten, by a gather from the
  command line that read the list before another added to it ("a draft stays once added", `sequencer.py:256`).
- `DraftSources!AuthoredStay`: an author's drafts are pruned when the Datatracker answers in part ("authored drafts
  ... retained", `sequencer.py:211`).
- `ProbeSweep!ErrorOnlyWithoutSweep`: a probe that looked before the first sweep succeeded and then fails itself
  raises, although there is a sweep to serve ("or re-raise the error when there is none", `serve.py:117`).

Stated as a property that it does not clearly promise, and refuted by TLC:

- `CloudPublish!PreviousKept`: the blobs of a gather that died while uploading rank above the version before
  the current one, which the next publish deletes instead.
- `CloudRead!NoTornRead`: a call resolves a version and pins it in a later step; a sweep that read the pins in
  between deletes that version's tree under it, when another call has since cached a newer version.
- `GatherRunner!StopsItsOwn`: `request_stop` checks its token and then looks the event up by corpus; it may
  stop the corpus's next gather. `GatherRunner!HeartbeatRuns`: a heartbeat thread that cannot be started once
  is never started again.
- `IndexBuild!PartialRowsRetried`: a file whose write is refused half-way counts as done when its old content
  comes back, with the rows of the refused write.
- `FleetRecords!LocalAdditionsPersisted`: two gathers of one host save the same map file; one that hydrates or saves
  between the other's save and its merge loses the other's additions.
- `MailThreads!ThreadsStay`, `NothingDropped`: a late reply to one conversation, or a later conversation, can draw
  a message with a known thread to another; a message without a subject that replies to nothing known is in no
  thread, nor are its replies, nor are messages that reply to each other in a circle.

Left out of a run or assumed by a theorem:

- A worker thread that cannot be started (`RolledBackIsOver`): the queued spec may run beside another gather of the
  corpus. The runs of the runner's safety properties leave the fault out and the theorems assume that threads start,
  but for `TypeCorrect` and `SlotsWithinContract`. The rollback also frees the registry entry before the lease (`runner.py:377`), so that the
  lease of a start admitted in between is released.
- A gather whose lease lapsed without its knowledge goes on beside its successor; only its flip is fenced. Its
  persisting of the mail cache (`cache_sync.py:756`) is not, nor are its notes (`runner_lost_lease`). The bounds of
  `GatherRunner` leave such gathers out (`overrun`).
- With `Stall` no less than `TTL` a reap may run beside the next publish, and delete what that has staged.
- `index_build` leaves a failing probe of the embedder out: when the dimension has changed and the probe fails, the
  build takes the old dimension for granted and mixes vectors.
- `fleet_records` leaves late heartbeats out: gathers over the cap run until theirs end. The theorem about it also
  assumes that no renewal loses every one of its tries (`Outraced`). With a fourth gather, TLC finds one that does:
  its slot expires while it runs, and another gather is admitted, beyond the cap
  that docs/storage.md:78 states. In the code several heartbeats in a row must each lose eight races.
- `AdditionsPersisted` needs no more gathers than tries: each lost race is another's success, and a merge that has
  lost its last try is not repeated.
- A merge whose read or put fails drops its additions silently; they stay in the host's file, which the next hydrate
  replaces. `AdditionsPersisted` leaves that gather out (`failed`).
- `request_stop` on another host writes back the record it read, with the stop in it (`StopWrite`). It may do so after
  that gather ended, or after a crash, a lapse and another gather's start: the record then goes back to a gather that
  no longer holds the corpus. `RecordTrue` leaves that step out; the stop is in `runner_fleet`.
- `IndexInstallable` leaves out what a publisher tore by dying. A corpus whose bundle was pruned by a run that died
  before the index was written, and that is added again with `--no-gather`, is taken for up to date without a bundle.
- `ReapedAtExit` leaves out a process started or registered after the exit's list (`NoneOutlivesTheExit`), one that has been
  killed and does not die, and every process of a server that is killed.
- `ThreadsNearlyWhole`, `ChosenStay` and `ProbeInv` leave out what refutes `ThreadsWhole`, `MentionedAlwaysStay`
  and `ErrorOnlyWithoutSweep`.
- `IndexedIsThere` holds while one process at a time uses the store: processes that overlap overwrite the index
  wholesale, and may drop each other's entries.

Read in the code while modelling, and not stated:

- `--clear-cache` that dies while it removes the local mail may leave messages without their epoch marker
  (`lifecycle.py:339`).
- A file that loses all its chunks keeps its rows in the index; a new model with a failing embedder promotes an
  emptied index; a corpus that shrinks below the number of documents a topic map needs keeps its old map.
- An install does not check the manifest's own compatibility tuple; an index directory stays when the new version
  carries no index files; `--refresh-base` may replace a fresher copy; a bundle written again for the same version has
  another digest ("Bundles are immutable", docs/seed-store.md).
- "At most once per lifetime" of live lookups holds only for lookups that do not overlap; with overlapping requests
  an older body may overwrite a newer one in memory; the governor's slots are per process, and gathers run in
  processes of their own.
- A stop is not looked for while the worker waits for a process whose pipe is closed (`pipeline.py:197`).
- A refresh of the seed catalogue whose thread cannot be started is never tried again in that process
  (`seed/catalog.py:142`).

## Fairness

`CloudPublish!FairSpec` assumes weak fairness of time and of each gather's own next step: a
process that is alive runs, and its requests are answered, failed or not (botocore gives every
request a timeout). Nothing is assumed of crashes, lapses or the choice of the next gather.
`GatherRunner!FairSpec` assumes weak fairness only: of each caller of `start`, of each worker that can
take a queued job, of each step of a job (a pipeline ends, by itself or killed), and of the lapse of
leases and slots nobody renews. No fairness is given to clients: nobody has to call `start` or
`request_stop`. The other modules state safety only: a
reader, a build or a lookup that nobody waits for promises no progress beyond the timeouts of its requests.

## What is proved

The constants are those the modules' `ConstantsAssumption` (`SwapAssumption`, `SeedAssumption`) describe, of any
size.

- `CloudPublishProofs!TypeCorrect`, `ZombiesNeverOverwrite`: without any timing assumption and under
  every fault. The inductive invariant is `FenceInv`: a gather past its holder check that has since been
  beaten read a pointer that is not the current one (version ids are never used twice), so its
  conditional flip fails.
- `CurrentAlwaysComplete`, `PublishersExclude`, `PublishRefines`: under `PromptPublish`
  (`Delay + Stall + Skew < TTL`) and, but for `PublishersExclude`, `HonestFlip` (the store does not refuse a flip
  it has applied). The inductive invariant adds to `FenceInv` that a confirmed gather's lease
  outlives the end of its reap (`LeaseOutlives`), that what a lease's holder has staged is still there
  (`StagedWhole`) and that what a gather is about to delete is not current (`DeletesSafely`).
- `GatherRunnerProofs!TypeCorrect` under every fault; `OneGatherPerCorpusHolds` and
  `LeaseNotPulledHolds`, together `CleanupStaysApart`, when threads can be started (`"spawn" \notin Faults`). The inductive invariant
  `IInv` says that each call that has passed its admission, and whose entry has not been dropped, is the
  only owner of its corpus's registry entry on its host (`Ownership`), and that calls and jobs have a
  place (`Placed`).
- `OneGatherInFleetHolds`, `RecordTrueHolds`: also when threads can be started, and whatever lapses, fails, crashes or
  is stopped. `HeldInv` says that a job that goes on and has not outrun its lease or slot is on a live host which has a
  live lease of its corpus: `Ownership` is what keeps its own host from releasing that lease. `RecordInv` adds how far
  the record of a corpus may be with the gather that has it, so that the queued record of `start` cannot follow the
  worker's; it holds of overrun gathers too, whose records may be taken over but not turned back.
- `WorkWithinCapHolds`, with `OneGatherInFleetHolds` `FleetBoundsHold`: under the same assumption. `Slotted` says that a job at work has a slot, unless that lapsed under it,
  and with `Ownership` no two jobs have the same one, so that they are no more than the slots (an injection); it is
  kept because only a job itself gives its slot back and a slot lapses only when its host is dead or has no such job.
  `SlotsWithinContract`, under every fault: the slots step as `GatherSlots` lets them.
- `CloudReadProofs`: `StagedTreesWhole`, `RequestsKeepTheirPin`, `CacheBounded`, `ReapLosesNoCall`, for any calls, reads,
  lifetimes and faults, in a bucket of which only `AtomicPublish` is assumed (`ReadsWithinContract`): beside any
  publishers that are `PromptPublish` and have an `HonestFlip`. The inductive invariant `ReadIInv` adds that the current
  version is whole in the bucket (`CurrentWhole`), that a version is counted once for each call that has pinned it (`PinsExact`,
  an equality of cardinalities), and of a call which missed a blob that its version is no longer current
  (`CallHolds`).
- `MailCacheProofs`: `MailSafe`, `MailStays`, under every fault. `EpochsApart` is not inductive: a gather that died
  leaves chunks that no index names, and a later one may index them. `MailIInv` therefore says of a chunk which the
  index uses in part that all of it is of the index's epoch (`PureMain`), and of a gather about to replace an epoch
  that the old mail has come to its disk, the archive's chunks and the archive's index by then (`Rescued`).
- `ThreadsHaveTheMail` (`ThreadsNearlyWhole`): `HydrateHolds` says of a gather that restores, and whose fetches have gone
  well, that each indexed message is on its disk, in a chunk it has yet to fetch or in a unit it has yet to list; and
  of one past that, that all of them are on its disk. From then on the gather moves mail from unit to unit and takes
  none off its disk (`DiskKeeps`). `HydrateHolds` is inductive relative to `MailIInv`.
- `FleetRecordsProofs`: `FleetTypes`, `SlotsStayWithinCap`, `UpdatesNeverLost` without any assumption on timing or faults:
  compare-and-swap alone keeps them. `AdditionsReachTheStore` by counting: a merge with `k` tries left has seen
  the puts of `Tries - k` other gathers (`TriesInv`), and each merges once; a merge of which a request failed is left out,
  whatever failed in the others' is not. `SlotsAreATable`: the record implements
  `GatherSlots`, in which admission counts the live entries of the record that the put replaces; that this is the
  record the gather has read is what compare-and-swap gives (`SlotsInv`). `GathersStayWithinCap` when a slot outlives a
  heartbeat and two updates (`Timely`), with heartbeats in time and no renewal that loses all its tries; `HeldInv` says of
  each gather that runs that its slot outlives the next renewal.
- `IndexBuildProofs`: `RowsStayTrue`, `TopicsStayTrue`, `FilesStaySearchable` under every fault. `IndexIInv` says of
  both databases that a stamp names the content its rows are of, but for files whose write was cut (`StampsTrue`), that a
  scratch database left behind is the present build's or is discarded, and of a build what is planned, done or torn
  (`BuildInv`). `OneVectorSpace` adds `WidthInv` and assumes that probes do not fail, for the reason given above.
- `SeedStoreProofs!SwapSafety`: for a batch of any length and any trees, `AllOrNothing` and `NothingLost`, under every
  fault. The inductive invariant `SwapInv` says of each destination how far the call is with it: those before
  `swap.at` are swapped, those after it untouched on the way forward; on the way back they are undone, or named in
  the exception. Neither property is inductive: what is undone has to be known to be still aside.
- `SeedSwaps`: `SeedSpec` implements `SwapSpec`; a step of the publisher is a stutter, a step of the
  client is a swap's or a stutter. `SeedInstallsSafely` follows from it and `SwapSafety` without another invariant.
  `SeedTypes` and `SeedInstalls` rest on `SeedInv`, which adds to the types that the publisher has a version in hand while it
  writes (`Writing`) and that the call a client waits for swaps in the whole tree of its manifest (`Installing`).
- `ListedIsInstallable` rests on `ListedInv`: what a run carries forward or enters is of a member
  and installable, but for the member it is rewriting and those it tore. `IndexGoesFirst` rests on `OrderInv`: a
  batch of two that is being undone has no new workspace in place (of a longer batch it would not be so).

- `PartsProofs`, for the small modules, each for any number of its actors and any value of its bounds:
  - `SlotsComeBack`, `LiveAnswersAreTrue`, `FiledAnswersStay` (`LiveCache`). `LiveIInv` counts the slots of each host
    (`SlotsExact`, an equality of cardinalities) and says of every copy in memory, on disk or in a lookup's hands that
    it is as old as it claims (`CachesHold`, `LookupHolds`). `FiledAnswersStay` is an action property from the same
    invariant: the writer under the lock has read what it replaces.
  - `ResponsesAreTrue` (`HttpStore`, with the processes of `GatherChild`). `HttpIInv` says of each process what its copy
    of the index, its bodies and its removals may hold at each of its steps (`Sound`), and what the shared index names
    while processes do not overlap (`Alone`). `ChildrenEndInOrder` (`GatherChild`) adds to it what a worker knows of
    its process, and what an exit under way knows of those it has listed (`DriveHolds`).
  - `ChosenDraftsStay` (`DraftSources`): `DraftHolds` says that who is at work has the lease, and that the named drafts it
    has read, and the mentioned ones unless its list was read too early (`behind`), are still those of `gather.json`.
  - `SweepIsShared` (`ProbeSweep`): `ProbeHolds` says of a probe what it knows of the last sweep, by its stage.
  - `ThreadsHoldTheMail` (`ThreadsTrue`): an induction over the turns of the loop (`MergingHolds`), written as the absence of
    a least counterexample, with `MergeHolds` for invariant: who has another parent than by replies has joined the
    cluster of a root that comes before it, as a reply and in time for one of that cluster's messages; a cluster lasts to
    the date of one of its messages; those placed come before those left, of which each turn takes one. In the end, what
    is collected from a cluster's root is what its roots lead to (`CollectedIsKin`), and roots lead to disjoint sets
    (`SubtreesApart`).
  - `AnswersReachTheClient` (`StdioWriter`). `Accounted`, the equation of what is written, held, queued and parked with
    what was sent, is part of `WriterIInv` in the form of a position of the sentinel (`Placed`), which a writer that
    runs has in the queue or has still to get.

Each invariant was checked by TLC before it was proved. The type invariants of `CloudPublish`, `GatherRunner` and
`SeedStore` are proved and not run.

What is only model-checked:

- liveness: `DeadHolderYields`, `PublishEnds`, `JobsEnd`, `RecordSettles`, and with them what fairness is for. The prover
  has no rules for `ENABLED`;
- that the two runs above find their violations, and the other refutations: a theorem about these modules does not say that
  its assumptions are needed. Each was put there because TLC found a counterexample without it.

Every other property of a passing run is stated by a theorem.

## Plan

In order of importance:

1. The seed catalogue's single flight (`seed/catalog.py`); the freshness debounce and its sentinel.
2. The routing table's merge beside the identity maps'.
3. Several documents in `HttpStore`'s instance, for its eviction (the theorems hold for any number).

## Not modelled

Parsing and rendering of documents, digests, people, the RFC index's assembly, numerical work of the embeddings, the
command line, exporters, logging and configuration: sequential conversions of data, which the
repository's own tests check. The regular-expression scan is one parent that waits for one child with a deadline.
Of `HttpStore`: the migration of the old single file, an index written by another version, and the per-corpus store of
the cloud backend. `PROJECT.json` lists each part and the reason.
