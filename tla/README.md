# Feather-Mesh verification project

TLA+ models of the parts of Feather-Mesh in which several processes, threads,
files or failures meet, the TLC configurations that check them on small
instances, and TLAPS proofs, for every value of the constants, of every safety
property that holds in the runs. `PROJECT.json` lists components, runs, mutants, source lines
of every definition, hazards and theorems.

    tlc -workers 2 -config PeerPublication_review.cfg MCPeerPublication
    tlapm PeerAccessProofs.tla           (and every other *Proofs.tla)

## The system

Feather-Mesh lets projects publish data products to each other from their own
file systems, and has a hosted demonstration around it.

**Rust workspace (`feather-mesh/`).** `mesh_core` holds the services,
`mesh_cli` and `mesh_tui` call them, `mesh_agent` is the assistant in the TUI.

| component | state | operations | hard parts |
|---|---|---|---|
| publication (`peer_access.rs`, `interactive_operations.rs`) | `serving/manifest.json`, its lock file, the asset files | `publish`, `withdraw`, prepare / execute of reviewed ones | several processes, no daemon: a lock file, a re-read under it and a rename; files change while they are read; crashes |
| resolution, listing, refresh (`peer_access.rs`, `catalog_service.rs`) | peers' manifests and paths, the cache, page cursors | `resolve`, `refresh`, `list_registered_with_coverage`, `query_catalog` | several files read one after the other while peers change them; stale cache; re-pointed paths |
| registry (`registry_service.rs`, `db.rs`, `repositories/`) | SQLite tables, output files and receipts | open and migrate, `serve`, `register_*`, `show`, `search`, `consume` | several processes on one database; partial failures; copies without a temporary |
| staging (`peer_access.rs`) | output, receipt, temporaries, backup | `stage`, `reconcile` | four renames without a lock, rollback, crash in between |
| operation journal (`operation_journal.rs`) | `<id>.pending`, `.<id>.tmp`, `<id>.json` | intent, outcome, pending, prune | crash between effect and record, sessions sharing the directory |
| TUI (`mesh_tui/src/lib.rs`) | pending job, review, session number | loop, keys, commands, workers, assistant messages | reviews arriving between draw and key, quit during a mutation |
| research capture (`capture.rs`) | bounded channel, its thread, readiness, gap flag | `emit`, `submit`, `ready`, `finish` | a full channel at an approval, lost acknowledgements, leaving with events outstanding |
| guided tour (`guide.rs`) | lesson index, queue of observations, mode | start, stop, skip, restart, apply | results of background jobs credited to lessons, in the order of a queue that retries |
| assistant (`mesh_agent`) | history, budget, handles, consents, pending review | turns, tool calls, stop, review outcome | cancelled and unpriced answers, trimming, the harness moving between threads |
| provider stream (`provider.rs`) | parser and partial tool calls | push, finish, assemble | chunks cut anywhere, fragments out of order |
| STAC, CLI | none | export, printing | sequential |

**Hosted demonstration (`web_demo/`, Go).**

| component | state | operations | hard parts |
|---|---|---|---|
| run ledger (`budget/run.go`, `drain.go`) | SQLite `requests`, `run_allocations` | reserve, dispatch, unknown, settle, open, pause, checkpoint | crashes and retries around money |
| broker (`broker/`) | fair queue, in-flight handlers, drain flag | completions, cancel, drain, shutdown | cancellation racing a grant, authority going stale in the queue, drain racing settlement |
| project ledger (`budget/project.go`) | encrypted snapshot, audit log | allocate, reconcile, mark unknown, ceiling | two files committed one after the other |
| lifecycle (`lifecycle/`) | workspaces, jobs, leases | provision, start, reset, recover | jobs interrupted at every step |
| pipeline (`pipeline/`) | runs, versions, retention | fetch, promote, withdraw, prune | promotion and retention of versions in use |
| collector (`collector/`) | events, hash chain, archives | record, seal, verify | torn appends, limits |
| control plane, gateway, reconciler | accounts, grants, sessions | grant, revoke, reconcile | revocation racing use |
| terminal proxy, auth, `infra/` | connections; keys; cloud | relay, verify, deploy | I/O |

**Interaction.** The TUI runs core operations in worker threads and shows what
they send back; it journals an intent before and an outcome after, and reports
approvals to the collector. The assistant runs in a thread of its own, proposes
operations that the TUI reviews, and is told their outcomes; the guided tour
turns results into requests to it. The core
processes interact only through files. Workspaces reach the broker over a Unix
socket; the broker asks the control plane for authority before and after its
queue, the run ledger for money, the controller for an activity lease and the
provider for the completion.

## Modules

* `PublicationLog`: what the manifest promises, an append-only log. A version
  is published once, may be withdrawn once, and every change raises the
  revision by one.
* `PeerPublication`: the code that keeps the promise. A process's `pc` follows
  `publish_reviewed` / `withdraw_with_precondition`: `inspect` (size and
  format), `digest` (second pass), `lock`, `locked` (manifest read under the
  lock), `recheck` (the size again), `rehash` (the digest again), `write`,
  `unlock`, `done`; `review` is an operation that waits for its confirmation.
  `touched` tells that the file was rewritten since the last look at its size,
  so that a hash may read the old bytes, the new ones or a mixture. `revision`/`recs` are the manifest file, `lock`
  the lock file (`Orphan`: nobody is left to remove it), `asset` the bytes of
  each version's file. Rename errors may or may not have applied. `StatMayFail`
  lets `Path::exists()` answer false for an existing manifest.
* `StageWorkflow`: `stage()` by its file operations (`tmp`, `tmpRcpt`, `bak`,
  `out`, `rcpt`), reviewed or direct, while the provider rewrites the asset and
  changes its manifest; `Reconcile` is the follow-up after an unclear outcome.
* `OperationJournal`: intent, effect, outcome and removal for operations whose
  sessions share one journal directory; a file is absent, torn or whole.
* `Capture`: the channel to the capture thread (`channel`), the event it holds
  (`hand`), `health`, and the gap flag (`lost`); `recorded` is what the
  collector, which is external, has.
* `TuiSession`: extends `Capture`. One turn of the event loop per cycle of
  `phase` (core mailbox, assistant, exit tests, draw, key), one worker, an
  assistant that may propose an operation at any time; `drawn` is the review
  that the screen shows. `InitProject` is the one mutation without a review,
  `TerminalFails` the exit by an error of `draw`, `poll` or `read`. Every command refuses
  while a job is pending, so a result never meets another session; the session
  number checked in `poll_core` is a second protection that no reachable state
  needs.
* `GuidedTour`: the curriculum as the sequence of events its steps expect, the
  guide's state, and every key, command, job and assistant answer that reports
  to it. `happened` is history: the reviews and outcomes of this tour. A turn may
  be refused by `run_mode` before its text is in the conversation (`Ask`).
* `RouterStream`: the event-stream parser, the assembly of tool calls and the
  wire names of tools as folds over symbols, frames and fragments, with what
  they should compute. `StreamAssumption` is what the code's types give (an index
  is a natural number, argument text a sequence) and that `[DONE]` is a frame of
  its own.
* `AssistantSession`: extends `RouterStream` with the harness's turn (`pc`:
  `check` before a request, `stream`, `tools`, `done`), its tools, and the
  application's side: taking the completed run, the review, the job, stop, and a
  worker that is lost with its harness. `billed` is the provider's side of the
  bill, `Capped` whether the profile caps prices; only then is there a reserve.
* `PeerCatalog`: a consumer's calls, each a sequence of file reads, while
  providers change manifests (steps of `PublicationLog`) and paths move. Its
  specification is `CatalogSpec`, so that one proof module can extend it and
  `PeerPublication`.
* `RegistryStore`: processes on one SQLite file. A transaction works on `snap`
  and commits it, and reports in a step of its own; `writer` is SQLite's write
  lock. A path has the place it stands for (`Anchor`) and the product id
  `parse_product_ref` takes it for, if any (`Number`). `consume` goes by its file
  operations on `files`: remove, create, list, one entry after the other
  (`todo`), receipt; `disturbed` holds the consumes whose source or output
  another one changed.
* `RunLedger`: the transactions of the run ledger as operators on its tables.
* `BrokerServer`: extends `RunLedger` with the handlers, the queue, drain and
  shutdown, and the life of the process. A call is one POST; a retry is another
  call with the same key. The provider is external: it charges an amount once
  it has the request and may or may not report it. A context may end at any
  time, so leaving the queue and failing later steps is always possible.

`<Module>Proofs` holds the theorems about `<Module>`, for `StageWorkflow`,
`OperationJournal`, `TuiSession`, `GuidedTour`, `AssistantSession` (with
`RouterStream`), `RegistryStore` and `BrokerServer` (with `RunLedger`);
`PeerAccessProofs` those about `PeerPublication` and `PeerCatalog`; see Proofs.
MC modules give the constants their values. A definition preceded by a
"Mutant" comment is a wrong variant of the definition that follows it;
`PROJECT.json` names the property that detects it.

## Runs

| run | result | bounds |
|---|---|---|
| `publication_review` | outcomes are truthful, size and digest agree unless the file changes between the two passes of the recheck, reviewed operations apply to what was reviewed | 2 processes, 1 version, 2 contents of different size: what is needed for a file to change between two passes |
| `publication_log` | no applied change is lost; the manifest implements `PublicationLog` | 2 processes, 2 versions, a manifest that is full after one: two writers from one snapshot would lose a record |
| `publication_live` | every started call returns, also behind an orphaned lock file | 2 processes, 1 version, failing stats allowed |
| `catalog_pages` | the pages of a query are one instant; nothing withdrawn or from another directory is resolved | 2 namespaces, 3 directories (so a path can be re-pointed), 3 versions, pages of 1, 2 revisions, 2 moves |
| `registry_safe` | a product is registered whole or not at all, and reported truthfully; racing serves create a team once; id, label and path show the same version, a numeric path excepted; a receipt follows a copy that equals the source | 3 processes (one registers, two consume), 2 spellings of a team, 2 labels, 2 places with a plain file or a directory of 2 entries each (what a copy can be cut between), a third path that reads as the number 2, lineage of one path, a database that is new, old or current |
| `stage_single` | the old output survives, outcomes and the follow-up are truthful | 2 operations, one at a time on the destination, 2 contents, 2 revisions |
| `journal_safe` | effects have an intent or a durable outcome; unknown outcomes are kept | 2 operations, nothing kept after pruning, 2 recoveries |
| `tui_safe` | apart from `:init` only approved operations run, once; a key answers the review on the screen, unless it shows none; their approvals are recorded or on their way; no mutation is abandoned but by a terminal error; quit completes | 2 operations, 2 sessions, a channel of 2 events |
| `guide_safe` | no review or outcome lesson passes without it; guided requests have no tools; the notice of its end stays pending until a turn takes it | steps 31 to 33 of the curriculum (commit a publication, resolve, open the review of a staging), a queue of 2 observations |
| `assistant_safe` | each harness keeps the budget although bills are lost; calls and results stay paired; a mutation has one holder; a stopped run offers nothing; streams are read whole | 3 turns, 2 calls a run, a request of 5 messages, price caps and a budget of one request; streams of up to 6 symbols cut anywhere and up to 4 frames |
| `broker_spend` | charges covered by the ledger, over-charges included, limits kept, a key sent at most once, drain receipts final | 3 calls of one account, two with one key; 2 days, one crash and restart, any drains and shutdowns |
| `broker_queue` | slots sound, authority fresh, every waiter served | 3 calls of 2 accounts, 1 slot, 1 revocation each |

Two of everything is enough for the races named: each involves one process
acting between two steps of another. `guide_safe` takes a window of the
curriculum because what the tour does depends only on the steps around the
current one; the window has lessons of both kinds, two consequential ones (an
outcome, an opened review) and an ordinary one between them.
The queue's limits (3, 2 and 64 in the
code) are constants; with 1 slot and 1 waiting call per account all its
branches are taken. With one version, `ReviewBinding` exercises the inventory
comparison; that the revision is compared as well needs two records and is
shown by the proof.

**Fairness.** `publication_live`: weak fairness of a started call's own steps,
errors excluded; the code's loop sleeps and retries until its deadline.
`tui_safe`: of the event loop, which has a tick, and of a started worker.
`broker_queue`: of a handler's steps once admitted; callers are not assumed to
leave and timeouts not to fire. Deadlock is not checked where operations are
finite in number and the system may come to rest.

## Proofs

Nearly every theorem is of the form `Spec => []P` or `Spec => [][A]_v`, where `P`
or `A` is the property a run checks (`BrokerInvariant` and `RegistryInvariant`
state the inductive invariant itself, `ManifestImplementsLog` a refinement). Each
holds for any sets of processes, operations, accounts,
paths and any bounds that satisfy the ASSUME of the component's module. In each
proof module `IInv` is the inductive invariant; TLC has checked it on the run of
the component. One lemma for `Init` and one for each action or group of actions
prove that it is inductive, and the theorems at the end of the module follow from
it. None of the properties is inductive by itself; what `IInv` adds is the
argument, and is given here.

**Publication** (`PeerAccessProofs`): `TypeCorrect` and `DigestMatchesSizeHolds`,
and under `~StatMayFail` `NoLostCommitHolds`, `OutcomeTruthfulHolds`,
`ReviewBindingHolds` and `ManifestImplementsLog`. The
premise is needed: a failed stat makes `read_or_empty_manifest` start from
revision 0 and the write that follows drops what was recorded. `IInv` adds, for
each process, what the lock gives it (`Own`): in the critical section the lock
file is its own; at `recheck` and `write` its snapshot is the current manifest
and, if reviewed, the reviewed revision and inventory; at `write` the version is
still free (or still active); an applied change is visible and implies that the
call is past its write. A step of one process keeps another's `Own` because it
leaves the other's variables alone and can change the manifest only while
holding the lock. Refinement and `ReviewBinding` follow because only
`WriteManifest` changes the manifest, from the state `Own` describes.
`DigestMatchesSize` needs no stat: `PassInv` says that after the size pass of the
recheck, as long as the file has not been rewritten since, its bytes have the
candidate's size, and after the hash pass the candidate's digest is theirs.

**Catalog** (`PeerAccessProofs`): `PagesHold` and `ResolveHolds`, about
`CatalogSpec`. The first needs that manifests only move on: a revision names one
set of records (`Older`). `CursorInv` says that what the pages so far hold of a
namespace is exactly what its manifest shows up to the cursor, unless its
revision has changed since (`Covers`); `CallInv` that what was there at the start
of a call, what the call has read and what is there now follow each other. A page
is returned only if the fingerprint is the cursor's, so then all of them are the
same manifests and the new page continues the old ones. That filtering and
sorting a listing give each kept item once and in order is shown of sequences in
general (`Lists`, `Kept`, `Sorted`). For `resolve`, `ResolveInv` relates where the
path led when the call began, where the manifest was taken from and how many
moves happened in between: a manifest from elsewhere takes one move, and a path
that is back where it was takes two, which is more than the second look at the
path is claimed to detect.

**Staging** (`StageWorkflowProofs`): `StageTypeCorrect` for any operations, and
`OldOutputHolds` and `StageOutcomeHolds` for operations one at a time on the
destination (`OneAtATime`, which the run assumes too). The premise is needed:
`stage()` takes no lock, and two of them take each other's files for their own.
`Alone` says that no two operations are between their first and last file
operation; `Fresh` that what an operation left in temporaries and backups is as
it wrote it; `Knows` what an operation at each point knows of output and receipt.

**Operation journal** (`OperationJournalProofs`): `JournalTypeCorrect`,
`IntentHolds`, `JournalTruthfulHolds` and `UnknownKept`. `Agrees` relates the
outcome file to what happened, `Own` the intent and outcome files of an operation
to the point its session has reached, also while the recovery of another session
works on the same files. The type invariants of this module and of `TuiSession`
are proved and not also run.

**TUI session and capture** (`TuiSessionProofs`): `TuiTypeCorrect`,
`MutationsAwaited`, `OnlyApproved`, `AnsweredHolds` and `ApprovalsKept`. `PlaceInv` says where an
operation can be (assistant, review, job, started) and that it is in one place;
`JobInv` and `Preparing` what the one pending job may be; `RecordInv` that an
approved operation's event is in the channel, in the thread's hand, recorded or
counted as lost, and `CapOK` that there was room for it. `ScreenInv` is about the screen: from a
draw to the next key the review is the one drawn, or none was drawn.

**Guided tour** (`GuidedTourProofs`): `LessonsEarnedHolds`,
`GuidedWithoutToolsHolds` and `ModeNoticeHolds`, for every stretch of the
curriculum and every queue length. `LessonInv` says that each passed lesson, each
queued observation and each tagged job is earned: its review or outcome happened
in this tour. `ModeInv` relates the guided flag, the pending notice and the
assistant's requests, refused ones included.

**Assistant** (`AssistantSessionProofs`): `BudgetHolds`, `OneHolderHolds`,
`HistoryPairedHolds`, `StoppedOffersNothingHolds` and `AnswersReadWholeHolds`.
`BudgetInv` says that what the harness counts is what was billed unless a bill is
unknown, and that a request is in flight only while none is and the count is below
the budget, under price caps by a whole reserve;
`HolderInv` says which thread has a proposed mutation;
`HistoryInv` that each tool result follows its call and which results are owed
(`Owed`, `Missing`), with room for them (`Room`). What trimming leaves is shown by
the least counterexample, since the library's induction cannot be used.

**Provider stream** (`AssistantSessionProofs`): `CutsHold`, `BatchesHold` and
`WireNamesOf`, from which `AnswersReadWholeHolds` follows, for streams of any
length over any symbols and frames. These are about folds: `FoldRuns` gives every
fold a run, the sequence of its intermediate values, and `Reaches` carries what a
step keeps along a run by the least counterexample. For the cuts, `Parallel`
relates a reader of the whole stream to one that starts in the middle of a line:
what the second keeps as the beginning of its line the first still has in its
part, until the next line feed makes them equal; the one step that differs is a
line feed whose CR is before the cut, which the property excepts. `HeldJoins`
and `DecodesRest` show the same of a character cut in two. For the batch,
`ReadUntil` says that after each frame the partial calls are those of the
fragments read so far: one id, one name and all the text at each index (`Told`);
`AscendingLists` that draining the map lists every index once.

**Registry** (`RegistryStoreProofs`): `AllOrNothingHolds`, `TeamsOnceHolds`,
`LookupsAgreeHolds` and `ReceiptAfterCopyHolds`. `Tables` and `Sound` are about a
state of the tables (types; a version's product exists and the two unique indexes
hold; only `register_team` adds another spelling of a team, `Distinct`) and hold
of the committed ones and of a transaction's copy. `Own` is about a process: it
is the writer exactly inside its transaction, nobody else changes the tables
meanwhile, its copy differs from them in its own rows only, and after the commit
the tables hold all its rows (`Written`), whether it lives to report it or not.
`CopyInv` says that the entries a consume has copied are those of its source, as
long as nobody has disturbed either. For the lookups, the unique indexes make
every query for a version's path or label return that version alone; that search
lists every product once is a bijection between ids and rows. The assumption says
that an absolute path is not a number, as `parse_product_ref` tells ids from
paths; a path as given may be one.

**Broker and run ledger** (`BrokerServerProofs`): `BrokerTypeCorrect`,
`SentOnceHolds`, `ChargesCoveredHolds`, `ExposureHolds`, `FreshAuthorityHolds`,
`QueueSoundHolds` and `ReceiptFinal`. `LedgerInv` says who owns a row: a call between its reservation
and its release, or one that was sent, has a row with its account, key and price,
and no two owners share an id or a key (`Apart`); the row is settled only with
what the call was charged. A reservation adds an owner only when neither is
recorded; no other step does, and rows are never removed (`RowsQuiet`), so this
outlives crashes. `AuthInv`: versions only grow, so an authorization that is
current after the queue covers the moment the call left it. `DrainInv`: a receipt
means that the run is paused, nothing is outstanding and no handler is between
`Reserve` and its release; so no later step changes a row. `QueueInv`: `InOrder` relates the queue to where the
handlers are and `Saturated` says that no slot is idle while a waiter could use it.
`schedule` is a recursive function; `ScheduleKeeps` shows by the least
counterexample that after n turns nobody can be served or n slots are taken.
`ExposureHolds` (`SpendInv`) is about sums over all rows and over an account's
rows of a day. `ExposureAdds` makes the fold a sum that may be taken in any order; a
row changes only to cost no more (`ExposureGrows`), and the one step that adds a row
adds its price (`ExposureOfMore`) after `WithinBudget` compared both sums with
their limits.

Constants that stand for "nothing" (`Absent`, `NoOp`, `NoJob`, `NoCost`, ...) are
assumed to differ from the values they are used beside, and bounds to be positive
where the code starts at one; the code's types give both. The other assumptions
are the code's own checks (`Allocation.Validate`, `validate_project_config`).

`BudgetHolds` covers profiles with and without price caps; the run has them, where
the claim is the sharper one.

Only model-checked: the three liveness properties (`publication_live`, quit in
`tui_safe`, `WaitersServed`) and every statement about ENABLED, which are out of
the prover's reach. Facts about folds, sums and recursive functions are proved
from the well-foundedness of the naturals, each for the function at hand: the
library's induction theorems take an operator the provers cannot instantiate.
What a cut between CR and LF does is not claimed: `CutsDoNotMatter` excepts it
(see below).

## Disagreements met while modelling

The models take the code's side in all of these; the properties are stated so
that they hold beside them.

* An overwriting `stage()` renames the old output away before it renames the
  new one in (`peer_access.rs:1281`); `docs/data_access_contract.md:140` says
  that it "atomically swaps the new output into place".
* `stage()` compares sizes when it resolves and no digest of what it copied
  (`peer_access.rs:1260`), so a rewrite of the same size is staged under the
  registered digest; `docs/data_access_examples.md:73` says that it copies
  "exactly the registered inventory".
* One unreadable intent file makes `pending()` fail for all
  (`operation_journal.rs:165`), and so does the thousandth (`:156`);
  `map.md:344` says that reconciliation inspects a commit that was not shown.
* `handle_key` polls the assistant before it dispatches a key
  (`mesh_tui/src/lib.rs:1140`), so a `y` can approve a review no draw has shown;
  `AnsweredAsShown` excepts that and no more. `map.md:337` gives the order "-> show local review", "-> user
  confirms or denies".
* `:init` starts its mutation without a review (`mesh_tui/src/lib.rs:1621`);
  `map.md:701` says that the TUI "asks for review before mutations".
  `docs/tui_agent_harness_design.md:212` lists the operations that are reviewed,
  and `:init` is not among them.
* An error of the terminal (`mesh_tui/src/lib.rs:118-120`) ends the application
  while a mutation's worker runs; only a quit by key or signal waits for it.
* `recheck_candidate` compares the size and then hashes
  (`peer_access.rs:1567`, `:1575`): a file that has the recorded size at the first
  moment and the recorded bytes, of another size, at the second is published with
  both.
* An ordinary turn takes the notice that guided mode has ended
  (`mesh_tui/src/lib.rs:1926`) before `run_mode` may refuse the turn
  (`harness.rs:172`); then the model is never told.
* Without price caps the reserve is not tested (`harness.rs:271`), so the last
  request can pass the budget; and a worker that is lost (`lib.rs:2320`) takes
  the record of what was spent with it.
* `register_data_product_version` stores any non-empty path as given
  (`registry_service.rs:214`, `:230`); one that reads as a number, such as "2",
  is later taken for a product id (`:637`), so the version is not found by it.
* `push_text` strips a CR only if its LF is in the same chunk
  (`provider.rs:701`): in a stream with CR LF lines a cut between the two
  leaves the CR in the line, and a frame's end is missed. The comment at
  `provider.rs:658` says that split frames are handled "without treating chunks
  as messages".
* After `h`, after a confirmation that met a pending read, and after an outcome
  that arrived while the harness was busy, `record_review_outcome` is not called
  and the assistant refuses every later turn until the profile or the project
  is changed.
* `tag_pending` tags whatever job is pending, so a lesson about a search,
  refresh, open or preview can pass by another job's success; the status line
  (`mesh_tui/src/lib.rs:1059`) says that actions are "correlated after their
  real results". An observation that is queued again after a request that could
  not start advances two adjacent steps that expect the same event. When the
  answer to the last observation is cancelled, the finished tour stays active
  and the next observation, even of a failure, is announced as its completion.
* Two `stage()` calls, or two `consume` calls, on one destination have no lock
  and can take each other's files for their own; `consume` removes the old
  output before it copies. An overwriting `consume` whose output is the source
  of another can empty it in mid-copy, and the other still writes its receipt;
  one whose output is its own source deletes it (`docs/data_access.md:258`).

## Not modelled

Power loss below a completed rename or transaction (the directory is not synced
after the manifest rename); file permissions and symbolic-link checks; wording,
formatting and wire formats; rendering, draft fields and saved texts of the TUI;
which fields a catalog search matches, and manifests that exist and cannot be
read or parsed while the catalog lists them (a coverage row,
`peer_access.rs:1160`; the providers of `PeerCatalog` follow `PublicationLog`,
so no failing stat resets a revision); the follow-up of a staging by a new
process after a crash; subdirectories of a consumed directory and different
working directories of the registry's processes (the copy of one entry is one
step); the HTTP request and certificate policy
of the provider; request rewriting and redaction in the broker; capability
minting; the components marked `not_modelled` in `PROJECT.json`.

## Plan

Done: publication with its proofs, catalog, registry, staging, journal, TUI loop
with capture, guided tour, assistant and its streams, run ledger and broker.

1. `ProjectLedger`: audit line and snapshot as a two-file commit, allocation
   and reconciliation, composed with the run ledger's receipts (no allocation
   beyond the ceiling, fail closed on disagreement).
2. `WorkspaceLifecycle`: jobs, leases, reset and recovery (one job per
   workspace, generations never reused, every interrupted job is resolved).
3. `PipelineRuns`: queue, promotion, retention and withdrawal (a version in use
   is not removed; a promoted version was verified).
4. `CollectorLedger`: append, chain, archive and research export (the chain
   never forks, archived means verified), composed with `Capture`.
5. `Grants`: control-plane grants, gateway copies and the reconciler (a
   revocation reaches every holder); composed with the broker's authority.

Proofs to add: the project ledger's ceiling, and the refinement of the abstract
specifications the new modules state.
