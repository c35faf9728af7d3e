# outtake in TLA+

outtake mirrors a Gmail mailbox into a maildir. `main.go` runs three stages in
sequence over one SQLite database (`.outtake.v2.sqlite`) and one maildir, and
exits; everything a run does not finish is left to the next run:

1. **Listing** (`lib/gmail/list_pages.go`) stores the ids of all messages, page
   by page.
2. **Downloading-Archived** (`lib/gmail/message_sync.go`) downloads every listed
   message through a pipeline of goroutines.
3. **History** (`lib/gmail/history_sync.go`, `history_journal.go`) applies the
   mailbox's history log to the mirror, with a durable cursor and a journal.

The process can be killed anywhere, every Gmail call and file operation can
fail, and the mailbox changes while a run works on it. What makes the program
correct is that the three durable positions (page token, checkpoint, cursor)
never get ahead of what is in the maildir. That is what most of these modules
are about. Below the stages lie the maildir (`lib/maildir`), the label
dictionary and the rate limiter; beside them the older engine of `gmail.go`
over a Bolt cache, which `main.go` no longer calls but which is still exported
and tested, and whose `handleNewMsg` the new stages share. All of these have
modules of their own.

## Inventory

| Component | State | Operations | Talks to | What is hard | What makes it correct |
|---|---|---|---|---|---|
| Gmail service (`service.go`) | none; the mailbox is remote | GetMessages, GetRawMessage, GetMetadata, GetHistory, GetLabels | all stages | changes between any two calls; history expires (404) | external; described by its answers |
| Listing (`list_pages.go`, `list_pages_schema.go`) | request, response and message rows; `sync.list.*` in `sync_state` | resume, fetch page, store page in one transaction | Gmail, SQLite | kill between call and transaction; mailbox shifts between pages; old databases without `sync_state` | no message missed, pages in order, the listing ends |
| Downloading-Archived (`message_sync.go`) | `workCh`, `resultCh`, reorder buffer, `sync.materialize.cursor` | producer, worker(s), ordered apply, flush | Gmail, maildir, SQLite | three kinds of goroutine and bounded channels; out-of-order results; errors of one of them; kills between flushes | nothing skipped, no deadlock, complete when it reports success |
| History (`history_sync.go`) | `history_cursor_committed`, `history_cursor_progress`, `history_page_token`, run state | resume, bootstrap, override, page, add, delete, labels, commit, 404 fallback | Gmail, maildir, SQLite, journal | kills inside a page, a record or a file rewrite; labels read later than the record; swallowed errors; expiry | nothing unapplied behind the durable cursor; a finished sync is exact |
| History journal (`history_journal.go`) | `gmail_history_journal` | upsert, load from cursor, coverage check, replay | History | replayed after kills, after messages are gone, from a cursor below the committed one | rows say what the mailbox said; a complete replay is accounted for by its cursor |
| Maildir (`lib/maildir/maildir.go`) | files in `new/`, `cur/` under a stable key | deliver, get, delete | stages, mail clients | tmp and rename, kills and mail clients between any two system calls | a message has at most one file, whole, and never an older version |
| Label dictionary (`labels_sql.go`, `resolveArchivedLabels`) | `gmail_labels`, `labelsRefreshedOnMiss` | resolve id to name, refresh once per stage on a miss | Gmail, SQLite | a miss in the middle of a stage, an error under the mutex; stale names; names with commas in `X-Keywords` | the header names the labels of the message |
| Run loop (`main.go`) | none | the three stages in sequence, stop at the first error | all | what one stage leaves for the next, over many runs | whatever happened while the mailbox was listed and downloaded is above the first cursor |
| v1 engine (`gmail.go`: `Sync`, `full`, `incremental`) | Bolt cache (`cache.go`, `lib/cache.go`): keys, labels, session, index | sharded history events, reconciling full sync | Gmail, maildir, Bolt | a write is several transactions; stale cache reads behind channels; page token saved early; incremental runs over a session that is still open | cache and maildir agree; the index never passes an unapplied record; a completed session is exact; nobody waits for good |
| Rate limiter (`lib/ratelimit.go`) | token channel of one batch | refill, take a token, back off | Gmail service | bursts, a refill held up by a full channel, retries that reach the maximum | bounded bursts and sleeps; every call returns |
| OAuth, migration scripts | - | - | - | - | not modelled: I/O and one-off tools |

`PROJECT.json` lists the hazards of this code one by one, each at its line and
with the properties that would catch it.

## Modules

| Module | Stands for |
|---|---|
| `Mailbox` | external: messages, labels, the history log and its expiry; and what it means that a mirror is *accounted for* at a log position |
| `History` (extends `Mailbox`) | the History stage with its journal, replay and fallback |
| `Archive` | Downloading-Archived |
| `Checkpoint` | the abstract promise of Downloading-Archived: an ordered checkpoint over work done in any order |
| `Listing` | the Listing stage |
| `Outtake` (extends `Mailbox`) | the composition: the three stages, run after run, on one mailbox, database and maildir |
| `Labels` | label ids, names, the dictionary and the `X-Keywords` header |
| `Maildir` | one message's file under single system calls and a mail client |
| `Store` (extends `Mailbox`) | the v1 engine's cache and maildir, its writes of one message, and what its two synchronisations share |
| `FullSync`, `Incremental` (extend `Store`) | the two synchronisations of the v1 engine |
| `RateLimit` | token channel and backoff |
| `MCHistory`, `MCArchive`, `MCLabels` | small instances for TLC; the other modules have constants a `.cfg` can give |
| `MailboxProofs`, `HistoryProofs` | theorems about `Mailbox` and `History` |
| `ArchiveProofs`, `ListingProofs`, `OuttakeProofs`, `LabelsProofs` | theorems about the module of that name |
| `LibProofs` | theorems about `Maildir` and `RateLimit`, both in `lib` |
| `EngineProofs` | theorems about `Store`, `FullSync` and `Incremental` |

An action is one step whose effect can be seen from outside the process: a call
to Gmail, one change of a maildir file, one SQLite transaction, one channel
operation. The mailbox may change, and the process may be killed, between any
two of them. A name defined just before an action and commented *Mutant* is a
plausible bug in that action; nothing uses it, and it serves to see that the
properties notice (`mutants` in `PROJECT.json`).

### History

The variables follow the program: `committed`, `progress`, `ptoken` and
`journal` are the database, `file` and `kw` the maildir (which messages have a
file and which labels its `X-Keywords` holds), the rest are locals of
`SyncHistoryWithDB`. `0` stands for an absent cursor and an empty token, as in
the code. A history record is one change of one message, which may carry both
`labelsAdded` and `labelsRemoved`; a page token stands for the last record that
was already returned.

| Code | Actions |
|---|---|
| `getHistoryResumeState`, `--start-history-id`, `bootstrapHistoryCursor` | `StartResume`, `StartOverride`, `StartBootstrap` |
| `GetHistory` and the page loop | `FetchPage`, `CommitPage` (`setHistoryProgressWithJournal`), `Commit` (`commitHistoryCursor`) |
| `downloadAndWriteHistoryMessage`, `handleNewMsg` | `AddPresent`, `FetchBody`, `BodyGone`, `FetchMeta`, `DownloadFails`, `DeliverNew` |
| `deleteMessageByID` | `ApplyDelete` |
| `applyHistoryLabelDelta` | `RewriteRemove`, `RewriteDeliver`, `RewriteFails`, once for the added and once for the removed labels (`half`); a missing file goes through the download first |
| `replayFromLocalJournal`, `applyJournalRowConvergence` | `StartReplay`, `ReplayDelete`, `ReplayRemove`, `ReplayRewrite`, `ReplayDownload`, `ReplayFails`, `ReplayDone` |
| the 404 branch | `Clear`: `clearHistoryState`; the two stages called next find their work marked done |
| kill, error of a call or transaction | `Abort` |

Ghost variables: `anchor` is the position the next run resumes from; `overshot`
is set when `--start-history-id` or the bootstrap chose a position beyond what
has been applied; `failed` has the messages a failed step of which was passed
over, or of which a row was journaled that was read from a file a broken replay
had left, `torn` those a replay of which has not come to its end. The properties
exempt what these record, because the code really gives no guarantee there; the
findings and hazards say what happens then.

`Init` is what the first two stages leave: a complete listing whose messages
have their files, with the labels they had then.

### Archive

`workCh`, `resultCh`, `pending`, `nextToApply`, `latest` and `unflushed` are the
code's. Rows of the listing are numbered in the order of `(responseId, id)`;
`MsgOf` gives the message of a row, because one message may be listed by two
pages. The code clamps the number of workers to one
(`message_sync.go:54-62`) but keeps the reorder buffer that is needed for more;
the module takes any set of workers. The run uses two, whose behaviours include
those of one. `Stop` is
both return and kill: memory is lost, files and checkpoint stay. A flush that
the two-second timer causes is the nondeterministic part of `Flush`.

### Listing

Messages are numbered in the order of arrival and pages go from the newest to
the oldest; a token stands for the last message returned. `Init` covers a fresh
database and one written before `sync_state` existed, which resumes from the
latest request row. A page, its token and the state of the listing are stored
in one transaction (`Store`).

### Outtake

Whole runs, in the order of `main.go:90-107`. The stages are those of the three
modules above with larger steps: one page of the listing, one listed message or
one history record at a time, one worker, a history of one page, and no error
but a message that is gone, a body that does not parse (`Unparseable`, passed
over by every stage, `gmail.go:202-206`) and an expired log. What they leave for
each other is kept in full: `rows` and `below` (the listing and its token),
`ckpt`, `file` and `kw` (the maildir), `progress`, `committed` and `journal`.
`at`, `cursor`, `last`, `jrows` and `todo` are memory of the run, and `pc` says
which stage is under way (`list`, `archive`, `history`, `fetch`, `apply`,
`commit`, `replay`, `rewrite`, `clear`).

A replay keeps the grain of `History`, since kills fall in its middle and it may
give up (`history_sync.go:390-399`): `StartReplay` loads the rows (`todo`), each
row is one change of the maildir (`ReplayDelete`) or up to three
(`ReplayDownload`, `ReplayRemove`, `ReplayRewrite`), a row of a message that is
gone and has no file ends it (`ReplayFails`, followed by `ClearHistory`), and
`ReplayDone` commits the last row's id.

`Init` is an empty directory. Ghosts: `listedAt`, the history id at the first
page; `late`, whether a bootstrap chose a cursor above it; `owed`, the messages
without a file when a fallback began; `torn`, as in `History`, the messages a
replay of which has not come to its end.

### Labels

The external part is Gmail's: the name of each label (`named`), the names it has
ever had (`ever`), the labels of the messages (`tagged`) and the log of changes.
A name is the set of its parts between commas, since that is what reading a
header gives back; an id that stands for itself is a name of one part.

| Code | Actions |
|---|---|
| `resolveArchivedLabels` | `Lookup`, `Lock`, `LookupAgain`, `Refresh`, `RefreshFails`, each worker for itself; `lock` is `labelsRefreshMu`, `refreshed` is `labelsRefreshedOnMiss` |
| upserts of `labels_sql.go` | `Upserted`: rows of deleted labels stay |
| download, label delta, `maildir_labels.go` | `TakeDownload`, `TakeRecord`, `Read`, `Delta`, `Write` |
| stages and cursor | `StartRun`, `StartHistory`, `EndRun`, `Save`, `Abort` |

Ghosts: `raw`, the ids that were written as ids in this stage; `failed`, the
messages a label change of which was passed over.

### Maildir

One message, its records, and every system call that `Begin` leads to: the
`stat` of `new/`, `ReadDir` of `cur/` with an `lstat` for each name it read,
`open`, `unlink`, and of a delivery `create`, `write`, `rename` and `chtimes`.
`goal` says what a lookup is for, as in the callers in `history_sync.go` and
`message_sync.go`. Between any two a mail client may move the file from `new` to
`cur`, change its flags or those of another file, or remove it, and the process
may be killed. Ghosts: `lost` and `kept` are what the code passed over with an
error it only logs, `did` is what the client has done, which the properties use
to say against whom they hold.

### Store, FullSync, Incremental

`files` is the maildir of the v1 engine, where each delivery has a key of its own,
`keyOf` and `labOf` are `mid_to_key` and `mid_to_label`. Each call of
`cache.go` is a transaction of its own, so that a write is three to four durable
steps (`WriteAdd`, `SetMsgLabels`, `SetMsgKey`, `RemoveOld`; `WriteDel`,
`DelMsgKey`, `DelMsgLabels`), each of which a kill may be the last. A body that
does not parse (`Unparseable`) is, like that of a message that is gone, no error
and no operation (`gmail.go:202-206`, `334-341`); `Readable` are the others.

The two synchronisations share `historyIdx`, `historyId`, `ppc` (where the
goroutine is that feeds the workers) and `ops`, which `Store` declares. What they
would call by the same name is told apart in `Incremental`, where a run is an
update (`IncSpec`, `StartUpdate`, `hand` for `work`), so that one module can hold
the theorems about both.

`FullSync` has the session (`active`, `pageToken`, `highest`, `seen`), the
listing goroutine (`token`, `page`), the channel `newMsgs`, the workers' hands
(`work`) and what the main goroutine goes through (`phase`):
begin, write, reconcile, commit, and four transactions to clear the session.
`StartForced` is `--full`, `StartFull` a run without an index that is still good
(`Current`), `StartIncremental` one with it: a forced session that was
interrupted is then left as it is (`gmail.go:643-645`). Of such a run `FullSync`
has what it can do to the session (`TakeRecord`, `EndIncremental`, phase
`update`): one write after the other in the order of the log, with any labels,
for they may be computed from a cache that is behind. How it does this is the
subject of `Incremental`.

`Incremental` has the goroutine that reads history (`last`, `more`, `event`) and,
for each shard, a channel (`histEvents`) and a worker (`hand`); labels are computed from
the cache where the code does it, in the reader, with one look at the cache where
the code has two (`computeLabels` and `labelsChanged`, 467 and 468); a write of
the same message between them can only change whether an event is sent that
changes nothing. Ghosts: `cut`, messages a write
of which was cut off; `inHand`, messages that were sent or listed but not
written at a kill; `stale`, ids that what was left of an earlier session hid
from this one; `crossed`, ids that incremental runs wrote while a session was
open; `first` and `since`, the newest message and the history id when the session
began. `handleNewMsg` is the same code as in History.

### RateLimit

`toks` is the channel, `owed` and `rest` are where the refilling goroutine is;
each caller has its place, its attempts and its sleep. Time is a clock of ticks,
and a sleeper may wake late. `BackoffDuration` is computed in the width of the
machine (`HalfWord`), with the shift and the product that may overflow. Ghosts:
the last two sleeps of a call (`slept`), and the ages of the last calls, the
newest first (`recent`), as many and as old as bear upon `Periods`. Names that
`Maildir` has too are told apart here (`LimitSpec`, `Attempt`), so that
`LibProofs` can hold the theorems about both.

## Properties and runs

The bounds are those of the `.cfg` files; every one of them is a named constant.
TLC runs each within the time in brackets on two cores.

| Run | Question | Result |
|---|---|---|
| `history_resume` (10 s) | Two messages, two labels, two changes of the mailbox, pages of one or two records, from a cursor or from none; kills everywhere, every step may fail | `ResumeCovered`: for each difference between mirror and mailbox a record lies ahead of the position the next run resumes from. `JournalCovered`: no journal row contradicts the mailbox up to its own record |
| `history_replay` (50 s) | The same from no cursor, with an expiring log, replays that are killed or fail, and `--start-history-id` | `ResumeCovered`; `InSync`: a sync that has committed the current history id is exact; `CursorMonotone`: the committed cursor never moves back except through the fallback; `ReplayConverges`: a replay that ends leaves a mirror its cursor accounts for; `EventuallyMirrored`: when kills end, the mirror becomes and stays exact |
| `archive_workers` (75 s) | Two workers, channels of capacity 1, three rows of which two are of one message, a body that does not parse, failures and kills | `CheckpointCovers`, `CompleteWhenOk`, `OnePlace`: every row sent is in exactly one place; `ImplementsCheckpoint`: refinement of `Checkpoint`; `RunEnds`: no goroutine waits for good; `EventuallyThrough`: the checkpoint comes to the end of the list |
| `listing_pages` (2 s) | Four to six messages, pages of two, both kinds of database | `NothingMissed`, `PagesInOrder`, `EventuallyListed` |
| `outtake_mirror` (2 min) | From an empty directory: three messages of which one does not parse, three changes at any moment of any run, kills, an expiring log, replays that are killed or give up | `MirrorCovered`: from the first bootstrap on, each difference between mailbox and mirror has a record above the cursor, but for messages that do not parse and those of a replay that has not come to its end. `EventuallyExact`: once kills are over the mirror becomes exact |
| `labels_headers` (55 s) | Two workers, two labels created, named, renamed, deleted and put on two messages | `HeaderInSync`: headers name exactly the labels of the message; `RawToTheEnd`: a label once written as an id stays one to the end of the stage; `LockHeld`: no error leaves the mutex locked |
| `maildir_client` (30 s) | Three records, two flags, kills and a client between any two system calls | `WholeFiles`, `OneFile`, `UpToDate`, `HasFile`: never half a file, nor two, nor an older version, nor none at the end |
| `full_resume` (160 s) | Three messages of which one does not parse, channels of capacity 1, one kill, `--full` and incremental runs in between, an expired index, one change | `UnchangedExact`: a completed session has what did not change exact; `DeletesOnlyGone`: reconciliation removes only what is gone; `CacheTrue`: cache and maildir agree; `Completes`: without kills every run ends, and no session stays open but over an index that is still good |
| `incremental_covered` (160 s) | Three messages of which one does not parse, in two shards, three changes, channels of capacity 1, an expiring index, one kill | `PresenceCovered`: no added or deleted message is left behind the index; `SingleChange`: nor the labels of one that changed once; `NobodyStuck`: the goroutines never all wait for each other |
| `rate_calls` (60 s) | Two callers, batches of two, three attempts whose sleeps fit in a word and reach the maximum | `BurstBound`: at most one batch more than there are periods; `BackoffGrows`: sleeps never shrink nor pass the maximum; `CallsReturn` |
| `history_replay_stuck`, `outtake_backfill` | what a plan document of the repository promises | violated, see *Findings* |

`TypeOK` is checked with History, Archive, Listing, Labels and Maildir. Those of
`Outtake`, `FullSync`, `Incremental` (`IncTypeOK`) and `RateLimit`
(`LimitTypeOK`) hold on the same instances and state the ranges of the variables
for a reader; they are in no run.

### Why the bounds are enough

The interesting cases of History are about one message: a record applied twice,
half applied, or with labels from its own future; they need two changes of the
same message, and a second message for the case that it is the other one that a
step touches. Two labels make a record with both an addition and a removal, and
`PageMax = 2` a page with two records of the same message. Larger instances were
run once with the same result: three changes with both labels (7.4 million
states), three changes with expiry, failures, an override and one label
(10.2 million), and two overrides with failures (4.1 million).

In Archive, three rows, channels of capacity 1 and two workers make everybody
wait for everybody and results come out of order; `FlushEvery = 2` makes both a
flush by count and a last one by force, `BatchSize = 3` a batch that is longer
than what the channels hold. In Listing, four messages in pages of two give a
first page, a resumed page and, after deletions, empty ones; two more arrive
meanwhile.

`Outtake` needs a message in the listing, one that arrives while it is listed or
downloaded, and three changes, so that a message is changed, is downloaded with
the change, and is changed again. One message of its three does not parse, which
leaves two to relate; pages hold one message, so that the others arrive while the
listing is under way. An expired log with a row in the journal takes three
changes, which is what a replay that is killed or gives up needs. The run has
1 385 348 distinct states.

`Labels`: two workers that miss different labels or the same one, a name to
create and one to rename to; three changes of messages let a record be applied,
be applied again after a kill, and be followed by another. Messages, labels,
names and workers are interchangeable, hence the symmetry, and no liveness
property is checked there. `Maildir`: a delivery, a rewrite and a deletion are
three records; two flags make a rename in `cur`.

In `FullSync` and `Incremental` the log expires only just above the committed
index, and only once: whatever else expires, the code sees the same 404. One
kill suffices because the properties exempt what a kill cut off; it may be in
any run, and any number of runs follows. `FullSync` has three messages so that,
besides the one that does not parse, one is listed from the start and one may
arrive; one worker is enough for its properties, in which no two messages
compete, and the theorems hold for any number (1 442 428 states). The exemption
of `crossed` is needed only from the second kill on: with two, TLC finds a
message that an incremental run wrote between them. Two shards and two messages
are the least with an order between channels, and the third one of `Incremental`
is the one that does not parse (4 624 604 states). It has three changes, so that
events of one message are queued behind each other and behind a write: with two,
no page is read early enough for a deletion to overtake an addition. Two labels
double the length of that run; with them, instances of two messages and two
changes (515 thousand states) and of one message and three changes (946
thousand) were run once with the same result.

`RateLimit` counts calls over two periods with batches of two: a full channel, a
batch held up in its middle, and the next one. `HalfWord = 16` leaves room for
the sleeps of three attempts (1, 2, and 4 cut to 3), as a 64-bit duration does
for those of `service.go:38-42`.

`CHECK_DEADLOCK FALSE` stands where the system may really stop: a History stage
without a message to bootstrap from and nothing to resume, a complete listing,
an idle v1 engine with nothing new, a mailbox that has reached its bound.

### Fairness

Go runs every goroutine that can go on, so in `Archive` the start, the producer,
the main loop and each worker have weak fairness of their own, and in `FullSync`
the lister, the workers and the main goroutine with the runs that are not forced
(`Sync`); in `History`, `Listing` and
`Outtake` there is one thread of control and one condition for it. A start is
fair because outtake is run again and again; `--start-history-id` and `--full`
(`StartForced`) are not, since nobody has to pass them. `Completes` therefore does
not promise the end of a session: one that was forced and broke off is passed by
for as long as the index is good. In `RateLimit` a caller that waits for a
token gets one in the end although others take some in between: goroutines that
wait on a channel are served in their order, which is strong fairness of `Get`.

Nothing is assumed about kills, failures and the mailbox: each liveness property
says under which of them it holds (that kills come to an end, for
`EventuallyThrough` that queries do not fail for ever, for `EventuallyExact`
that a cursor was bootstrapped in time and the log is whole).

## Findings

Two are runs that TLC finds violated; the quotation is in `PROJECT.json`.

1. **Stuck replay** (`history_sync.go:57-62`, `history_replay_stuck`). A complete
   replay commits the last journaled id and returns. That id has expired too, so
   every later run replays again and none gets to "continue normal sync".
2. **No backfill** (`history_sync.go:65-71`, `outtake_backfill`). The fallback
   after an expired log clears the history cursors and runs Listing and
   Downloading-Archived, whose own state says that they are complete: nothing is
   downloaded, where the plan has "Fall back to M1+M2 backfill path on same run".

Other departures were seen while modelling. But for the modification time and
the missing sync, which are not modelled, the models contain them, and where one
breaks a property the property exempts it by a ghost or an antecedent.

*Stages.*
- The first cursor is the history id that the newest listed message has when it
  is bootstrapped; what happened before, at lower ids, to others, is never
  applied (`history_sync.go:260`; `late`, `overshot`).
- An error of a label change is logged, a failed delete reports success, and the
  cursor advances all the same (`history_sync.go:110-114`, `297-303`; `failed`).
- The old file is removed before the new one is delivered
  (`history_sync.go:340-345`); its record brings it back after a kill, but a
  replay killed there after the log has expired does not (`torn`). Killed just
  after, it leaves a file with the labels of an old row, which the next label
  record of the message reads, changes and writes into a row of its own
  (`history_sync.go:340`, `428`): that row is then wrong too (`failed`).
- A replay stops at a row of a message that has been deleted since, although a
  later row says so (`history_sync.go:413-415`).
- With an empty mailbox, or the first listed message gone, history is never
  started (`history_sync.go:35`, `260`).
- A failed download moves the checkpoint like a successful one
  (`message_sync.go:185`).

*Labels.* A label that is created after the stage's one refresh is written as an
id and stays so (`message_sync.go:385`); a renamed label is added under its new
name beside the old one (`history_sync.go:435`); a name with a comma is read back
as two (`maildir_labels.go:25`).

*Maildir.* `ReadDir` of `cur` fails when any file is flagged meanwhile, which the
callers take for a missing file: a second one is delivered (`maildir.go:104`).
The modification time is set after the rename (92), and nothing is synced to
disk before the cursor is (89).

*v1 engine.* The token of the next page is saved before this page is written
(`gmail.go:563`), so that a resumed session misses what was in hand (`inHand`);
the index it commits is the largest id seen (588), or 0 when there was nothing to
do (585); the session is cleared in four transactions, and what a kill leaves is
taken up by the next session (`cache.go:169`; `stale`); a half-deleted message
makes every later deletion of it fail (`gmail.go:238`); a forced session that is
interrupted over an index that is still good is not resumed (643), stays open and
does not see what the incremental runs write (`crossed`); a message whose body
does not parse is passed over for good (202, 334), here and in the new stages; labels of an event are
computed from a cache that earlier events have not reached (467, 266), so only
`SingleChange` holds; a 404 for the metadata of a cached message ends every later
run at the same record (345).

*Rate limiter.* Two batches may be taken within one period
(`ratelimit.go:27`), and the sleeps are not those of `ARCHITECTURE.md` (52).

## Proofs

TLAPS checks, for all values of the constants that meet the assumptions:

| Theorem | Says |
|---|---|
| `HistoryProofs!TypeCorrect` | `Spec => []TypeOK` |
| `HistoryProofs!CursorMonotoneTheorem` | `Spec => CursorMonotone`, expiry, replays and overrides included |
| `HistoryProofs!ResumeCoveredTheorem` | `Spec => []ResumeCovered` |
| `HistoryProofs!InSyncTheorem` | `Spec => []InSync` |
| `HistoryProofs!JournalCoveredTheorem` | `Spec => []JournalCovered` |
| `HistoryProofs!ReplayConvergesTheorem` | `Spec => ReplayConverges`: a replay that ends leaves a mirror its cursor accounts for |
| `OuttakeProofs!MirrorCoveredTheorem` | `Spec => []MirrorCovered` |
| `ArchiveProofs!ArchiveTypeCorrect` | `Spec => []TypeOK` for `Archive` |
| `ArchiveProofs!ImplementsCheckpointTheorem` | `Spec => ImplementsCheckpoint`: `Archive` refines `Checkpoint` |
| `ArchiveProofs!CheckpointCoversTheorem` | `Spec => []CheckpointCovers` |
| `ArchiveProofs!CompleteWhenOkTheorem` | `Spec => []CompleteWhenOk` |
| `ArchiveProofs!OnePlaceTheorem` | `Spec => []OnePlace` |
| `ListingProofs!TypeCorrect`, `NothingMissedTheorem`, `PagesInOrderTheorem` | the safety properties of `Listing` |
| `LabelsProofs!TypeCorrect`, `LockHeldTheorem`, `RawToTheEndTheorem`, `HeaderInSyncTheorem` | those of `Labels` |
| `LibProofs!TypeCorrect`, `WholeFilesTheorem`, `OneFileTheorem`, `UpToDateTheorem`, `HasFileTheorem` | the safety properties of `Maildir` |
| `EngineProofs!CacheTrueTheorem`, `DeletesOnlyGoneTheorem`, `UnchangedExactTheorem` | those of `FullSync` |
| `EngineProofs!PresenceCoveredTheorem`, `SingleChangeTheorem` | those of `Incremental`: `IncSpec => []PresenceCovered`, `IncSpec => []SingleChange` |
| `EngineProofs!SomebodyReadyTheorem` | `IncSpec => [](pc # "idle" /\ Keys \ Used # {} => ...)`: in an update the reader, the writer or a worker can go on |
| `EngineProofs!SomeoneReadyTheorem` | the same for `FullSync`: the lister, a worker or the main goroutine can go on |
| `LibProofs!BurstBoundTheorem` | `LimitSpec => []BurstBound`, for any batch, period and number of callers |
| `LibProofs!BackoffGrowsTheorem` | `SleepsFit => (LimitSpec => []BackoffGrows)` |

They hold for any number of messages, labels, pages and kills, for any number of
workers or shards (at least one), and for any size of channels and batches.

**The argument for History.** `TypeInv` is `TypeOK` with `Positions`: every
cursor is a history id the mailbox has reached, and whatever is about to be
committed is at least `committed`; `CursorMonotone` follows from it.
`ResumeCovered` is not inductive: it speaks of the anchor, while the files are
ahead of it in the middle of a page, and what a replay makes of them depends on
the journal. The invariant `HistInv` has these parts:

- `MailboxInv` (`MailboxProofs`): each log record still says something true of
  the mailbox, up to later records of the same message (`RecordHolds`).
- `ResumeInv`: what the database and the process know of the resume position
  agrees with the ghost (`AnchorInv`), and the mirror is accounted for at
  `Applied`, the record before the one in progress; the labels held in memory are
  right up to later records; in the middle of a record with two halves
  (`Pending`) the labels of the second half are the only other exception.
- `JournalInv`: a row names a record of its message and says of what kind it was
  (`RowFact`), its labels are right up to later records (`RowOwed`), a row of the
  page in memory is of a record gone through or of the first half of the current
  one (`RowPlace`), and what the record has in hand is settled (`Settled`). A row
  is written from the file as the record left it, whose labels may come from the
  future: that is what `RowOwed` allows and no more.
- `LogInv`: the journal is complete. Each record up to the resume position or to
  the highest row (`Reached`) has a row, or is one that needs none (`RowDue`): an
  addition, a label change of a message that is gone, or one passed over.
- `GoneInv`: a message with the row of a deletion has no file and gets none.
- `ReadyInv`: at every row the mirror is accounted for, message by message, unless
  the message has a row further on (`RowAhead`). This is what makes the anchor,
  wherever it is, a position to replay from: the journal may be ahead of it.
- `ReplayInv`: in a replay, each message of which a row has been gone through
  shows what the last such row says (`Shown`).

A change of the mailbox puts the record that makes up for it ahead of every
position (`OwedFileStep`, `OwedDeleteStep`, `OwedLabelsStep`), so it can disturb a
run at no moment. For the end of a replay take a message that differs from the
mailbox at the last row: with a row of its own it shows what its last row says,
which is right up to later records, and of these none is at or below the last
row, since `LogInv` says they would have rows; without one, `ReadyInv` accounts
for it. There is one lemma for each group of actions and part (`ResumeGmail`,
`ResumeRun`, `ResumePages`, `ResumeApply`, `ResumeReplay` and their likes), and
`HistAlone` and `HistStep` put them together. TLC checked `HistInv` beforehand on
instances larger than those of the runs (two labels or two messages with four
history ids, one message with five); it found that a torn file taints later rows,
which `failed` has recorded since.

**The argument for Outtake.** `MirrorCovered` speaks only of the time after the
bootstrap, and much of what it promises is decided before. `OuttakeInv` therefore
says what the first two stages do for it: `ListingInv`, that each message that
exists is listed, on a page to come, or arrived after `listedAt`; `FreshInv`, that
until the first bootstrap the rows gone through have their files, and that these
are right up to changes after `listedAt`. From then on `BootedInv(c)` holds for
the cursor `c` that was bootstrapped: the mirror is accounted for at the record
applied last or, when the history state has been cleared, at `c`; each record
above `c` that was reached has a row unless it needs none; at each row the mirror
is accounted for, message by message, unless the message has a row further on
(as in `HistInv`). All this is about messages that parse and are not `torn`
(`Followed`). `Replayed` says that those of the rows of a replay under way are
`torn`, so that its steps can disturb nobody else, and `TornInv` that a message
stays `torn` only while the cursor has expired and a row of it is still to be
replayed from there, so that no record is applied before a replay has ended. `Origin` says why a cleared state does no harm: a later
bootstrap finds `c` again, or a history id above `listedAt`, and that is `late`.

The bridge between the two is `ArchiveCovers`: a complete listing that was
downloaded to its end is accounted for at `listedAt`, hence at every earlier
cursor, which is what `~late` means. `GmailStep` carries it all over a change of
the mailbox, `QuietStep` over steps that touch no file, `RecordBooted` over a
history record, `PageBooted` over the end of a page, `BootedStill` over clearing
and starting again. In a replay each message shows what the last row says that was
gone through (`Shown`, part of `Replayed`); at its end no row is left, so
`ReplayDoneStep` can free the messages of `torn`: each is as its last row says,
and `ReplayOwed` accounts for it. The last two places where one
record is compared with a later row both rest on `OwedBeyond`: what is owed at
one record is owed as far as the journal goes, if no row on the way is of the
same message.

**The argument for Archive.** `PipeInv` says that an item keeps the number and row
it was sent with (`Numbered`), that a result in a channel, in the reorder buffer
or applied is one of a row that was gone through, and that `latest` is the row of
the last applied number (`GoneThrough`). With it every flush is a `Save` of
`Checkpoint`, every end of a download a `Handle`, and all else a stutter.
`EndInv` adds that no number between `nextToApply` and `seq` is missing
(`NoGap`) and what the exits of the goroutines say about the channels (`AtEnd`),
from which `NothingLeft` concludes that a pipeline that has ended without an
error has applied everything. `UnderwayKept` (no worker loses or invents an item)
and `Applies` (what one `Receive` does) are the lemmas both rest on. `OnePlace`
needs that two items in the pipeline have different numbers (`Apart`); with
`NoGap` and `Numbered` each number is then in one place and none in two.

**The argument for Listing.** `OnTrack` says that a run works from the stored
token, `PageTrue` that the page in memory has everything between that token and
the next one, and `RowsAbove` that nothing stored is older than the stored token.
A message can only leave a page by being deleted, and a new one is above them
all.

**The argument for Labels.** `Serial` says that the History stage has one label
change in hand and the other stages only downloads, `RefreshOnce` that no label
is written as an id before the stage's refresh and that nobody is about to
refresh a second time. An id that is written as itself was unknown after the
refresh, and the dictionary does not change any more until the stage ends.

`HeaderInSync` speaks of messages that no record above the cursor changes, and of
plain names. The invariant behind it, `SyncInv`, says of every message that its
header is right *up to* such records (`LaterOn`). `NamesInv`: the name in the
dictionary is one its label has had, and no two labels have one name.
`RecordsInv`: an added label is on the message, and a removed one has left no
other of its name there, unless a later record changed that (`RecordTrue`).
`CallsInv`: the labels a worker has in hand were read when every difference from
the mailbox lay above the cursor (`Fresh`), or are those of the record it applies
(`Due`). `HeadersInv`: the same for the names in a header (`HeaderTrue`).

**The argument for Maildir.** Each part of the invariant is about what the next
system call relies on: `Whole` about the file that is renamed, `One` about what
a lookup still knows of a file that a client has moved meanwhile, `Due` that a
message without a file has a record to come or a delivery under way, `Labelled`
that the label changes gone through are in the header and in the content in
memory, `Gone` about deletions, `Alone` that without a client no lookup errs.
`StepKinds` splits the steps by what they change.

**The argument for FullSync.** `UnchangedExact` speaks of one moment, the
commitment of the index; the invariant `FullSyncInv` follows a message through
the whole session. `StoreInv`: the cache has exactly the one file of a message
(`One`) or there is none, and in the middle of a write the files are those the
next step needs (`Delivered`, `Replaced`). `RunInv` and `CurInv` say where lister,
workers and main goroutine are in each phase, `OnceInv` that no message is in the
pipeline twice, for the tokens of a run go down. That is what makes an operation
stay true while it waits (`OpsInv`): no other write of the same message can come
between. An incremental run works with an empty pipeline, and whatever it
writes while a session is open it has noted in `crossed` (`Taken`, in `CurInv`),
so that its steps (`Crossing`) disturb only messages that are exceptions. The
session itself is four claims about a message that is none of the exceptions,
parses and did not change (`Steady`): it is seen, on the page or still to be
listed (`CoverInv`); it is still there (`LiveInv`); once seen it is on its way or
mirrored (`DoneInv`); and when it is gone it is reconciled before the index is
committed (`GoneInv`). A session that is begun anew finds what a half-cleared one
has left, and `NewSession` shows that all of it is in `stale`. `SteadyStep` says
that a message only ever becomes an exception, `WriteStore` what each step of a
write leaves, `CutOff` that whatever is in the pipeline at a kill is in `inHand`.
TLC checked `FullSyncInv` beforehand, also with three messages.

**The argument for Incremental.** Both theorems are about what an operation may
still be trusted with when it is written, long after its record was read, and about
messages that are not `Lost`: no write of them was cut off and their body parses.
`UpdateInv` shares `StoreInv` with `FullSync` and follows the operations on their
way (`OnWay`) from the reader's hand through the channel of a shard, its worker
and `ops` to the writer:

- `FromLog`: each is made of a record that was read in this run. `Sharded` and
  `InOrder`: the operations of a message stay in one shard, hence in the order
  of their records, wherever they are.
- `KeyRead`: the key that a worker has read for an addition is still the key of
  the message. An addition is the first record of its message, so nothing of the
  message is ahead of it in the pipeline (`AdditionFirst`, `AdditionAlone`).
- `Presence`: what is missing or left over is `Due`, that is, in the pipeline or in
  a record above the committed index; and an addition in the pipeline of a message
  whose deletion was read has the deletion behind it (`DeletesLast`). At the
  commitment the pipeline is empty, and what is due is above the new index.
  `StartsAgain` says that a run that ends early has lost nothing: each record it
  has read is above the index that stays.

Labels are right up to records that set them (`Right(m, K, p)`), for messages with
one record up to `p` (`Alone`), and at two positions at once. `RightBehind`: file,
cache and every operation with labels are right at the committed index, so a run
can be started again anywhere. `RightAhead`: they are right at the position the
run has come to, unless the message is on its way (`Busy`) or the run will fail,
so it can commit. `EventRight` says that labels computed from the cache are right
at the new record if those of the cache were at the old one and there was no
other record between; `HandKeeps` and `WriteStores` carry that through a worker
and a write, `GmailRight` over changes of the mailbox. `LabelStep` says which
steps need looking at.

TLC checked these invariants beforehand, with two labels. That showed what
`SingleChange` has to say: an addition reads all labels anew, also those that its
record does not name, so a record of an addition above the index makes up for any
label (`SetsLabel`), not for those it carries only.

`SomebodyReadyTheorem` is `NobodyStuck` with the guards written out: the module
defines when the reader, a worker and the writer can take their next step
(`ReaderReady`, `WorkerReady`, `WriterReady`), and that one of them can is then a
safety property. If no worker can go on, all hands and their channels are empty,
or `ops` is full; if the writer cannot, it waits for an operation and `ops` is
empty. What is left is the reader, which can go on unless it has stopped; and one
that has stopped early has left its error in `ops` (`ReaderInv`).
`SomeoneReadyTheorem` says the same of `FullSync`; there a lister that is not done
has a page to fetch, since a page exists after every token (`PageExists`). On
small instances (109 and 488 thousand states) TLC found that the guards hold just
when a run has a step. The free key is needed because the model bounds the keys.

**The argument for RateLimit.** Tokens are in three places: taken by a call, in
the channel (`toks`), or still to be put (`owed`). `Since(i, n)` says that those
taken by the last `i - 1` calls, and the others, make `n + 1` batches. When the
call before those had been made, fewer than two batches were there, and less than
one if the refilling goroutine slept; so it has slept `n` times from beginning to
end since then, and the call is as old as `n` periods and as the part of the
present sleep that is over (`Spaced`). `BurstBound` is the case in which all of
them are taken. `TokenInv` adds that the goroutine sleeps only when it owes
nothing. `CallerInv` says that the sleeps a caller remembers are those of its last
two attempts. The sleep after attempt `i`, counted from 0, is
`BackoffStart * 2^i`, cut to the maximum; powers of two grow because they count
the sets of subsets (`Powers`), and no product overflows, since `SleepsFit` says
that the longest fits in a word.

### Restrictions

No theorem restricts how the mailbox, kills or the log behave. Constants may be
infinite unless an assumption says otherwise; `Outtake` and `FullSync` assume
finitely many messages, numbered in the order of their arrival, since a page of
them must be a finite set, and `Incremental` that a message is a number, as Gmail's
ids are: that number chooses the shard. `BackoffGrows` is proved where there is a
maximum and the longest sleep fits in a word (`SleepsFit`), as with the constants
of `service.go:38-42`; with others a sleep may wrap around and be none.

**Only model-checked:** all liveness, and `NobodyStuck` of `Incremental` as it is
stated, with ENABLED; both are beyond the prover. The guards that make up the
latter are proved (`SomebodyReadyTheorem`, and `SomeoneReadyTheorem` for
`FullSync`).

## Not modelled, and why

- OAuth and the migration scripts: interactive I/O, and tools that are run by hand
  on a stopped system.
- The construction of the REST requests, and of the rate limiter `Stop` and
  `TryGet`, which nobody calls.
- The `--label` filter: `g.labelId` is set only by the v1 `Sync`, so the v2
  stages never have one.
- Modification times, and what a power failure leaves of data that was never
  synced; a kill of the process keeps every completed system call.
- The inside of Bolt and SQLite: a transaction is atomic and durable. Bolt's
  `Get` hands out a slice that outlives its transaction, and `Items` holds a read
  transaction while the receiver writes; what becomes of that is up to Bolt.
- `--buffer 0` (unbuffered channels) and several outtake processes at once, which
  nothing in the code guards against.
- Several messages in one history record: a record is one change of one message.
- Encodings: of history ids in the cache, of labels in the journal, white space
  and the case of header names.

## Plan

The parts of the system that have state of their own are modelled, and their
safety properties proved where the prover reaches them. What could be added is a
refinement of `Outtake` by `History` from the bootstrap on, which would give its
steps the grain of the stage.
