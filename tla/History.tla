------------------------------ MODULE History ------------------------------
(***************************************************************************)
(* The History stage (lib/gmail/history_sync.go): apply the mailbox's      *)
(* history, page by page, to the local mirror, with a durable cursor and a *)
(* journal in SQLite.  The process may die at any step and is run again    *)
(* from the database.                                                      *)
(*                                                                         *)
(* One action is one step whose effect is visible outside the process: a   *)
(* call to Gmail, a change of a maildir file, a SQLite transaction.  The   *)
(* mailbox may change between any two of them.                             *)
(***************************************************************************)
EXTENDS Mailbox

CONSTANTS
    Unparseable,     \* messages whose body mail.ReadMessage cannot parse
    FirstListed,     \* firstListedMessage(db), or NoMsg
    NoMsg,
    InitialCursors,  \* committed cursors the database may hold at the start
    PageMax,         \* bound: records on one page of GetHistory
    Overrides,       \* values the user may pass as --start-history-id
    MayFail          \* whether Gmail calls and file operations may fail

ASSUME HistoryAssumption ==
    /\ Unparseable \subseteq Msgs
    /\ NoMsg \notin Msgs
    /\ FirstListed \in Listed \union {NoMsg}
    /\ InitialCursors \subseteq {0, Base}
    /\ PageMax \in Nat \ {0}
    /\ Overrides \subseteq Nat /\ \A s \in Overrides : s >= Base
    /\ MayFail \in BOOLEAN

VARIABLES
    file,       \* the messages that have a file in the maildir
    kw,         \* the X-Keywords labels of each file, {} where there is none
    committed,  \* sync_state history_cursor_committed, 0 when absent
    progress,   \* sync_state history_cursor_progress, 0 when absent
    ptoken,     \* sync_state history_page_token, 0 when empty
    journal,    \* gmail_history_journal
    pc,         \* what the process does next; "idle" when none runs
    cursor,     \* startHistoryId of this run
    tok,        \* page token for the next GetHistory, 0 when empty
    maxSeen,    \* the largest record id of the pages fetched
    pos,        \* the record of the page being applied
    half,       \* the labelsAdded part of record pos is done
    got,        \* the labels held in memory for the file being written
    rows,       \* pageJournalRows
    todo,       \* journal rows still to be replayed
    anchor,     \* ghost: the position the next run would resume from
    overshot,   \* ghost: a cursor was chosen beyond the applied records
    failed,     \* ghost: messages a failed step of which was passed over, or
                \* whose half replayed file was journaled
    torn        \* ghost: messages a replay of which has not come to its end

disk  == <<file, kw>>
db    == <<committed, progress, ptoken, journal>>
proc  == <<pc, cursor, tok, maxSeen, pos, half, got, rows, todo>>
ghost == <<anchor, overshot, failed, torn>>
vars  == <<mailbox, disk, db, proc, ghost>>

Row == [hid : Nat, msg : Msgs, op : {"ADD", "DELETE", "WRITE_LABELS"},
        exists : BOOLEAN, labels : SUBSET Labels]

PCs == {"idle", "fetch", "event", "meta", "deliver", "rewrite", "commit",
        "replay", "replayRewrite", "clear"}

TypeOK ==
    /\ MailboxTypeOK
    /\ file \subseteq Msgs
    /\ kw \in [Msgs -> SUBSET Labels]
    /\ committed \in Nat /\ progress \in Nat /\ ptoken \in Nat
    /\ journal \subseteq Row
    /\ pc \in PCs
    /\ cursor \in Nat /\ tok \in Nat /\ maxSeen \in Nat /\ pos \in Nat
    /\ half \in BOOLEAN
    /\ got \subseteq Labels
    /\ rows \subseteq Row /\ todo \subseteq Row
    /\ anchor \in Nat /\ overshot \in BOOLEAN /\ failed \subseteq Msgs
    /\ torn \subseteq Msgs

-----------------------------------------------------------------------------
(* The process                                                             *)

(* The process ends; what it held in memory is gone.                       *)
Stop ==
    /\ pc' = "idle"
    /\ cursor' = 0 /\ tok' = 0 /\ maxSeen' = 0 /\ pos' = 0
    /\ half' = FALSE /\ got' = {} /\ rows' = {} /\ todo' = {}

(* List and Materialize have completed with an exact mirror at Base.       *)
Init ==
    /\ MailboxInit
    /\ file = Listed \ Unparseable
    /\ kw = [m \in Msgs |-> IF m \in Unparseable THEN {} ELSE lab[m]]
    /\ committed \in InitialCursors
    /\ progress = 0 /\ ptoken = 0 /\ journal = {}
    /\ pc = "idle"
    /\ cursor = 0 /\ tok = 0 /\ maxSeen = 0 /\ pos = 0
    /\ half = FALSE /\ got = {} /\ rows = {} /\ todo = {}
    /\ anchor = Base /\ overshot = FALSE /\ failed = {} /\ torn = {}

Begin(c, t) ==
    /\ pc = "idle"
    /\ pc' = "fetch"
    /\ cursor' = c /\ maxSeen' = c /\ tok' = t
    /\ UNCHANGED <<pos, half, got, rows, todo>>

(* setHistoryProgress(db, c, "") for a cursor that no sync has reached by  *)
(* itself.                                                                 *)
BeginAt(c) ==
    /\ Begin(c, 0)
    /\ progress' = c /\ ptoken' = 0
    /\ anchor' = c
    /\ overshot' = (overshot \/ c > anchor)
    /\ UNCHANGED <<mailbox, disk, committed, journal, failed, torn>>

(* getHistoryResumeState: the progress cursor and its page token, else the *)
(* committed cursor.                                                       *)
Resumable == progress # 0 \/ committed # 0

StartResume ==
    /\ Resumable
    /\ IF progress # 0 THEN Begin(progress, ptoken) ELSE Begin(committed, 0)
    /\ UNCHANGED <<mailbox, disk, db, ghost>>

StartOverride == \E s \in Overrides : s <= top /\ BeginAt(s)

(* bootstrapHistoryCursor: the history id that the first listed message    *)
(* has now.  Without such a message the stage is skipped, and with one     *)
(* that is gone the run fails; neither changes any state.                  *)
StartBootstrap ==
    /\ ~Resumable
    /\ FirstListed \in live
    /\ \E c \in Base .. top : HistoryIdOf(FirstListed, c) /\ BeginAt(c)

-----------------------------------------------------------------------------
(* Pages                                                                   *)

(* Mutant: the page token is not passed on.                                *)
AfterCursor == cursor

After == IF tok # 0 THEN tok ELSE cursor
Expired == cursor < floor

(* GetHistory: the records above After up to some record "to"; the token   *)
(* of the next page stands for the last record already returned.           *)
FetchPage ==
    /\ pc = "fetch" /\ ~Expired
    /\ \E to \in After .. top :
        /\ to <= After + PageMax /\ (to = After => to = top)
        /\ maxSeen' = to
        /\ tok' = IF to < top THEN to ELSE 0
    /\ pos' = After + 1
    /\ pc' = "event"
    /\ UNCHANGED <<mailbox, disk, db, ghost, cursor, half, got, rows, todo>>

SameKey(r, s) == r.hid = s.hid /\ r.msg = s.msg /\ r.op = s.op

(* Mutant: an older row of the same key is kept.                           *)
Insert(J, R) == J \union R

(* INSERT ... ON CONFLICT(historyId, messageId, op) DO UPDATE.             *)
Upsert(J, R) == {j \in J : \A r \in R : ~SameKey(j, r)} \union R

(* setHistoryProgressWithJournal: the rows of the page, the cursor and the *)
(* next page's token in one transaction.                                   *)
CommitPage ==
    /\ pc = "event" /\ pos > maxSeen
    /\ journal' = Upsert(journal, rows)
    /\ progress' = maxSeen /\ ptoken' = tok
    /\ anchor' = maxSeen
    /\ pc' = IF tok = 0 THEN "commit" ELSE "fetch"
    /\ pos' = 0 /\ rows' = {}
    /\ UNCHANGED <<mailbox, disk, committed, overshot, failed, torn,
                   cursor, tok, maxSeen, half, got, todo>>

(* commitHistoryCursor: the cursor becomes c, the progress is removed.     *)
CommitCursor(c) ==
    /\ committed' = c /\ progress' = 0 /\ ptoken' = 0
    /\ anchor' = c

Commit ==
    /\ pc = "commit"
    /\ CommitCursor(maxSeen)
    /\ Stop
    /\ UNCHANGED <<mailbox, disk, journal, overshot, failed, torn>>

-----------------------------------------------------------------------------
(* Records.  A record is applied while pc = "event" and pos <= maxSeen.    *)

ev == log[pos]
Applying(op) == pc = "event" /\ pos <= maxSeen /\ ev.op = op

(* The labelsRemoved of a record come after its labelsAdded.               *)
Removing == half \/ ev.ladd = {}
NextHalf == ev.op = "labels" /\ ~Removing /\ ev.lrem # {}

(* Mutant: the labelsRemoved of a record with labelsAdded are left out.    *)
FinishWhole ==
    /\ half' = FALSE
    /\ pos' = pos + 1
    /\ pc' = "event"
    /\ got' = {}
    /\ UNCHANGED <<cursor, tok, maxSeen, todo>>

FinishRecord ==
    /\ half' = NextHalf
    /\ pos' = IF NextHalf THEN pos ELSE pos + 1
    /\ pc' = "event"
    /\ got' = {}
    /\ UNCHANGED <<cursor, tok, maxSeen, todo>>

(* Mutant: the row holds Gmail's name of the change.                       *)
JournalRaw(op, exists, L) ==
    rows' = Upsert(rows, {[hid |-> pos, msg |-> ev.msg, op |-> ev.op,
                           exists |-> exists, labels |-> L]})

Journal(op, exists, L) ==
    rows' = Upsert(rows, {[hid |-> pos, msg |-> ev.msg, op |-> op,
                           exists |-> exists, labels |-> L]})

Goto(p) ==
    /\ pc' = p
    /\ UNCHANGED <<cursor, tok, maxSeen, pos, half, rows, todo>>

(* Mutant: every error is passed over.                                     *)
RecordPassedOver ==
    /\ FinishRecord
    /\ failed' = IF ev.op = "labels" THEN failed \union {ev.msg} ELSE failed
    /\ UNCHANGED rows

(* An error while a record is applied: in MessagesAdded the run returns    *)
(* it, in LabelsAdded and LabelsRemoved it is counted and passed over.     *)
RecordFails ==
    \/ /\ ev.op = "add"
       /\ Stop
       /\ UNCHANGED failed
    \/ /\ ev.op = "labels"
       /\ FinishRecord
       /\ failed' = failed \union {ev.msg}
       /\ UNCHANGED rows

(* MessagesAdded for a message that has its file already.                  *)
AddPresent ==
    /\ Applying("add") /\ ev.msg \in file
    /\ FinishRecord
    /\ UNCHANGED <<mailbox, disk, db, ghost, rows>>

(* downloadAndWriteHistoryMessage, for an added message or to heal a label *)
(* change whose file is missing.                                           *)
Downloading ==
    (Applying("add") \/ Applying("labels")) /\ ev.msg \notin file

FetchBody ==
    /\ Downloading
    /\ ev.msg \in live \ Unparseable
    /\ Goto("meta")
    /\ UNCHANGED <<mailbox, disk, db, ghost, got>>

(* handleNewMsg returns NONE: 404, or a body that does not parse.          *)
BodyGone ==
    /\ Downloading
    /\ ev.msg \notin live \ Unparseable
    /\ FinishRecord
    /\ UNCHANGED <<mailbox, disk, db, ghost, rows>>

(* Mutant: the labels of the metadata are not used.                        *)
FetchNoLabels ==
    /\ pc = "meta" /\ ev.msg \in live
    /\ got' = {}
    /\ Goto("deliver")
    /\ UNCHANGED <<mailbox, disk, db, ghost>>

FetchMeta ==
    /\ pc = "meta" /\ ev.msg \in live
    /\ got' = lab[ev.msg]
    /\ Goto("deliver")
    /\ UNCHANGED <<mailbox, disk, db, ghost>>

(* An error before the file is written.  Unlike the body's, a 404 for the  *)
(* metadata is an error.                                                   *)
DownloadFails ==
    /\ \/ MayFail /\ (Downloading \/ pc \in {"meta", "deliver"})
       \/ pc = "meta" /\ ev.msg \notin live
    /\ RecordFails
    /\ UNCHANGED <<mailbox, disk, db, anchor, overshot, torn>>

Deliver(m, L) ==
    /\ file' = file \union {m}
    /\ kw' = [kw EXCEPT ![m] = L]

Remove(m) ==
    /\ file' = file \ {m}
    /\ kw' = [kw EXCEPT ![m] = {}]

(* dir.DeliverWithKey of a downloaded message.  A label change then goes   *)
(* on to rewrite the file.                                                 *)
DeliverNew ==
    /\ pc = "deliver"
    /\ Deliver(ev.msg, got)
    /\ \/ /\ ev.op = "add"
          /\ Journal("ADD", TRUE, got)
          /\ FinishRecord
       \/ /\ ev.op = "labels"
          /\ got' = {}
          /\ Goto("event")
    /\ UNCHANGED <<mailbox, db, ghost>>

(* deleteMessageByID.  A file that cannot be removed goes to writeDel,     *)
(* which finds no Bolt key and reports success.                            *)
ApplyDelete ==
    /\ Applying("delete")
    /\ \/ Remove(ev.msg) /\ UNCHANGED failed
       \/ /\ MayFail /\ ev.msg \in file
          /\ failed' = failed \union {ev.msg}
          /\ UNCHANGED disk
    /\ Journal("DELETE", FALSE, {})
    /\ FinishRecord
    /\ UNCHANGED <<mailbox, db, anchor, overshot, torn>>

(* applyHeaderLabelDelta                                                   *)
Delta(L, add, remove) == (L \union add) \ remove

(* applyHistoryLabelDelta removes the old file first ...                   *)
RewriteRemove ==
    /\ Applying("labels") /\ ev.msg \in file
    /\ got' = IF Removing THEN Delta(kw[ev.msg], {}, ev.lrem)
                          ELSE Delta(kw[ev.msg], ev.ladd, {})
    /\ Remove(ev.msg)
    /\ Goto("rewrite")
    /\ UNCHANGED <<mailbox, db, ghost>>

(* ... and delivers the rewritten message under the same key.  Labels of a *)
(* file that a replay has left half way go into the journal as they are.   *)
RewriteDeliver ==
    /\ pc = "rewrite"
    /\ Deliver(ev.msg, got)
    /\ Journal("WRITE_LABELS", TRUE, got)
    /\ FinishRecord
    /\ failed' = IF ev.msg \in torn THEN failed \union {ev.msg} ELSE failed
    /\ UNCHANGED <<mailbox, db, anchor, overshot, torn>>

RewriteFails ==
    /\ MayFail
    /\ pc = "rewrite" \/ (Applying("labels") /\ ev.msg \in file)
    /\ RecordFails
    /\ UNCHANGED <<mailbox, disk, db, anchor, overshot, torn>>

-----------------------------------------------------------------------------
(* The cursor has expired: replay the journal, or start over.              *)

RowsFrom(c) == {r \in journal : r.hid >= c}
Of(R) == {r.msg : r \in R}

(* Mutant: any rows will do.                                               *)
AnyCoverage(R) == R # {}

(* validateReplayCoverage: some row, hence the last one, reaches the       *)
(* committed cursor.                                                       *)
ReplayCoverage(R) == \E r \in R : r.hid >= committed

StartReplay ==
    /\ pc = "fetch" /\ Expired
    /\ LET R == RowsFrom(cursor)
       IN  \/ /\ ReplayCoverage(R)
              /\ \E last \in R : /\ \A r \in R : r.hid <= last.hid
                                /\ maxSeen' = last.hid
              /\ torn' = torn \union Of(R)
              /\ todo' = R
              /\ pc' = "replay"
           \/ /\ ~ReplayCoverage(R)
              /\ pc' = "clear"
              /\ UNCHANGED <<todo, maxSeen, torn>>
    /\ UNCHANGED <<mailbox, disk, db, anchor, overshot, failed,
                   cursor, tok, pos, half, got, rows>>

(* Mutant: without ORDER BY.                                               *)
ReplayingAny(r) == pc = "replay" /\ r \in todo

(* The rows are replayed in the order of their history ids.                *)
Replaying(r) == pc = "replay" /\ r \in todo /\ \A s \in todo : r.hid <= s.hid

ReplayNext(p, T) ==
    /\ pc' = p /\ todo' = T
    /\ UNCHANGED <<cursor, tok, maxSeen, pos, half, rows>>

ReplayDelete ==
    \E r \in todo :
        /\ Replaying(r) /\ ~r.exists
        /\ Remove(r.msg) \/ (MayFail /\ UNCHANGED disk)
        /\ ReplayNext("replay", todo \ {r})
        /\ UNCHANGED <<mailbox, db, ghost, got>>

(* applyJournalRowConvergence rewrites the file with the row's labels.     *)
ReplayRemove ==
    \E r \in todo :
        /\ Replaying(r) /\ r.exists /\ r.msg \in file
        /\ got' = r.labels
        /\ Remove(r.msg)
        /\ ReplayNext("replayRewrite", todo)
        /\ UNCHANGED <<mailbox, db, ghost>>

ReplayRewrite ==
    /\ pc = "replayRewrite"
    /\ \E r \in todo :
        /\ \A s \in todo : r.hid <= s.hid
        /\ Deliver(r.msg, got)
        /\ got' = {}
        /\ ReplayNext("replay", todo \ {r})
    /\ UNCHANGED <<mailbox, db, ghost>>

(* Without a file it downloads the body, and then rewrites that file.  A   *)
(* body that does not parse has no row: it was never delivered.            *)
ReplayDownload ==
    \E r \in todo :
        /\ Replaying(r) /\ r.exists /\ r.msg \in live \ (file \union Unparseable)
        /\ Deliver(r.msg, r.labels)
        /\ ReplayNext("replay", todo)
        /\ UNCHANGED <<mailbox, db, ghost, got>>

(* Any error gives the replay up: a message that is gone by now answers    *)
(* 404, a call or a file operation fails.                                  *)
ReplayFails ==
    /\ \/ \E r \in todo : Replaying(r) /\ r.exists /\ r.msg \notin live \union file
       \/ MayFail /\ pc \in {"replay", "replayRewrite"}
    /\ got' = {}
    /\ ReplayNext("clear", {})
    /\ UNCHANGED <<mailbox, disk, db, ghost>>

ReplayDone ==
    /\ pc = "replay" /\ todo = {}
    /\ CommitCursor(maxSeen)
    /\ torn' = torn \ Of(RowsFrom(cursor))
    /\ Stop
    /\ UNCHANGED <<mailbox, disk, journal, overshot, failed>>

(* clearHistoryState.  The Listing and Downloading-Archived stages that    *)
(* follow find the listing done and their checkpoint at its end: they do   *)
(* nothing, and the run ends.                                              *)
Clear ==
    /\ pc = "clear"
    /\ committed' = 0 /\ progress' = 0 /\ ptoken' = 0
    /\ Stop
    /\ UNCHANGED <<mailbox, disk, journal, ghost>>

(* The process is killed, or a call fails and the run returns its error.   *)
Abort ==
    /\ pc # "idle"
    /\ Stop
    /\ UNCHANGED <<mailbox, disk, db, ghost>>

-----------------------------------------------------------------------------
Run == StartResume \/ StartOverride \/ StartBootstrap

Apply ==
    \/ AddPresent \/ FetchBody \/ BodyGone \/ FetchMeta \/ DownloadFails
    \/ DeliverNew \/ ApplyDelete
    \/ RewriteRemove \/ RewriteDeliver \/ RewriteFails

Replay ==
    \/ StartReplay \/ ReplayDelete \/ ReplayRemove \/ ReplayRewrite
    \/ ReplayDownload \/ ReplayFails \/ ReplayDone \/ Clear

Sync == FetchPage \/ Apply \/ CommitPage \/ Commit \/ Replay

Gmail == MailboxNext /\ UNCHANGED <<disk, db, proc, ghost>>

Next == Gmail \/ Run \/ Sync \/ Abort

Spec == Init /\ [][Next]_vars

(* A run that is under way goes on, and the user runs outtake again, be    *)
(* the last run finished or not; nobody has to pass --start-history-id.    *)
FairSpec == Spec /\ WF_vars(StartResume \/ StartBootstrap) /\ WF_vars(Sync)

-----------------------------------------------------------------------------
(* Properties                                                              *)

(* The messages the mirror must follow: those with a body that parses, of  *)
(* which no step has failed and been passed over, that no replay has left  *)
(* half way, and of which no row was made from a file so left.             *)
Followed == Msgs \ (Unparseable \union failed \union torn)

(* Wherever the process is killed, between any two steps of a page, of a   *)
(* rewrite or of a transaction, and whatever the mailbox does meanwhile,   *)
(* the next run finds ahead of the position it resumes from a record for   *)
(* every way in which the mirror differs from the mailbox: nothing that    *)
(* was not applied is left behind the durable cursor (history_sync.go:150, *)
(* 169, 181-202).                                                          *)
ResumeCovered == ~overshot => Covered(Followed, file, kw, anchor)

(* When a sync has committed the mailbox's current history id, the mirror  *)
(* is the mailbox: the same messages with the same labels.                 *)
InSync ==
    pc = "idle" /\ progress = 0 /\ committed = top /\ ~overshot
        => ExactMirror(Followed, file, kw)

(* A journal row never disagrees with the mailbox about a change at or     *)
(* before its own record, even when the labels it holds were downloaded    *)
(* later or after other records of the page (history_sync.go:92-94, 117,   *)
(* 138): replaying it takes back only what lies ahead of it.               *)
JournalCovered ==
    \A r \in journal : r.msg \in Followed /\ ~overshot =>
        IF r.exists
        THEN /\ OwedLabels(r.msg, r.labels, Labels, r.hid)
             /\ OwedDelete(r.msg, {r.msg}, r.hid)
        ELSE r.msg \notin live

(* A committed cursor never moves back, not through a resumed run, a       *)
(* replay of fewer rows than were applied, or --start-history-id           *)
(* (validateReplayCoverage, history_journal.go:74); only the fallback      *)
(* removes it.                                                             *)
CursorMonotone == [][committed' >= committed \/ pc = "clear"]_vars

(* A replay that ends leaves a mirror that the cursor it commits accounts  *)
(* for (history_sync.go:390-399), also when earlier runs were killed while *)
(* they rewrote or journaled the same messages.                            *)
ReplayConverges ==
    [][ReplayDone /\ ~overshot => Covered(Followed', file, kw, maxSeen)]_vars

(* Once the process is no longer killed, no download fails of a message    *)
(* that exists and nobody passes --start-history-id, the mirror becomes    *)
(* exact and stays so, provided a cursor was bootstrapped in time and the  *)
(* log does not expire (history_sync.go:24-229).                           *)
Disturbed == Abort \/ StartOverride \/ (DownloadFails /\ ev.msg \in live)

EventuallyMirrored ==
    /\ <>[][~Disturbed]_vars
    /\ <>(progress # 0 \/ committed # 0)
    /\ [](floor = 0 /\ ~overshot)
    => <>[]ExactMirror(Followed, file, kw)

(* docs/plans/2026-03-15-history-replay-journal-in-sqlite.md: after a      *)
(* complete replay, "continue normal sync from resulting cursor".          *)
ReplayContinues ==
    <>[][~Abort]_vars => (pc = "replay" ~> pc \in {"event", "clear"})
=============================================================================
