------------------------------ MODULE Outtake ------------------------------
(***************************************************************************)
(* The runs of outtake as a whole (main.go:90-107): every run goes through *)
(* Listing, Downloading-Archived and History, in this order, and each of   *)
(* them finds in SQLite and in the maildir what earlier runs have left.    *)
(* The process may be killed between any two steps and the mailbox changes *)
(* all the time.  The stages themselves have modules of their own; here a  *)
(* page of the listing, a message and a history record are one step each,  *)
(* history has one page, and no call fails unless a message is gone or the *)
(* history log has expired.  A replay of the journal is as in the module   *)
(* History: one step for each file that is removed or delivered.           *)
(***************************************************************************)
EXTENDS Mailbox, Sequences, FiniteSets

CONSTANTS
    PageMax,       \* messages on one page of GetMessages
    Unparseable    \* messages whose body mail.ReadMessage cannot parse

ASSUME OuttakeAssumption ==
    /\ IsFiniteSet(Msgs)
    /\ Msgs = 1 .. Cardinality(Msgs)        \* in order of arrival
    /\ Listed = 1 .. Cardinality(Listed)
    /\ PageMax \in Nat \ {0}
    /\ Unparseable \subseteq Msgs

VARIABLES
    rows,       \* the listed messages, ordered by responseId and id
    below,      \* the next page has the messages below, 0: listing is done
    ckpt,       \* rows behind the checkpoint of Downloading-Archived
    file, kw,   \* the maildir: messages with a file, labels in the headers
    progress,   \* sync.history.cursor_progress, 0 if absent
    committed,  \* sync.history.cursor_committed, 0 if absent
    journal,    \* history_replay_journal, by history id
    pc,         \* what the process does next
    fallback,   \* the stages are run by the fallback of History
    at,         \* rows or records gone through by this run
    cursor, last, \* History: cursor and maxSeen of the run
    jrows,      \* pageJournalRows
    todo,       \* rows of the journal still to be replayed
    listedAt,   \* ghost: the history id when the first page was listed
    late,       \* ghost: a bootstrap cursor was above listedAt
    owed,       \* ghost: messages without a file when the fallback began
    torn        \* ghost: messages a replay of which has not come to its end

disk == <<file, kw>>
listing == <<rows, below, listedAt>>
db == <<progress, committed, journal>>
run == <<fallback, at, cursor, last, jrows, todo>>
vars == <<mailbox, listing, ckpt, disk, db, pc, run, late, owed, torn>>

Row == [msg : Msgs, exists : BOOLEAN, labels : SUBSET Labels]
Beyond == Cardinality(Msgs) + 1

TypeOK ==
    /\ MailboxTypeOK
    /\ rows \in Seq(Msgs) /\ below \in 0 .. Beyond
    /\ ckpt \in 0 .. Len(rows)
    /\ pc = "archive" => ckpt <= at /\ at <= Len(rows)
    /\ file \subseteq Msgs /\ kw \in [Msgs -> SUBSET Labels]
    /\ {progress, committed, cursor, last, listedAt} \subseteq 0 .. top
    /\ DOMAIN journal \subseteq Base + 1 .. top
    /\ \A n \in DOMAIN journal : journal[n] \in Row
    /\ DOMAIN jrows \subseteq cursor + 1 .. at
    /\ todo \subseteq DOMAIN journal
    /\ pc \in {"idle", "list", "archive", "history", "fetch", "apply", "commit", "replay",
              "rewrite", "clear"}
    /\ fallback \in BOOLEAN /\ at \in Nat
    /\ late \in BOOLEAN /\ owed \subseteq Msgs /\ torn \subseteq Msgs

NoRows == [n \in {} |-> {}]

Init ==
    /\ MailboxInit
    /\ rows = <<>> /\ below = Beyond /\ listedAt = 0
    /\ ckpt = 0 /\ file = {} /\ kw = [m \in Msgs |-> {}]
    /\ progress = 0 /\ committed = 0 /\ journal = NoRows
    /\ pc = "idle" /\ fallback = FALSE /\ at = 0 /\ cursor = 0 /\ last = 0
    /\ jrows = NoRows /\ todo = {}
    /\ late = FALSE /\ owed = {} /\ torn = {}

Stop ==
    /\ pc' = "idle" /\ fallback' = FALSE
    /\ at' = 0 /\ cursor' = 0 /\ last' = 0 /\ jrows' = NoRows /\ todo' = {}

Start ==
    /\ pc = "idle"
    /\ pc' = "list"
    /\ owed' = {}
    /\ UNCHANGED <<mailbox, listing, ckpt, disk, db, run, late, torn>>

-----------------------------------------------------------------------------
(* Listing                                                                 *)

Older == {m \in live : m < below}

IsPage(P) ==
    /\ P \subseteq Older
    /\ \A m \in P, k \in Older \ P : m > k
    /\ Cardinality(P) <= PageMax
    /\ Cardinality(P) = PageMax \/ P = Older

Orders(P) == {s \in [1 .. Cardinality(P) -> P] : {s[i] : i \in DOMAIN s} = P}

(* A page, and the token of the next one.  The rows of a page are ordered  *)
(* by message id, whatever the order of arrival.                           *)
ListPage ==
    /\ pc = "list" /\ below # 0
    /\ \E P \in SUBSET live :
        /\ IsPage(P)
        /\ \E s \in Orders(P) : rows' = rows \o s
        /\ below' = IF P = Older THEN 0 ELSE CHOOSE m \in P : \A k \in P : m <= k
    /\ listedAt' = IF below = Beyond THEN top ELSE listedAt
    /\ UNCHANGED <<mailbox, ckpt, disk, db, pc, run, late, owed, torn>>

(* A complete listing is never done again.                                 *)
ListDone ==
    /\ pc = "list" /\ below = 0
    /\ pc' = "archive" /\ at' = ckpt
    /\ UNCHANGED <<mailbox, listing, ckpt, disk, db, fallback, cursor, last, jrows, todo,
                   late, owed, torn>>

-----------------------------------------------------------------------------
(* Downloading-Archived                                                    *)

Deliver(m) ==
    /\ file' = file \union {m}
    /\ kw' = [kw EXCEPT ![m] = lab[m]]

(* Messages whose body GetMessage gives and mail.ReadMessage parses.       *)
Readable == live \ Unparseable

(* A message that has a file, is gone or does not parse is passed over.    *)
ArchiveRow ==
    /\ pc = "archive" /\ at < Len(rows)
    /\ LET m == rows[at + 1]
       IN  \/ m \in Readable \ file /\ Deliver(m)
           \/ m \notin Readable \ file /\ UNCHANGED disk
    /\ at' = at + 1
    /\ UNCHANGED <<mailbox, listing, ckpt, db, pc, fallback, cursor, last, jrows, todo,
                   late, owed, torn>>

(* Mutant: the checkpoint is that of the row being downloaded.             *)
FlushAhead ==
    /\ pc = "archive" /\ at < Len(rows)
    /\ ckpt' = at + 1
    /\ UNCHANGED <<mailbox, listing, disk, db, pc, run, late, owed, torn>>

(* flushCheckpoint, now and then                                           *)
Flush ==
    /\ pc = "archive" /\ ckpt < at
    /\ ckpt' = at
    /\ UNCHANGED <<mailbox, listing, disk, db, pc, run, late, owed, torn>>

(* ... and at the end.                                                     *)
ArchiveDone ==
    /\ pc = "archive" /\ at = Len(rows)
    /\ ckpt' = at
    /\ IF fallback THEN Stop ELSE pc' = "history" /\ UNCHANGED run
    /\ UNCHANGED <<mailbox, listing, disk, db, late, owed, torn>>

-----------------------------------------------------------------------------
(* History                                                                 *)

Resumable == progress # 0 \/ committed # 0
Position == IF progress # 0 THEN progress ELSE committed

Fetch(c) ==
    /\ pc' = "fetch" /\ cursor' = c
    /\ UNCHANGED <<fallback, at, last, jrows, todo>>

Resume ==
    /\ pc = "history" /\ Resumable
    /\ Fetch(Position)
    /\ UNCHANGED <<mailbox, listing, ckpt, disk, db, late, owed, torn>>

FirstThere == rows # <<>> /\ rows[1] \in live

(* Mutant: the cursor is the mailbox's history id.                         *)
BootstrapCurrent ==
    /\ pc = "history" /\ ~Resumable
    /\ FirstThere
    /\ \E c \in Base .. top :
        /\ c = top
        /\ progress' = c
        /\ Fetch(c)
        /\ late' = (late \/ \E k \in Base .. top : HistoryIdOf(rows[1], k) /\ k > listedAt)
    /\ UNCHANGED <<mailbox, listing, ckpt, disk, committed, journal, owed, torn>>

(* bootstrapHistoryCursor: the history id of the first row's message now.  *)
Bootstrap ==
    /\ pc = "history" /\ ~Resumable
    /\ FirstThere
    /\ \E c \in Base .. top :
        /\ HistoryIdOf(rows[1], c)
        /\ progress' = c
        /\ Fetch(c)
        /\ late' = (late \/ c > listedAt)
    /\ UNCHANGED <<mailbox, listing, ckpt, disk, committed, journal, owed, torn>>

(* Without a row the stage is skipped; when the message is gone the run    *)
(* fails.                                                                  *)
NoBootstrap ==
    /\ pc = "history" /\ ~Resumable
    /\ ~FirstThere
    /\ Stop
    /\ UNCHANGED <<mailbox, listing, ckpt, disk, db, late, owed, torn>>

Expired == cursor < floor

FetchHistory ==
    /\ pc = "fetch" /\ ~Expired
    /\ pc' = "apply" /\ at' = cursor /\ last' = top
    /\ UNCHANGED <<mailbox, listing, ckpt, disk, db, fallback, cursor, jrows, todo,
                   late, owed, torn>>

Note(n, m, e, L) ==
    jrows' = [i \in DOMAIN jrows \union {n} |->
                IF i = n THEN [msg |-> m, exists |-> e, labels |-> L] ELSE jrows[i]]

(* A message is downloaded unless it has a file, is gone or does not       *)
(* parse.                                                                  *)
ApplyAdd(n) ==
    LET m == log[n].msg
    IN  /\ log[n].op = "add"
        /\ \/ m \in Readable \ file /\ Deliver(m) /\ Note(n, m, TRUE, lab[m])
           \/ m \notin Readable \ file /\ UNCHANGED <<disk, jrows>>

ApplyDelete(n) ==
    LET m == log[n].msg
    IN  /\ log[n].op = "delete"
        /\ file' = file \ {m} /\ kw' = [kw EXCEPT ![m] = {}]
        /\ Note(n, m, FALSE, {})

(* applyHistoryLabelDelta downloads the message first if it has no file.   *)
ApplyLabels(n) ==
    LET m == log[n].msg
        old == IF m \in file THEN kw[m] ELSE lab[m]
        L == (old \union log[n].ladd) \ log[n].lrem
    IN  /\ log[n].op = "labels"
        /\ \/ /\ m \in Readable \union file
              /\ file' = file \union {m} /\ kw' = [kw EXCEPT ![m] = L]
              /\ Note(n, m, TRUE, L)
           \/ m \notin Readable \union file /\ UNCHANGED <<disk, jrows>>

ApplyRecord ==
    /\ pc = "apply" /\ at < last
    /\ at' = at + 1
    /\ ApplyAdd(at + 1) \/ ApplyDelete(at + 1) \/ ApplyLabels(at + 1)
    /\ UNCHANGED <<mailbox, listing, ckpt, db, pc, fallback, cursor, last, todo, late, owed,
                   torn>>

(* setHistoryProgressWithJournal                                           *)
CommitPage ==
    /\ pc = "apply" /\ at = last
    /\ progress' = last
    /\ journal' = [n \in DOMAIN journal \union DOMAIN jrows |->
                     IF n \in DOMAIN jrows THEN jrows[n] ELSE journal[n]]
    /\ pc' = "commit"
    /\ UNCHANGED <<mailbox, listing, ckpt, disk, committed, run, late, owed, torn>>

Commit ==
    /\ pc = "commit"
    /\ committed' = last /\ progress' = 0
    /\ Stop
    /\ UNCHANGED <<mailbox, listing, ckpt, disk, journal, late, owed, torn>>

(* The rows a replay from the cursor goes through.                         *)
Rows == {n \in DOMAIN journal : n >= cursor}
MessagesOf(R) == {journal[n].msg : n \in R}

(* validateReplayCoverage                                                  *)
Replayable == \E n \in Rows : n >= committed

(* The cursor has expired: replayFromLocalJournal, or the fallback.        *)
StartReplay ==
    /\ pc = "fetch" /\ Expired
    /\ \/ Replayable /\ pc' = "replay" /\ todo' = Rows /\ torn' = torn \union MessagesOf(Rows)
       \/ ~Replayable /\ pc' = "clear" /\ UNCHANGED <<todo, torn>>
    /\ UNCHANGED <<mailbox, listing, ckpt, disk, db, fallback, at, cursor, last, jrows,
                   late, owed>>

(* applyJournalRowConvergence, for the rows in the order of their records. *)
NextRow(n) == n \in todo /\ \A k \in todo : n <= k

Replaying(n) == pc = "replay" /\ NextRow(n)

ReplayNext(p, T) ==
    /\ pc' = p /\ todo' = T
    /\ UNCHANGED <<mailbox, listing, ckpt, db, fallback, at, cursor, last, jrows,
                   late, owed, torn>>

Remove(m) ==
    /\ file' = file \ {m}
    /\ kw' = [kw EXCEPT ![m] = {}]

Rewrite(n) ==
    /\ file' = file \union {journal[n].msg}
    /\ kw' = [kw EXCEPT ![journal[n].msg] = journal[n].labels]

ReplayDelete ==
    \E n \in todo :
        /\ Replaying(n) /\ ~journal[n].exists
        /\ Remove(journal[n].msg)
        /\ ReplayNext("replay", todo \ {n})

(* The file is removed and delivered again with the row's labels; without  *)
(* a file the body is downloaded first.  A body that does not parse has no *)
(* row.                                                                    *)
ReplayRemove ==
    \E n \in todo :
        /\ Replaying(n) /\ journal[n].exists /\ journal[n].msg \in file
        /\ Remove(journal[n].msg)
        /\ ReplayNext("rewrite", todo)

ReplayRewrite ==
    /\ pc = "rewrite"
    /\ \E n \in todo :
        /\ NextRow(n)
        /\ Rewrite(n)
        /\ ReplayNext("replay", todo \ {n})

ReplayDownload ==
    \E n \in todo :
        /\ Replaying(n) /\ journal[n].exists /\ journal[n].msg \in Readable \ file
        /\ Rewrite(n)
        /\ ReplayNext("replay", todo)

(* A message that is gone by now answers 404, and the replay gives up.     *)
ReplayFails ==
    /\ \E n \in todo :
        /\ Replaying(n) /\ journal[n].exists /\ journal[n].msg \notin live \union file
    /\ ReplayNext("clear", {})
    /\ UNCHANGED disk

(* The last row's history id is committed.                                 *)
ReplayDone ==
    /\ pc = "replay" /\ todo = {}
    /\ \E n \in Rows : (\A k \in Rows : k <= n) /\ committed' = n
    /\ progress' = 0
    /\ torn' = torn \ MessagesOf(Rows)
    /\ Stop
    /\ UNCHANGED <<mailbox, listing, ckpt, disk, journal, late, owed>>

(* No replay, or one that gave up: the history state is cleared, and       *)
(* Listing and Downloading-Archived are run again.                         *)
ClearHistory ==
    /\ pc = "clear"
    /\ progress' = 0 /\ committed' = 0
    /\ pc' = "list" /\ fallback' = TRUE
    /\ owed' = Readable \ file
    /\ UNCHANGED <<mailbox, listing, ckpt, disk, journal, at, cursor, last, jrows, todo,
                   late, torn>>

-----------------------------------------------------------------------------
Kill ==
    /\ pc # "idle"
    /\ Stop
    /\ owed' = {}
    /\ UNCHANGED <<mailbox, listing, ckpt, disk, db, late, torn>>

Arrive(m, L) ==
    /\ \A k \in Msgs : Touched(k) => k < m
    /\ NewMessage(m, L)

Gmail ==
    /\ \/ \E m \in Msgs, L \in SUBSET Labels : Arrive(m, L)
       \/ \E m \in Msgs : DeleteMessage(m)
       \/ \E m \in Msgs, A, R \in SUBSET Labels : ModifyLabels(m, A, R)
       \/ \E f \in Base + 1 .. MaxHistoryId : Expire(f)
    /\ UNCHANGED <<listing, ckpt, disk, db, pc, run, late, owed, torn>>

Stages ==
    \/ Start
    \/ ListPage \/ ListDone
    \/ ArchiveRow \/ Flush \/ ArchiveDone
    \/ Resume \/ Bootstrap \/ NoBootstrap
    \/ FetchHistory \/ ApplyRecord \/ CommitPage \/ Commit
    \/ StartReplay \/ ReplayDelete \/ ReplayRemove \/ ReplayRewrite \/ ReplayDownload
    \/ ReplayFails \/ ReplayDone \/ ClearHistory

Next == Stages \/ Kill \/ Gmail

Spec == Init /\ [][Next]_vars

(* The process is started again and again, and each run goes on.           *)
FairSpec == Spec /\ WF_vars(Stages)

-----------------------------------------------------------------------------
(* Properties                                                              *)

(* The messages the mirror must follow: those with a body that parses that *)
(* no replay has left half way.                                            *)
Followed == Msgs \ (Unparseable \union torn)

(* From the first bootstrap on, whatever happened to the mailbox while it  *)
(* was listed and downloaded, and wherever runs were killed, every         *)
(* difference between mailbox and mirror is brought in by a record above   *)
(* the cursor - if the message the cursor was bootstrapped from had not    *)
(* changed since the listing (history_sync.go:35-44), and for all messages *)
(* but those of a replay that was cut off or gave up (history_sync.go:57,  *)
(* 390-399).  This is what the module History assumes of its initial       *)
(* states.                                                                 *)
MirrorCovered == Resumable /\ ~late => Covered(Followed, file, kw, Position)

(* A kill just before a run ends by itself is none.                        *)
KillsEnd == <>[][Kill => Stages]_vars

(* Once kills are over and a cursor was bootstrapped in time, the mirror   *)
(* becomes exact and stays so, unless the history log expires: the three   *)
(* stages leave nothing between them (main.go:90-107).                     *)
EventuallyExact ==
    KillsEnd /\ <>Resumable /\ [](~late /\ floor = 0) =>
        <>[]ExactMirror(Followed, file, kw)

(* m3.md: "Fall back to M1+M2 backfill path on same run."  A fallback that *)
(* was not killed has downloaded what was missing.                         *)
Backfilled == pc = "idle" => owed \intersect live \subseteq file
=============================================================================
