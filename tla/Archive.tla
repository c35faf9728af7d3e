------------------------------ MODULE Archive ------------------------------
(***************************************************************************)
(* The Downloading-Archived stage (lib/gmail/message_sync.go): download    *)
(* every listed message into the maildir.  A producer reads the list in    *)
(* batches into workCh, workers download and put their results into        *)
(* resultCh, and the main loop applies the results in the order of the     *)
(* list and saves a checkpoint in SQLite.  The process may die at any      *)
(* step; the next run starts after the checkpoint.                         *)
(*                                                                         *)
(* The rows of the list, ordered by responseId and id, are 1..N.  Every    *)
(* use of the one SQLite connection is a single step: no goroutine waits   *)
(* for another one while it holds it.                                      *)
(***************************************************************************)
EXTENDS Naturals, Sequences

CONSTANTS
    Msgs,           \* message ids
    N,              \* rows in gmail_users_messages_list_response_messages
    MsgOf,          \* the message of each row; two pages may list the same one
    Unparseable,    \* messages whose body mail.ReadMessage cannot parse
    Workers,        \* the download goroutines; the code clamps them to one
    BufferSize,     \* MessageBufferSize, the capacity of both channels
    BatchSize,      \* rows read by one query, 500 in the code
    FlushEvery,     \* checkpointFlushEvery, 50 in the code
    MayFail         \* whether Gmail calls, file operations and queries may fail

ASSUME ArchiveAssumption ==
    /\ N \in Nat
    /\ MsgOf \in [1 .. N -> Msgs]
    /\ Unparseable \subseteq Msgs
    /\ Workers # {}
    /\ BufferSize \in Nat \ {0} /\ BatchSize \in Nat \ {0}
    /\ FlushEvery \in Nat \ {0}
    /\ MayFail \in BOOLEAN

VARIABLES
    live,           \* external: listed messages that still exist in Gmail
    file,           \* the messages that have a file in the maildir
    ckpt,           \* durable: sync.materialize.cursor, 0 when absent
    main,           \* the main loop
    start,          \* lastRespID, lastMsgID: the checkpoint the run started at
    prod,           \* the producer; it closes workCh when it is done
    cursor,         \* the last row the producer has sent
    batchEnd,       \* the last row of the producer's batch
    seq,            \* the number of the producer's next item
    prodErr,        \* the error the producer has left in prodErrCh
    workCh, resultCh,
    worker,         \* what each worker does next
    item,           \* the item it has taken
    pending,        \* results that wait for an earlier one
    nextToApply,    \* the number of the next result to apply
    latest,         \* latestCheckpoint, 0 while there is none
    unflushed,      \* unflushedApplied
    outcome,        \* what SyncListedMessagesWithDB has returned last
    failed,         \* ghost: rows whose download ended in an error
    handled         \* ghost: rows some run has gone through

disk == <<file, ckpt>>
producer == <<prod, cursor, batchEnd, seq, prodErr>>
apply == <<pending, nextToApply, latest, unflushed>>
ghost == <<failed, handled>>
vars == <<live, disk, main, start, producer, workCh, resultCh, worker, item,
          apply, outcome, ghost>>

(* A phase2WorkItem; a phase2Result keeps its number and its row.          *)
Item == [seq : Nat, row : 1 .. N]
NoItem == [seq |-> 0, row |-> 0]

TypeOK ==
    /\ live \subseteq Msgs /\ file \subseteq Msgs
    /\ ckpt \in 0 .. N /\ start \in 0 .. N
    /\ main \in {"idle", "loop", "flush", "return"}
    /\ prod \in {"query", "send", "done"}
    /\ cursor \in 0 .. N /\ batchEnd \in 0 .. N /\ seq \in Nat
    /\ prodErr \in BOOLEAN
    /\ workCh \in Seq(Item) /\ Len(workCh) <= BufferSize
    /\ resultCh \in Seq(Item) /\ Len(resultCh) <= BufferSize
    /\ worker \in [Workers -> {"idle", "check", "meta", "deliver", "put", "exited"}]
    /\ item \in [Workers -> Item \union {NoItem}]
    /\ pending \subseteq Item
    /\ nextToApply \in Nat \ {0} /\ latest \in 0 .. N /\ unflushed \in Nat
    /\ outcome \in {"none", "ok", "error"}
    /\ failed \subseteq 1 .. N /\ handled \subseteq 1 .. N

-----------------------------------------------------------------------------
Init ==
    /\ live \in SUBSET Msgs /\ file = {} /\ ckpt = 0
    /\ main = "idle" /\ start = 0
    /\ prod = "done" /\ cursor = 0 /\ batchEnd = 0 /\ seq = 0 /\ prodErr = FALSE
    /\ workCh = <<>> /\ resultCh = <<>>
    /\ worker = [w \in Workers |-> "exited"] /\ item = [w \in Workers |-> NoItem]
    /\ pending = {} /\ nextToApply = 1 /\ latest = 0 /\ unflushed = 0
    /\ outcome = "none" /\ failed = {} /\ handled = {}

(* The process ends; what it held in memory is gone.                       *)
Stop ==
    /\ main' = "idle" /\ start' = 0
    /\ prod' = "done" /\ cursor' = 0 /\ batchEnd' = 0 /\ seq' = 0 /\ prodErr' = FALSE
    /\ workCh' = <<>> /\ resultCh' = <<>>
    /\ worker' = [w \in Workers |-> "exited"] /\ item' = [w \in Workers |-> NoItem]
    /\ pending' = {} /\ nextToApply' = 1 /\ latest' = 0 /\ unflushed' = 0

(* The stage begins, after the checkpoint.                                 *)
Start ==
    /\ main = "idle"
    /\ main' = "loop" /\ start' = ckpt
    /\ prod' = "query" /\ cursor' = ckpt /\ batchEnd' = ckpt
    /\ seq' = 1 /\ prodErr' = FALSE
    /\ worker' = [w \in Workers |-> "idle"]
    /\ outcome' = "none"
    /\ UNCHANGED <<live, disk, workCh, resultCh, item, apply, ghost>>

Running == main # "idle"

-----------------------------------------------------------------------------
(* The producer                                                            *)

LowerOf(a, b) == IF a <= b THEN a ELSE b

(* Mutant: the last batch is taken to be full.                             *)
QueryFull ==
    /\ prod = "query"
    /\ batchEnd' = cursor + BatchSize
    /\ prod' = IF cursor >= N THEN "done" ELSE "send"
    /\ UNCHANGED <<live, disk, main, start, cursor, seq, prodErr, workCh, resultCh,
                   worker, item, apply, outcome, ghost>>

(* nextListedMessagesBatch; an empty batch ends the producer.              *)
Query ==
    /\ prod = "query"
    /\ batchEnd' = LowerOf(cursor + BatchSize, N)
    /\ prod' = IF batchEnd' = cursor THEN "done" ELSE "send"
    /\ UNCHANGED <<live, disk, main, start, cursor, seq, prodErr, workCh, resultCh,
                   worker, item, apply, outcome, ghost>>

(* An error of the query ends the producer too, and is kept for later.     *)
QueryFails ==
    /\ MayFail
    /\ prod = "query"
    /\ prod' = "done" /\ prodErr' = TRUE
    /\ UNCHANGED <<live, disk, main, start, cursor, batchEnd, seq, workCh, resultCh,
                   worker, item, apply, outcome, ghost>>

Send ==
    /\ prod = "send"
    /\ Len(workCh) < BufferSize
    /\ workCh' = Append(workCh, [seq |-> seq, row |-> cursor + 1])
    /\ seq' = seq + 1
    /\ cursor' = cursor + 1
    /\ prod' = IF cursor' = batchEnd THEN "query" ELSE "send"
    /\ UNCHANGED <<live, disk, main, start, batchEnd, prodErr, resultCh,
                   worker, item, apply, outcome, ghost>>

-----------------------------------------------------------------------------
(* The workers: downloadAndWriteListedMessage for one item at a time.      *)

Mine(w) == MsgOf[item[w].row]

Take(w) ==
    /\ worker[w] = "idle" /\ workCh # <<>>
    /\ item' = [item EXCEPT ![w] = Head(workCh)]
    /\ workCh' = Tail(workCh)
    /\ worker' = [worker EXCEPT ![w] = "check"]
    /\ UNCHANGED <<live, disk, main, start, producer, resultCh, apply, outcome, ghost>>

Work(w, from, to) ==
    /\ worker[w] = from
    /\ worker' = [worker EXCEPT ![w] = to]
    /\ UNCHANGED <<live, ckpt, main, start, producer, workCh, resultCh, item, apply, outcome>>

(* The row has been gone through, one way or another.                      *)
Through(w) == handled' = handled \union {item[w].row}

(* GetFile finds the message: it has been downloaded before.               *)
Present(w) ==
    /\ Work(w, "check", "put")
    /\ Mine(w) \in file
    /\ Through(w)
    /\ UNCHANGED <<file, failed>>

FetchBody(w) ==
    /\ Work(w, "check", "meta")
    /\ Mine(w) \in live \ (file \union Unparseable)
    /\ UNCHANGED <<file, ghost>>

(* handleNewMsg returns NONE: 404, or a body that does not parse.          *)
BodyGone(w) ==
    /\ Work(w, "check", "put")
    /\ Mine(w) \notin file \union (live \ Unparseable)
    /\ Through(w)
    /\ UNCHANGED <<file, failed>>

FetchMeta(w) ==
    /\ Work(w, "meta", "deliver")
    /\ Mine(w) \in live
    /\ UNCHANGED <<file, ghost>>

Deliver(w) ==
    /\ Work(w, "deliver", "put")
    /\ file' = file \union {Mine(w)}
    /\ Through(w)
    /\ UNCHANGED failed

(* Any error of the download is passed on in the result.  A 404 for the    *)
(* metadata is one.                                                        *)
Fails(w) ==
    /\ \/ MayFail /\ (worker[w] = "check" => Mine(w) \notin file)
       \/ worker[w] = "meta" /\ Mine(w) \notin live
    /\ \E from \in {"check", "meta", "deliver"} : Work(w, from, "put")
    /\ failed' = failed \union {item[w].row}
    /\ Through(w)
    /\ UNCHANGED file

Put(w) ==
    /\ worker[w] = "put" /\ Len(resultCh) < BufferSize
    /\ resultCh' = Append(resultCh, item[w])
    /\ worker' = [worker EXCEPT ![w] = "idle"]
    /\ item' = [item EXCEPT ![w] = NoItem]
    /\ UNCHANGED <<live, disk, main, start, producer, workCh, apply, outcome, ghost>>

(* Mutant: workCh is left open when the query has failed.                  *)
ExitAfterSuccess(w) ==
    /\ worker[w] = "idle" /\ prod = "done" /\ ~prodErr /\ workCh = <<>>
    /\ worker' = [worker EXCEPT ![w] = "exited"]
    /\ UNCHANGED <<live, disk, main, start, producer, workCh, resultCh, item,
                   apply, outcome, ghost>>

(* workCh is closed and empty.                                             *)
Exit(w) ==
    /\ worker[w] = "idle" /\ prod = "done" /\ workCh = <<>>
    /\ worker' = [worker EXCEPT ![w] = "exited"]
    /\ UNCHANGED <<live, disk, main, start, producer, workCh, resultCh, item,
                   apply, outcome, ghost>>

-----------------------------------------------------------------------------
(* The main loop                                                           *)

(* Mutant: a gap in the numbers is not waited for.                         *)
NewestFirst(P, n) ==
    \E last \in {r.seq : r \in P} : /\ n = last + 1
                                    /\ \A r \in P : r.seq <= last

(* Mutant: an applied result is not deleted from the reorder buffer.       *)
WaitingAll(P, n) == P

(* With the results P at hand, those below number n can be applied.        *)
InOrder(P, n) ==
    /\ nextToApply .. n - 1 \subseteq {r.seq : r \in P}
    /\ n \notin {r.seq : r \in P}

Waiting(P, n) == {r \in P : r.seq \notin nextToApply .. n - 1}

(* A result comes in; all that are now in order are applied.               *)
Receive ==
    /\ main = "loop" /\ resultCh # <<>>
    /\ resultCh' = Tail(resultCh)
    /\ LET P == pending \union {Head(resultCh)}
       IN  \E n \in nextToApply .. nextToApply + N :
               /\ InOrder(P, n)
               /\ nextToApply' = n
               /\ pending' = Waiting(P, n)
               /\ latest' = IF n = nextToApply THEN latest
                            ELSE (CHOOSE r \in P : r.seq = n - 1).row
               /\ unflushed' = unflushed + (n - nextToApply)
    /\ main' = "flush"
    /\ UNCHANGED <<live, disk, start, producer, workCh, worker, item, outcome, ghost>>

(* Mutant: the checkpoint is the row the producer has come to.             *)
FlushingSent ==
    /\ latest # 0
    /\ ckpt' = cursor
    /\ unflushed' = 0

Flushing ==
    /\ latest # 0
    /\ ckpt' = latest
    /\ unflushed' = 0

(* flushCheckpoint(false) writes the checkpoint when FlushEvery results    *)
(* have been applied since the last time, or two seconds have passed.      *)
Flush ==
    /\ main = "flush"
    /\ \/ Flushing
       \/ /\ latest = 0 \/ unflushed < FlushEvery
          /\ UNCHANGED <<ckpt, unflushed>>
    /\ main' = "loop"
    /\ UNCHANGED <<live, file, start, producer, workCh, resultCh, worker, item,
                   pending, nextToApply, latest, outcome, ghost>>

(* Mutant: flushCheckpoint is not forced at the end.                       *)
FinalFlushLazy ==
    /\ main = "loop" /\ resultCh = <<>>
    /\ \A w \in Workers : worker[w] = "exited"
    /\ IF unflushed >= FlushEvery THEN Flushing ELSE UNCHANGED <<ckpt, unflushed>>
    /\ main' = "return"
    /\ UNCHANGED <<live, file, start, producer, workCh, resultCh, worker, item,
                   pending, nextToApply, latest, outcome, ghost>>

(* resultCh is closed and empty: flushCheckpoint(true).                    *)
FinalFlush ==
    /\ main = "loop" /\ resultCh = <<>>
    /\ \A w \in Workers : worker[w] = "exited"
    /\ Flushing \/ (latest = 0 /\ UNCHANGED <<ckpt, unflushed>>)
    /\ main' = "return"
    /\ UNCHANGED <<live, file, start, producer, workCh, resultCh, worker, item,
                   pending, nextToApply, latest, outcome, ghost>>

(* Mutant: the error of the producer is not looked at.                     *)
ReturnOk ==
    /\ main = "return"
    /\ outcome' = "ok"
    /\ Stop
    /\ UNCHANGED <<live, disk, ghost>>

(* The error of the producer is looked at last.                            *)
Return ==
    /\ main = "return"
    /\ outcome' = IF prodErr THEN "error" ELSE "ok"
    /\ Stop
    /\ UNCHANGED <<live, disk, ghost>>

(* The process is killed, or the checkpoint cannot be written.             *)
Abort ==
    /\ Running
    /\ outcome' = "error"
    /\ Stop
    /\ UNCHANGED <<live, disk, ghost>>

(* A listed message is deleted in Gmail.                                   *)
DeleteMessage ==
    /\ \E m \in live : live' = live \ {m}
    /\ UNCHANGED <<disk, main, start, producer, workCh, resultCh, worker, item,
                   apply, outcome, ghost>>

-----------------------------------------------------------------------------
Produce == Query \/ QueryFails \/ Send

Download(w) ==
    \/ Take(w) \/ Present(w) \/ FetchBody(w) \/ BodyGone(w) \/ FetchMeta(w)
    \/ Deliver(w) \/ Fails(w) \/ Put(w) \/ Exit(w)

Collect == Receive \/ Flush \/ FinalFlush \/ Return

Next ==
    \/ Start \/ Produce \/ (\E w \in Workers : Download(w)) \/ Collect
    \/ Abort \/ DeleteMessage

Spec == Init /\ [][Next]_vars

(* The Go scheduler runs every goroutine that can go on; the user runs     *)
(* outtake again.                                                          *)
FairSpec ==
    /\ Spec
    /\ WF_vars(Start) /\ WF_vars(Produce) /\ WF_vars(Collect)
    /\ \A w \in Workers : WF_vars(Download(w))

-----------------------------------------------------------------------------
(* Properties                                                              *)

(* A row behind the checkpoint needs no download any more: its message has *)
(* its file, is gone, has no body that parses, or its download was counted *)
(* as failed.  This is across kills with results in channels and in the    *)
(* reorder buffer (message_sync.go:143-191).                               *)
Archived(r) == MsgOf[r] \in file \union Unparseable \/ MsgOf[r] \notin live

CheckpointCovers == \A r \in 1 .. ckpt : Archived(r) \/ r \in failed

(* A run that returns no error has gone through the whole list, also when  *)
(* the producer ended early (message_sync.go:222-227): main.go goes on to  *)
(* the History stage only then.                                            *)
CompleteWhenOk == outcome = "ok" => ckpt = N

(* No item is lost or taken twice in a run: every row the producer has     *)
(* sent is in exactly one place on its way from workCh to the checkpoint.  *)
Places(r) ==
    LET In(s) == {i \in DOMAIN s : s[i].row = r}
        Holds == {w \in Workers : item[w].row = r}
    IN  <<In(workCh), In(resultCh), Holds, {x \in pending : x.row = r},
          {p \in {start + nextToApply - 1} : r <= p}>>

OnePlace ==
    Running => \A r \in start + 1 .. cursor :
        \E k \in 1 .. 5 : /\ \E x \in Places(r)[k] : Places(r)[k] = {x}
                          /\ \A j \in 1 .. 5 \ {k} : Places(r)[j] = {}

(* The pipeline implements the ordered checkpoint.                         *)
Abstract == INSTANCE Checkpoint WITH mark <- ckpt

ImplementsCheckpoint == Abstract!Spec

(* A run that is not killed ends: producer, workers and main loop never    *)
(* wait for one another for good, however small the channels.              *)
RunEnds == <>[][~Abort]_vars => []<>(main = "idle")

(* With runs that are no longer killed and queries that succeed, the       *)
(* checkpoint comes to the end of the list.                                *)
EventuallyThrough == <>[][~(Abort \/ QueryFails)]_vars => <>(ckpt = N)
=============================================================================
