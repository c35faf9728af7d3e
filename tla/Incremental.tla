---------------------------- MODULE Incremental ----------------------------
(***************************************************************************)
(* The incremental synchronisation of the Bolt-based engine (gmail.go,     *)
(* incremental): a goroutine pages through the history above the committed *)
(* index and turns each record into an event of its message, each worker   *)
(* has the messages of one shard, and the main goroutine writes their      *)
(* operations and commits the new index at the end.  Labels are computed   *)
(* from the cache by the goroutine that reads the history.                 *)
(*                                                                         *)
(* What FullSync calls by the same name is told apart, so that the two     *)
(* halves of the engine can be reasoned about together: a run of this one  *)
(* is an update.                                                           *)
(***************************************************************************)
EXTENDS Store, Sequences, FiniteSets

ASSUME IncrementalAssumption == Msgs \subseteq Nat /\ Msgs # {}

VARIABLES
    last, more,            \* the page in memory: its last record, a next one
    event,                 \* the event to be sent, {} if none
    histEvents,            \* one channel for each shard
    hand                   \* the event in each worker, {} if none

reader == <<ppc, historyId, last, more, event>>
channels == <<histEvents, hand, ops>>
cutOff == <<cut, kills>>
incVars == <<mailbox, store, pc, writer, historyIdx, reader, channels, cutOff>>

Shards == 0 .. ConcurrentDownloads - 1

IncTypeOK ==
    /\ MailboxTypeOK /\ StoreTypeOK
    /\ pc \in Writing \union {"idle", "loop", "written", "failed"}
    /\ historyIdx \in Base .. top /\ historyId \in historyIdx .. top
    /\ ppc \in {"off", "fetch", "record", "send", "close", "done"}
    /\ last \in Base .. top /\ more \in BOOLEAN
    /\ event \subseteq Ops /\ Cardinality(event) <= 1
    /\ \A s \in Shards : /\ histEvents[s] \in Seq(Ops)
                         /\ Len(histEvents[s]) <= MessageBufferSize
                         /\ hand[s] \subseteq [at : {"new", "body", "meta", "open", "put"},
                                               o : Ops, key : SUBSET Keys]
    /\ ops \in Seq(Ops) /\ Len(ops) <= MessageBufferSize
    /\ cut \subseteq Msgs /\ kills \in 0 .. MaxKills

-----------------------------------------------------------------------------
(* A full synchronisation has left an exact mirror, save for bodies that   *)
(* cannot be parsed, and committed the index it was taken at.              *)
IncInit ==
    /\ MailboxInit
    /\ files = {[key |-> m, msg |-> m, labels |-> lab[m]] : m \in Readable}
    /\ keyOf = [m \in Msgs |-> IF m \in Readable THEN {m} ELSE {}]
    /\ labOf = [m \in Msgs |-> IF m \in Readable THEN {lab[m]} ELSE {}]
    /\ pc = "idle" /\ cur = Nobody /\ fresh = {}
    /\ historyIdx = Base /\ historyId = Base
    /\ ppc = "off" /\ last = Base /\ more = FALSE /\ event = {}
    /\ histEvents = [s \in Shards |-> <<>>] /\ hand = [s \in Shards |-> {}] /\ ops = <<>>
    /\ cut = {} /\ kills = 0

StartUpdate ==
    /\ pc = "idle" /\ historyIdx < top
    /\ pc' = "loop" /\ ppc' = "fetch"
    /\ historyId' = historyIdx /\ last' = historyIdx
    /\ UNCHANGED <<mailbox, store, writer, historyIdx, more, event, channels, cutOff>>

-----------------------------------------------------------------------------
(* The goroutine that reads the history                                    *)

Reading == UNCHANGED <<mailbox, store, pc, writer, historyIdx, cutOff>>

First == last = historyIdx /\ ~more

Enqueue(o) == Len(ops) < MessageBufferSize /\ ops' = Append(ops, o)

(* An index that has expired is an error, on which Sync goes on with a     *)
(* full synchronisation; the channels are left open.                       *)
HistoryGone ==
    /\ ppc = "fetch" /\ First /\ historyIdx < floor
    /\ Enqueue([Nobody EXCEPT !.op = "error"])
    /\ ppc' = "off"
    /\ Reading /\ UNCHANGED <<historyId, last, more, event, histEvents, hand>>

GetHistory ==
    /\ ppc = "fetch" /\ ~(First /\ historyIdx < floor)
    /\ \E e \in last .. top :
          /\ last < top => e > last
          /\ last' = e /\ more' = (e < top)
    /\ ppc' = "record"
    /\ Reading /\ UNCHANGED <<historyId, event, channels>>

(* Mutant: removed labels are forgotten.                                   *)
AddedLabels(m, A, R) == (UNION labOf[m]) \union A

(* computeLabels: without a cached message it is what was added.           *)
ComputeLabels(m, A, R) == IF labOf[m] = {} THEN A ELSE ((UNION labOf[m]) \union A) \ R

(* The event of record n; a label change the cache has already is none.    *)
EventOf(n) ==
    LET m == log[n].msg
        L == ComputeLabels(m, log[n].ladd, log[n].lrem)
    IN  IF log[n].op # "labels" THEN {[NoOp(m) EXCEPT !.op = log[n].op, !.hid = n]}
        ELSE IF LabelsChanged(m, L) THEN {[op |-> "labels", msg |-> m, labels |-> L, hid |-> n]}
        ELSE {}

NextRecord ==
    /\ ppc = "record" /\ historyId < last
    /\ historyId' = historyId + 1
    /\ event' = EventOf(historyId + 1)
    /\ ppc' = IF event' = {} THEN "record" ELSE "send"
    /\ Reading /\ UNCHANGED <<last, more, channels>>

(* Mutant: what needs no download has a shard of its own.                  *)
ShardForOp(o) == IF o.op = "add" THEN o.msg % ConcurrentDownloads ELSE ConcurrentDownloads - 1

ShardForMsgId(o) == o.msg % ConcurrentDownloads

SendEvent ==
    /\ ppc = "send" /\ ppc' = "record"
    /\ \E o \in event, s \in Shards :
          /\ s = ShardForMsgId(o)
          /\ Len(histEvents[s]) < MessageBufferSize
          /\ histEvents' = [histEvents EXCEPT ![s] = Append(@, o)]
    /\ event' = {}
    /\ Reading /\ UNCHANGED <<historyId, last, more, hand, ops>>

(* Mutant: the channels are not closed after the last page.                *)
RecordsDoneOpen ==
    /\ ppc = "record" /\ historyId = last /\ more
    /\ ppc' = "fetch"
    /\ Reading /\ UNCHANGED <<historyId, last, more, event, channels>>

RecordsDone ==
    /\ ppc = "record" /\ historyId = last
    /\ ppc' = IF more THEN "fetch" ELSE "done"
    /\ Reading /\ UNCHANGED <<historyId, last, more, event, channels>>

ReadHistory == HistoryGone \/ GetHistory \/ NextRecord \/ SendEvent \/ RecordsDone

-----------------------------------------------------------------------------
(* The worker of shard s; handleNewMsg for an added message                *)

Handling == Reading /\ UNCHANGED reader

Holds(s, p, r, K) == hand' = [hand EXCEPT ![s] = {[at |-> p, o |-> r, key |-> K]}]

TakeEvent(s) ==
    /\ hand[s] = {} /\ histEvents[s] # <<>>
    /\ histEvents' = [histEvents EXCEPT ![s] = Tail(@)]
    /\ LET o == Head(histEvents[s]) IN
         Holds(s, IF o.op = "add" THEN "new" ELSE "put", o, {})
    /\ Handling /\ UNCHANGED ops

(* The key is read once.                                                   *)
LookUp(s, w) ==
    /\ w.at = "new"
    /\ LET K == keyOf[w.o.msg] IN Holds(s, IF K = {} THEN "body" ELSE "meta", w.o, K)
    /\ Handling /\ UNCHANGED <<histEvents, ops>>

(* A message that is gone, or whose body cannot be parsed, is passed over  *)
(* for good ...                                                            *)
FetchBody(s, w) ==
    /\ w.at = "body"
    /\ \/ w.o.msg \in Readable /\ Holds(s, "meta", w.o, {})
       \/ w.o.msg \notin Readable /\ Holds(s, "put", NoOp(w.o.msg), {})
    /\ Handling /\ UNCHANGED <<histEvents, ops>>

(* ... but it is an error when only its metadata is gone ...               *)
FetchMetadata(s, w) ==
    /\ w.at = "meta"
    /\ LET m == w.o.msg
           k == Kind(m, lab[m], w.key)
       IN  \/ m \notin live /\ Holds(s, "put", [w.o EXCEPT !.op = "error"], {})
           \/ /\ m \in live
              /\ Holds(s, IF k = "labels" THEN "open" ELSE "put",
                         [w.o EXCEPT !.op = k, !.labels = lab[m]], w.key)
    /\ Handling /\ UNCHANGED <<histEvents, ops>>

(* ... or when there is no file under the key that was read.               *)
OpenFile(s, w) ==
    /\ w.at = "open"
    /\ Holds(s, "put", IF FilesAt(w.key) = {} THEN [w.o EXCEPT !.op = "error"] ELSE w.o, {})
    /\ Handling /\ UNCHANGED <<histEvents, ops>>

Put(s, w) ==
    /\ w.at = "put"
    /\ Enqueue(w.o)
    /\ hand' = [hand EXCEPT ![s] = {}]
    /\ Handling /\ UNCHANGED histEvents

ShardWorker(s) ==
    \/ TakeEvent(s)
    \/ \E w \in hand[s] :
          LookUp(s, w) \/ FetchBody(s, w) \/ FetchMetadata(s, w) \/ OpenFile(s, w) \/ Put(s, w)

-----------------------------------------------------------------------------
(* The main goroutine                                                      *)

TakeOp ==
    /\ pc = "loop" /\ ops # <<>>
    /\ ops' = Tail(ops)
    /\ LET o == Head(ops) IN
         \/ o.op = "error" /\ pc' = "failed" /\ UNCHANGED cur
         \/ o.op = "none" /\ UNCHANGED <<pc, cur>>
         \/ o.op \notin {"error", "none"} /\ cur' = o /\ pc' = "write"
    /\ UNCHANGED <<mailbox, store, fresh, historyIdx, reader, histEvents, hand, cutOff>>

WriteOp ==
    /\ WriteOperation
    /\ UNCHANGED <<historyIdx, reader, channels, cutOff>>

OpWritten ==
    /\ pc = "written" /\ pc' = "loop"
    /\ cur' = Nobody /\ fresh' = {}
    /\ UNCHANGED <<mailbox, store, historyIdx, reader, channels, cutOff>>

EndUpdate ==
    /\ pc' = "idle" /\ cur' = Nobody /\ fresh' = {}
    /\ ppc' = "off" /\ last' = Base /\ more' = FALSE /\ event' = {}
    /\ histEvents' = [s \in Shards |-> <<>>] /\ hand' = [s \in Shards |-> {}] /\ ops' = <<>>
    /\ UNCHANGED <<mailbox, store>>

ShardsDone ==
    /\ ppc = "done" /\ ops = <<>>
    /\ \A s \in Shards : histEvents[s] = <<>> /\ hand[s] = {}

CommitHistory ==
    /\ pc = "loop" /\ ShardsDone
    /\ historyIdx' = historyId
    /\ EndUpdate /\ UNCHANGED <<historyId, cutOff>>

(* Sync returns the error and the process ends.                            *)
FailUpdate ==
    /\ pc = "failed"
    /\ historyId' = historyIdx
    /\ EndUpdate /\ UNCHANGED <<historyIdx, cutOff>>

WriteOps == TakeOp \/ WriteOp \/ OpWritten \/ CommitHistory \/ FailUpdate

(* The process is killed, or another call fails and ends it.               *)
KillUpdate ==
    /\ pc # "idle" /\ kills < MaxKills
    /\ historyId' = historyIdx
    /\ EndUpdate
    /\ kills' = kills + 1
    /\ cut' = IF pc \in Writing THEN cut \union {cur.msg} ELSE cut
    /\ UNCHANGED historyIdx

(* Only an expiry above the committed index makes a difference, and then   *)
(* only the first.                                                         *)
Gmail ==
    /\ \/ Arrive
       \/ \E m \in Msgs : DeleteMessage(m)
       \/ \E m \in Msgs, A, R \in SUBSET Labels : ModifyLabels(m, A, R)
       \/ floor <= historyIdx /\ Expire(historyIdx + 1)
    /\ UNCHANGED <<store, pc, writer, historyIdx, reader, channels, cutOff>>

Update == ReadHistory \/ (\E s \in Shards : ShardWorker(s)) \/ WriteOps

IncNext == StartUpdate \/ Update \/ KillUpdate \/ Gmail

IncSpec == IncInit /\ [][IncNext]_incVars

-----------------------------------------------------------------------------
(* Properties                                                              *)

Mirror == {m \in Msgs : FilesOf(m) # {}}

(* A message that has no file, or has one though it is gone, is put right  *)
(* by a record above the committed index, unless a write of it was cut off *)
(* or its body cannot be parsed: adding and deleting go through the shards *)
(* in the order of the log, and the index is committed behind the last     *)
(* write (gmail.go:372-490).                                               *)
PresenceCovered ==
    LET F == Mirror IN \A m \in Msgs \ (cut \union Unparseable) :
        OwedFile(m, F, historyIdx) /\ OwedDelete(m, F, historyIdx)

LabelsOf(m) == UNION {f.labels : f \in FilesOf(m)}

(* A record of an addition has the labels read anew.                       *)
SetsLabel(n, m, l) ==
    \/ log[n].msg = m /\ log[n].op = "add"
    \/ Touches(n, m, l)

LabelsCovered(m) ==
    m \in live /\ FilesOf(m) # {} => \A l \in Labels :
        \/ l \in lab[m] <=> l \in LabelsOf(m)
        \/ \E n \in Ahead(historyIdx) : SetsLabel(n, m, l)

Consumed(m) == {n \in DOMAIN log : n <= historyIdx /\ log[n].msg = m}

(* A wrong label of a message with one record below the committed index is *)
(* put right by a record above it, unless a write of it was cut off or its *)
(* body cannot be parsed (gmail.go:245-285, 437-473).                      *)
SingleChange ==
    \A m \in Msgs \ (cut \union Unparseable) : Cardinality(Consumed(m)) <= 1 => LabelsCovered(m)

(* Reader, workers and main goroutine never all wait for one another, with *)
(* channels of any size between them: whatever is in them, somebody can go *)
(* on until the run is over.  A run takes finitely many steps, for records *)
(* are only read forward (gmail.go:380-420).                               *)
NobodyStuck == pc # "idle" => ENABLED Update
=============================================================================
