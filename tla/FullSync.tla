------------------------------ MODULE FullSync ------------------------------
(***************************************************************************)
(* The full synchronisation of the Bolt-based engine (gmail.go, full and   *)
(* the runs of Sync that lead to it): a goroutine lists the mailbox page   *)
(* by page, ConcurrentDownloads workers turn ids into operations, the main *)
(* goroutine writes them, then deletes what was cached and not listed.     *)
(* The session, kept in the cache, is resumed by the next run.             *)
(*                                                                         *)
(* A run that has a committed history index takes the incremental path     *)
(* unless the index has expired or the run is forced, even while a session *)
(* is open that a forced run has begun.  That path is the subject of       *)
(* Incremental; here it is what it can do to the session: in the order of  *)
(* the log it writes one message at a time, with whatever labels.          *)
(***************************************************************************)
EXTENDS Store, Sequences, FiniteSets

CONSTANTS
    PageMax,               \* messages on one page of GetMessages
    MayForce               \* whether runs with --full occur

ASSUME FullSyncAssumption ==
    /\ IsFiniteSet(Msgs)
    /\ Msgs = 1 .. Cardinality(Msgs)        \* in order of arrival
    /\ Listed = 1 .. Cardinality(Listed)
    /\ PageMax \in Nat \ {0} /\ MayForce \in BOOLEAN

VARIABLES
    active, pageToken, highest,   \* bucket full_sync_state
    seen,                         \* bucket full_sync_seen
    token, page,                  \* of the listing goroutine
    newMsgs, work,                \* channel of ids, ids in the workers
    phase,                        \* of the run: what main goes through
    todo,                         \* cached ids still to be reconciled
    first, since,                 \* ghost: newest message, and the mailbox's
                                  \* history id, when the session was begun
    inHand,                       \* ghost: ids cut off between listing and write
    stale,                        \* ghost: ids that what was left of an earlier
                                  \* session hid from the one begun
    crossed                       \* ghost: ids that incremental runs wrote while
                                  \* the session was open

session == <<active, pageToken, highest, seen, historyIdx>>
producer == <<ppc, token, page>>
pipe == <<newMsgs, work, ops>>
main == <<phase, historyId, todo>>
ghost == <<first, since, inHand, cut, stale, crossed, kills>>
vars == <<mailbox, store, pc, writer, session, producer, pipe, main, ghost>>

(* The empty token, 0, is also what an absent token reads as.              *)
Tokens == {0} \union Msgs

TypeOK ==
    /\ MailboxTypeOK /\ StoreTypeOK
    /\ pc \in Writing \union {"idle", "loop", "written", "failed", "clear1", "clear2",
                              "clear3", "clear4", "begin", "commit"}
    /\ active \in BOOLEAN /\ pageToken \in Tokens
    /\ {highest, historyIdx, historyId} \subseteq 0 .. top
    /\ seen \subseteq Msgs
    /\ ppc \in {"off", "fetch", "send", "mark", "done"}
    /\ token \in Tokens /\ page \subseteq Msgs
    /\ newMsgs \in Seq(Msgs) /\ Len(newMsgs) <= MessageBufferSize
    /\ work \subseteq [at : {"body", "meta", "put"}, o : Ops]
    /\ Cardinality(work) <= ConcurrentDownloads
    /\ ops \in Seq(Ops) /\ Len(ops) <= MessageBufferSize
    /\ phase \in {"none", "reset", "ops", "reconcile", "end", "update"}
    /\ todo \subseteq Msgs
    /\ first \in Tokens /\ since \in Base .. top
    /\ inHand \union cut \union stale \union crossed \subseteq Msgs
    /\ kills \in 0 .. MaxKills

-----------------------------------------------------------------------------
(* The mirror of an earlier run may be of an older mailbox.                *)
Init ==
    /\ MailboxInit
    /\ \E C \in SUBSET Readable, K \in [Msgs -> SUBSET Labels] :
          /\ \A m \in Msgs \ C : K[m] = {}
          /\ files = {[key |-> m, msg |-> m, labels |-> K[m]] : m \in C}
          /\ keyOf = [m \in Msgs |-> IF m \in C THEN {m} ELSE {}]
          /\ labOf = [m \in Msgs |-> IF m \in C THEN {K[m]} ELSE {}]
    /\ pc = "idle" /\ cur = Nobody /\ fresh = {}
    /\ active = FALSE /\ pageToken = 0 /\ highest = 0 /\ seen = {} /\ historyIdx = 0
    /\ ppc = "off" /\ token = 0 /\ page = {}
    /\ newMsgs = <<>> /\ work = {} /\ ops = <<>>
    /\ phase = "none" /\ historyId = 0 /\ todo = {}
    /\ first = 0 /\ since = Base
    /\ inHand = {} /\ cut = {} /\ stale = {} /\ crossed = {} /\ kills = 0

-----------------------------------------------------------------------------
(* Sync and ClearFullSyncSession                                           *)

(* The index a run would start from is there and has not expired.          *)
Current == historyIdx > 0 /\ floor <= historyIdx

Starting == UNCHANGED <<mailbox, store, writer, session, producer, pipe, todo, ghost>>

(* --full                                                                  *)
StartForced ==
    /\ pc = "idle" /\ MayForce
    /\ pc' = "clear1" /\ phase' = "reset"
    /\ Starting /\ UNCHANGED historyId

(* There is no committed index, or the incremental run finds it expired.   *)
StartFull ==
    /\ pc = "idle" /\ ~Current
    /\ pc' = "begin"
    /\ Starting /\ UNCHANGED <<phase, historyId>>

StartIncremental ==
    /\ pc = "idle" /\ Current
    /\ pc' = "loop" /\ phase' = "update"
    /\ historyId' = historyIdx
    /\ Starting

(* Four transactions, before a forced run and after a complete one.        *)
ClearSession ==
    \/ /\ pc = "clear1" /\ pc' = "clear2"
       /\ active' = FALSE
       /\ UNCHANGED <<pageToken, highest, seen>>
    \/ /\ pc = "clear2" /\ pc' = "clear3"
       /\ pageToken' = 0
       /\ UNCHANGED <<active, highest, seen>>
    \/ /\ pc = "clear3" /\ pc' = "clear4"
       /\ highest' = 0
       /\ UNCHANGED <<active, pageToken, seen>>
    \/ /\ pc = "clear4" /\ pc' = IF phase = "reset" THEN "begin" ELSE "idle"
       /\ seen' = {}
       /\ UNCHANGED <<active, pageToken, highest>>

Clear ==
    /\ ClearSession
    /\ phase' = IF pc' = "idle" THEN "none" ELSE phase
    /\ historyId' = IF pc' = "idle" THEN 0 ELSE historyId
    /\ UNCHANGED <<mailbox, store, writer, historyIdx, producer, pipe, todo, ghost>>

Newest(P) == CHOOSE m \in P : \A k \in P : m >= k
Oldest(P) == CHOOSE m \in P : \A k \in P : m <= k

(* A token that is left over is used by a session that is not resumed.     *)
LeftOut == {m \in live : pageToken # 0 /\ m >= pageToken}

(* Mutant: a resumed session forgets what it has seen.                     *)
BeginUnseen ==
    /\ pc = "begin" /\ pc' = "loop" /\ phase' = "ops"
    /\ active' = TRUE /\ seen' = {}
    /\ stale' = IF active THEN stale ELSE LeftOut
    /\ inHand' = IF active THEN inHand ELSE {}
    /\ crossed' = IF active THEN crossed ELSE {}
    /\ first' = IF active THEN first ELSE Newest(live \union {0})
    /\ since' = IF active THEN since ELSE top
    /\ ppc' = "fetch" /\ token' = pageToken
    /\ historyId' = highest
    /\ UNCHANGED <<mailbox, store, writer, pageToken, highest, historyIdx,
                   page, pipe, todo, cut, kills>>

Begin ==
    /\ pc = "begin" /\ pc' = "loop" /\ phase' = "ops"
    /\ active' = TRUE
    /\ stale' = IF active THEN stale ELSE seen \union LeftOut
    /\ inHand' = IF active THEN inHand ELSE {}
    /\ crossed' = IF active THEN crossed ELSE {}
    /\ first' = IF active THEN first ELSE Newest(live \union {0})
    /\ since' = IF active THEN since ELSE top
    /\ ppc' = "fetch" /\ token' = pageToken
    /\ historyId' = highest
    /\ UNCHANGED <<mailbox, store, writer, pageToken, highest, seen, historyIdx,
                   page, pipe, todo, cut, kills>>

-----------------------------------------------------------------------------
(* The listing goroutine                                                   *)

(* A token stands for the last message returned; pages go from the newest  *)
(* message to the oldest.                                                  *)
Older(t) == {m \in live : t = 0 \/ m < t}

IsPage(P, t) ==
    /\ P \subseteq Older(t)
    /\ \A m \in P, k \in Older(t) \ P : m > k
    /\ Cardinality(P) <= PageMax
    /\ Cardinality(P) = PageMax \/ P = Older(t)

TokenAfter(P, t) == IF P = Older(t) THEN 0 ELSE Oldest(P)

Listing == UNCHANGED <<mailbox, store, pc, writer, main>>

(* The token of the next page is saved as soon as a page is there.         *)
FetchPage ==
    /\ ppc = "fetch" /\ ppc' = "send"
    /\ \E P \in SUBSET live : IsPage(P, token) /\ page' = P
    /\ token' = TokenAfter(page', token)
    /\ pageToken' = token'
    /\ Listing /\ UNCHANGED <<active, highest, seen, historyIdx, pipe, ghost>>

SendMsg ==
    /\ ppc = "send" /\ page # {}
    /\ Len(newMsgs) < MessageBufferSize
    /\ newMsgs' = Append(newMsgs, Newest(page))
    /\ ppc' = "mark"
    /\ Listing /\ UNCHANGED <<session, token, page, work, ops, ghost>>

(* AddFullSyncSeen                                                         *)
MarkSeen ==
    /\ ppc = "mark" /\ ppc' = "send"
    /\ seen' = seen \union {Newest(page)}
    /\ page' = page \ {Newest(page)}
    /\ Listing /\ UNCHANGED <<active, pageToken, highest, historyIdx, token, pipe, ghost>>

(* Mutant: newMsgs is never closed.                                        *)
PageDoneOpen ==
    /\ ppc = "send" /\ page = {} /\ token # 0
    /\ ppc' = "fetch"
    /\ Listing /\ UNCHANGED <<session, token, page, pipe, ghost>>

(* The last page has no token: newMsgs is closed.                          *)
PageDone ==
    /\ ppc = "send" /\ page = {}
    /\ ppc' = IF token = 0 THEN "done" ELSE "fetch"
    /\ Listing /\ UNCHANGED <<session, token, page, pipe, ghost>>

ListMessages == FetchPage \/ SendMsg \/ MarkSeen \/ PageDone

-----------------------------------------------------------------------------
(* A worker: handleNewMsg                                                  *)

Working == UNCHANGED <<mailbox, store, pc, writer, session, producer, main, ghost>>

Becomes(w, p, r) == work' = (work \ {w}) \union {[at |-> p, o |-> r]}

TakeMsg ==
    /\ newMsgs # <<>> /\ Cardinality(work) < ConcurrentDownloads
    /\ LET m == Head(newMsgs) IN
         work' = work \union {[at |-> IF keyOf[m] = {} THEN "body" ELSE "meta", o |-> NoOp(m)]}
    /\ newMsgs' = Tail(newMsgs)
    /\ Working /\ UNCHANGED ops

(* A message that is gone, or whose body cannot be parsed, is passed over  *)
(* ...                                                                     *)
GetBody(w) ==
    /\ w.at = "body"
    /\ Becomes(w, IF w.o.msg \in Readable THEN "meta" ELSE "put", w.o)
    /\ Working /\ UNCHANGED <<newMsgs, ops>>

MetaId(m) == CHOOSE c \in Base .. top : HistoryIdOf(m, c)

(* ... but it is an error when only its metadata is gone.                  *)
GetMetadata(w) ==
    /\ w.at = "meta"
    /\ LET m == w.o.msg IN
         \/ m \notin live /\ Becomes(w, "put", [w.o EXCEPT !.op = "error"])
         \/ /\ m \in live
            /\ Becomes(w, "put", [op |-> Kind(m, lab[m], keyOf[m]), msg |-> m,
                                  labels |-> lab[m], hid |-> MetaId(m)])
    /\ Working /\ UNCHANGED <<newMsgs, ops>>

(* A changed message whose file cannot be opened is an error.              *)
PutOp(w) ==
    /\ w.at = "put" /\ Len(ops) < MessageBufferSize
    /\ LET gone == w.o.op = "labels" /\ FilesAt(keyOf[w.o.msg]) = {} IN
         ops' = Append(ops, IF gone THEN [w.o EXCEPT !.op = "error"] ELSE w.o)
    /\ work' = work \ {w}
    /\ Working /\ UNCHANGED newMsgs

Worker == TakeMsg \/ \E w \in work : GetBody(w) \/ GetMetadata(w) \/ PutOp(w)

-----------------------------------------------------------------------------
(* The main goroutine                                                      *)

Receive ==
    /\ pc = "loop" /\ phase = "ops" /\ ops # <<>>
    /\ ops' = Tail(ops)
    /\ LET o == Head(ops) IN
         \/ o.op = "error" /\ pc' = "failed" /\ UNCHANGED <<cur, historyId>>
         \/ o.op = "none" /\ UNCHANGED <<pc, cur, historyId>>
         \/ /\ o.op \notin {"error", "none"}
            /\ cur' = o /\ pc' = "write"
            /\ historyId' = IF o.hid > historyId THEN o.hid ELSE historyId
    /\ UNCHANGED <<mailbox, store, fresh, session, producer, newMsgs, work, phase, todo, ghost>>

Write ==
    /\ WriteOperation
    /\ UNCHANGED <<session, producer, pipe, main, ghost>>

(* SetFullSyncHighestHistory, while operations come in.                    *)
Written ==
    /\ pc = "written" /\ pc' = "loop"
    /\ highest' = IF phase = "ops" /\ historyId > 0 THEN historyId ELSE highest
    /\ cur' = Nobody /\ fresh' = {}
    /\ UNCHANGED <<mailbox, store, active, pageToken, seen, historyIdx, producer, pipe,
                   main, ghost>>

(* Mutant: ops is closed with the last id taken.                           *)
OpsClosedEarly == ppc = "done" /\ newMsgs = <<>> /\ ops = <<>>

(* ops is closed when newMsgs is and the workers are done.                 *)
OpsClosed == ppc = "done" /\ newMsgs = <<>> /\ work = {} /\ ops = <<>>

(* GetMsgs reads the cached ids in one transaction.                        *)
BeginReconcile ==
    /\ pc = "loop" /\ phase = "ops" /\ OpsClosed
    /\ phase' = "reconcile"
    /\ todo' = {m \in Msgs : keyOf[m] # {}}
    /\ UNCHANGED <<mailbox, store, pc, writer, session, producer, pipe, historyId, ghost>>

Reconcile(m) ==
    /\ pc = "loop" /\ phase = "reconcile" /\ m \in todo
    /\ todo' = todo \ {m}
    /\ \/ m \in seen /\ UNCHANGED <<pc, cur>>
       \/ m \notin seen /\ pc' = "write" /\ cur' = [NoOp(m) EXCEPT !.op = "delete"]
    /\ UNCHANGED <<mailbox, store, fresh, session, producer, pipe, phase, historyId, ghost>>

CommitIndex ==
    /\ pc = "loop" /\ phase = "reconcile" /\ todo = {}
    /\ historyIdx' = historyId
    /\ pc' = "clear1" /\ phase' = "end" /\ ppc' = "off"
    /\ UNCHANGED <<mailbox, store, writer, active, pageToken, highest, seen, token, page,
                   pipe, historyId, todo, ghost>>

Main ==
    \/ Receive \/ Write \/ Written \/ BeginReconcile \/ CommitIndex
    \/ \E m \in Msgs : Reconcile(m)

-----------------------------------------------------------------------------
(* An incremental run                                                      *)

Following == UNCHANGED <<mailbox, store, fresh, producer, pipe, todo, first, since, inHand,
                       stale, cut, kills>>

(* What the record asks for.  A label change may have been computed from a *)
(* cache that was behind.                                                  *)
Asked(n) ==
    LET m == log[n].msg IN
    IF log[n].op = "delete" THEN {[NoOp(m) EXCEPT !.op = "delete"]}
    ELSE IF log[n].op = "labels"
    THEN {[NoOp(m) EXCEPT !.op = "labels", !.labels = L] : L \in SUBSET Labels}
    ELSE IF m \in Readable
    THEN {[NoOp(m) EXCEPT !.op = IF keyOf[m] = {} THEN "add" ELSE "labels",
                          !.labels = lab[m]]}
    ELSE {}

(* Nothing is written when the message is as the record says, is gone, or  *)
(* cannot be read, and it is an error when only its metadata is gone.      *)
TakeRecord ==
    /\ pc = "loop" /\ phase = "update" /\ historyId + 1 \in DOMAIN log
    /\ historyId' = historyId + 1
    /\ \/ UNCHANGED <<pc, cur, crossed>>
       \/ /\ log[historyId'].op = "add" /\ log[historyId'].msg \notin live
          /\ pc' = "failed" /\ UNCHANGED <<cur, crossed>>
       \/ /\ cur' \in Asked(historyId') /\ pc' = "write"
          /\ crossed' = IF active THEN crossed \union {cur'.msg} ELSE crossed
    /\ Following /\ UNCHANGED <<session, phase>>

(* Records that come after the last page are left to the next run.         *)
EndIncremental ==
    /\ pc = "loop" /\ phase = "update"
    /\ historyIdx' = historyId
    /\ pc' = "idle" /\ phase' = "none" /\ historyId' = 0
    /\ Following /\ UNCHANGED <<cur, active, pageToken, highest, seen, crossed>>

IncrementalRun == TakeRecord \/ EndIncremental

-----------------------------------------------------------------------------
Elements(s) == {s[i] : i \in DOMAIN s}

(* What was listed and is not written, or listed and not marked as seen.   *)
Unfinished ==
    page \union Elements(newMsgs) \union {w.o.msg : w \in work}
        \union {o.msg : o \in Elements(ops)}
        \union (IF pc \in Writing /\ phase = "ops" THEN {cur.msg} ELSE {})

EndRun ==
    /\ pc' = "idle" /\ cur' = Nobody /\ fresh' = {}
    /\ ppc' = "off" /\ token' = 0 /\ page' = {}
    /\ newMsgs' = <<>> /\ work' = {} /\ ops' = <<>>
    /\ phase' = "none" /\ historyId' = 0 /\ todo' = {}
    /\ inHand' = inHand \union Unfinished
    /\ UNCHANGED <<mailbox, store, session, first, since, stale, crossed>>

(* Sync returns an error and the process ends.                             *)
Fail ==
    /\ pc = "failed"
    /\ EndRun
    /\ UNCHANGED <<cut, kills>>

(* The process is killed, or another call fails and ends it.               *)
Kill ==
    /\ pc # "idle" /\ kills < MaxKills
    /\ EndRun
    /\ kills' = kills + 1
    /\ cut' = IF pc \in Writing THEN cut \union {cur.msg} ELSE cut

-----------------------------------------------------------------------------
(* Only an expiry above the committed index makes a difference, and then   *)
(* only the first.                                                         *)
External ==
    /\ \/ Arrive
       \/ \E m \in Msgs : DeleteMessage(m)
       \/ \E m \in Msgs, A, R \in SUBSET Labels : ModifyLabels(m, A, R)
       \/ historyIdx > 0 /\ floor <= historyIdx /\ Expire(historyIdx + 1)
    /\ UNCHANGED <<store, pc, writer, session, producer, pipe, main, ghost>>

(* A run that is not forced, and its main goroutine.                       *)
Sync == StartFull \/ StartIncremental \/ Clear \/ Begin \/ Main \/ IncrementalRun \/ Fail

Run == Sync \/ ListMessages \/ Worker

Next == StartForced \/ Run \/ Kill \/ External

Spec == Init /\ [][Next]_vars

FairSpec ==
    /\ Spec
    /\ WF_vars(Sync)
    /\ WF_vars(ListMessages) /\ WF_vars(Worker)

-----------------------------------------------------------------------------
(* Properties                                                              *)

(* A complete session has reconciled and committed, and not begun to clear *)
(* its state.                                                              *)
Complete == pc = "clear1" /\ phase = "end"

Untouched(m) == \A n \in Ahead(since) : log[n].msg # m

(* When a session is complete, however often it was resumed, the mirror is *)
(* exact for every message that did not change since it was begun and can  *)
(* be parsed, save those that a run had in hand when it was cut off, those *)
(* that what was left of an earlier session hid from it, and those that    *)
(* incremental runs wrote in between (gmail.go:523-621).                   *)
UnchangedExact ==
    Complete => \A m \in Msgs \ (inHand \union cut \union stale \union crossed) :
        m \notin Unparseable /\ Untouched(m) => Mirrored(m)

(* Reconciliation removes no message that exists, with the same exceptions *)
(* (gmail.go:610-616).                                                     *)
DeletesOnlyGone ==
    pc = "write" /\ cur.op = "delete" /\ cur.msg \in live =>
        cur.msg \in inHand \union stale \/ cur.msg > first

(* The cache and the maildir agree on a message unless it is being written *)
(* or a write of it was cut off (gmail.go:221-243, 287-313).               *)
CacheTrue ==
    \A m \in Msgs \ cut : True(m) \/ (pc \in Writing /\ m = cur.msg)

(* Unless it is killed, every run ends, for lister, workers and main       *)
(* goroutine never wait for one another for good, and a session is never   *)
(* left open for ever but over an index that is still good, from which the *)
(* runs that are not forced go on incrementally: an error is not met again *)
(* for ever (gmail.go:523-660).                                            *)
Completes == [](kills = 0) => []<>(pc = "idle" /\ (active => Current))
=============================================================================
