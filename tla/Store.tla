------------------------------- MODULE Store -------------------------------
(***************************************************************************)
(* What the Bolt-based engine keeps (lib/gmail/cache.go, lib/cache.go) and *)
(* the writes it makes for one message (gmail.go writeAdd, writeDel,       *)
(* writeLabels).  A write is several durable steps: every call of the      *)
(* cache is a transaction of its own, and every delivery goes to a new     *)
(* maildir key.  The main goroutine of a run is the only writer.           *)
(***************************************************************************)
EXTENDS Naturals, Mailbox

CONSTANTS
    ConcurrentDownloads,   \* workers
    MessageBufferSize,     \* capacity of the channels
    Unparseable,           \* messages whose body mail.ReadMessage cannot read
    MaxKeys,               \* bound: maildir keys in use at a time
    MaxKills               \* bound: runs that are killed

ASSUME StoreAssumption ==
    /\ ConcurrentDownloads \in Nat \ {0} /\ MessageBufferSize \in Nat \ {0}
    /\ MaxKeys \in Nat \ {0} /\ MaxKills \in Nat
    /\ Unparseable \subseteq Msgs

VARIABLES
    files,       \* the messages in the maildir
    keyOf,       \* bucket mid_to_key, {} when absent
    labOf,       \* bucket mid_to_label, {} when absent
    historyIdx,  \* history_index
    pc,          \* of the main goroutine
    cur,         \* the operation it writes
    fresh,       \* the key of the file it has delivered, {} if none
    historyId,   \* the history id the run has come to
    ppc,         \* of the goroutine that feeds the workers
    ops,         \* channel from the workers to the main goroutine
    cut,         \* ghost: messages whose write was cut off
    kills

store == <<files, keyOf, labOf>>
writer == <<cur, fresh>>

Keys == 1 .. MaxKeys

Ops == [op : {"none", "error", "add", "delete", "labels"}, msg : Msgs,
        labels : SUBSET Labels, hid : Nat]

NoOp(m) == [op |-> "none", msg |-> m, labels |-> {}, hid |-> 0]

Nobody == NoOp(CHOOSE m \in Msgs : TRUE)

Writing == {"write", "setlabels", "setkey", "remove", "delkey", "dellabels"}

StoreTypeOK ==
    /\ files \subseteq [key : Keys, msg : Msgs, labels : SUBSET Labels]
    /\ keyOf \in [Msgs -> SUBSET Keys]
    /\ labOf \in [Msgs -> SUBSET (SUBSET Labels)]
    /\ cur \in Ops
    /\ fresh \subseteq Keys

Used == {f.key : f \in files} \union UNION {keyOf[m] : m \in Msgs}

NewKey == CHOOSE k \in Keys \ Used : \A j \in Keys \ Used : k <= j

FilesAt(K) == {f \in files : f.key \in K}
FilesOf(m) == {f \in files : f.msg = m}

LabelsChanged(m, L) == labOf[m] # {L}

(* getBody has a body for the caller; one that cannot be parsed is, like   *)
(* that of a message that is gone, no error.                               *)
Readable == live \ Unparseable

(* handleNewMsg: what is to be done for a message with labels L whose key  *)
(* was read as K.                                                          *)
Kind(m, L, K) ==
    IF K = {} THEN "add" ELSE IF LabelsChanged(m, L) THEN "labels" ELSE "none"

(* Deliver gives the message a key it has never had.                       *)
Deliver(m, L) ==
    /\ Keys \ Used # {}
    /\ files' = files \union {[key |-> NewKey, msg |-> m, labels |-> L]}
    /\ fresh' = {NewKey}

(* A message arrives; their ids rise.                                      *)
Arrive ==
    \E m \in Msgs, L \in SUBSET Labels :
        (\A k \in Msgs : k < m => Touched(k)) /\ NewMessage(m, L)

Goto(p) == pc' = p /\ UNCHANGED <<mailbox, cur>>

-----------------------------------------------------------------------------
(* writeAdd and writeLabels begin with a delivery; a label change of an    *)
(* unknown message is dropped.                                             *)
WriteAdd ==
    /\ pc = "write" /\ cur.op = "add"
    /\ Deliver(cur.msg, cur.labels)
    /\ Goto("setlabels")
    /\ UNCHANGED <<keyOf, labOf>>

WriteLabels ==
    /\ pc = "write" /\ cur.op = "labels"
    /\ \/ /\ keyOf[cur.msg] = {}
          /\ Goto("written") /\ UNCHANGED <<store, fresh>>
       \/ /\ keyOf[cur.msg] # {} /\ FilesAt(keyOf[cur.msg]) = {}
          /\ Goto("failed") /\ UNCHANGED <<store, fresh>>
       \/ /\ FilesAt(keyOf[cur.msg]) # {}
          /\ Deliver(cur.msg, cur.labels)
          /\ Goto("setlabels")
          /\ UNCHANGED <<keyOf, labOf>>

SetMsgLabels ==
    /\ pc = "setlabels"
    /\ labOf' = [labOf EXCEPT ![cur.msg] = {cur.labels}]
    /\ Goto("setkey")
    /\ UNCHANGED <<files, keyOf, fresh>>

(* The main goroutine still has the old key: it goes to "fresh".           *)
SetMsgKey ==
    /\ pc = "setkey"
    /\ keyOf' = [keyOf EXCEPT ![cur.msg] = fresh]
    /\ fresh' = keyOf[cur.msg]
    /\ Goto(IF cur.op = "add" THEN "written" ELSE "remove")
    /\ UNCHANGED <<files, labOf>>

Remove(K, p) ==
    \/ FilesAt(K) = {} /\ Goto("failed") /\ UNCHANGED files
    \/ /\ FilesAt(K) # {}
       /\ files' = files \ FilesAt(K)
       /\ Goto(p)

(* writeLabels: "Delete the old message".                                  *)
RemoveOld ==
    /\ pc = "remove"
    /\ Remove(fresh, "written")
    /\ UNCHANGED <<keyOf, labOf, fresh>>

WriteDel ==
    /\ pc = "write" /\ cur.op = "delete"
    /\ \/ keyOf[cur.msg] = {} /\ Goto("written") /\ UNCHANGED files
       \/ keyOf[cur.msg] # {} /\ Remove(keyOf[cur.msg], "delkey")
    /\ UNCHANGED <<keyOf, labOf, fresh>>

(* Mutant: the labels of a deleted message are kept.                       *)
DelMsgKeyOnly ==
    /\ pc = "delkey"
    /\ keyOf' = [keyOf EXCEPT ![cur.msg] = {}]
    /\ Goto("written")
    /\ UNCHANGED <<files, labOf, fresh>>

(* DelMsg is two transactions.                                             *)
DelMsgKey ==
    /\ pc = "delkey"
    /\ keyOf' = [keyOf EXCEPT ![cur.msg] = {}]
    /\ Goto("dellabels")
    /\ UNCHANGED <<files, labOf, fresh>>

DelMsgLabels ==
    /\ pc = "dellabels"
    /\ labOf' = [labOf EXCEPT ![cur.msg] = {}]
    /\ Goto("written")
    /\ UNCHANGED <<files, keyOf, fresh>>

WriteOperation ==
    \/ WriteAdd \/ WriteLabels \/ SetMsgLabels \/ SetMsgKey \/ RemoveOld
    \/ WriteDel \/ DelMsgKey \/ DelMsgLabels

-----------------------------------------------------------------------------
(* The cache is true for message m when its key is that of a file of m     *)
(* with the labels the cache has.                                          *)
True(m) ==
    /\ keyOf[m] # {} => \E f \in FilesAt(keyOf[m]) : f.msg = m /\ labOf[m] = {f.labels}
    /\ keyOf[m] = {} => labOf[m] = {}

(* The mirror has the message exactly as Gmail has it, in one file.        *)
Mirrored(m) ==
    IF m \in live THEN \E f \in files : FilesOf(m) = {f} /\ f.labels = lab[m]
    ELSE FilesOf(m) = {}
=============================================================================
