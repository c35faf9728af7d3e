------------------------------ MODULE Mailbox ------------------------------
(***************************************************************************)
(* The Gmail mailbox as the sync engine sees it through gmailService       *)
(* (service.go): a set of live messages with labels and a history log that *)
(* GetHistory pages through.  The mailbox is an external service: its      *)
(* behaviour is what the callers in lib/gmail rely on.                     *)
(*                                                                         *)
(* The module also says when a local mirror, a set of files with labels,   *)
(* is accounted for by a history position: every difference from the       *)
(* mailbox is one that a record above the position brings in.              *)
(***************************************************************************)
EXTENDS Naturals

CONSTANTS
    Msgs,          \* message ids; Gmail never reuses one
    Labels,        \* label ids
    Listed,        \* the messages that exist when the model starts
    Base,          \* the mailbox's history id when the model starts
    MaxHistoryId,  \* bound: the log stops growing at this history id
    MayExpire      \* whether Gmail may drop the oldest part of the log

ASSUME MailboxAssumption ==
    /\ Listed \subseteq Msgs
    /\ Base \in Nat \ {0}
    /\ MaxHistoryId \in Nat
    /\ MayExpire \in BOOLEAN

VARIABLES
    top,    \* the mailbox's current history id
    log,    \* history records, indexed by their id, Base+1..top
    live,   \* messages that exist
    lab,    \* the labels of each live message
    floor   \* GetHistory answers 404 to a start id below this one

mailbox == <<top, log, live, lab, floor>>

(* A history record: one kind of change to one message.  A "labels" record *)
(* may carry both labelsAdded and labelsRemoved.                           *)
Records == [op : {"add", "delete", "labels"}, msg : Msgs,
            ladd : SUBSET Labels, lrem : SUBSET Labels]

MailboxTypeOK ==
    /\ top \in Nat /\ top >= Base
    /\ log \in [Base + 1 .. top -> Records]
    /\ live \subseteq Msgs
    /\ lab \in [Msgs -> SUBSET Labels]
    /\ floor \in 0 .. top

Touched(m) == m \in Listed \/ \E n \in DOMAIN log : log[n].msg = m

(* The records above position p: what a fetch that starts at p brings.     *)
Ahead(p) == {n \in DOMAIN log : n > p}

(* c is the history id GetMetadata reports for m: that of its last record. *)
HistoryIdOf(m, c) ==
    /\ \A n \in Ahead(c) : log[n].msg # m
    /\ c = Base \/ (c \in DOMAIN log /\ log[c].msg = m)

-----------------------------------------------------------------------------
MailboxInit ==
    /\ top = Base
    /\ log \in [Base + 1 .. Base -> Records]      \* the empty log
    /\ live = Listed
    /\ lab \in [Msgs -> SUBSET Labels]
    /\ \A m \in Msgs \ Listed : lab[m] = {}
    /\ floor = 0

LogRecord(r) ==
    /\ top < MaxHistoryId
    /\ top' = top + 1
    /\ log' = [n \in Base + 1 .. top + 1 |-> IF n = top + 1 THEN r ELSE log[n]]
    /\ UNCHANGED floor

(* A message arrives, with the labels L already on it.                     *)
NewMessage(m, L) ==
    /\ ~Touched(m)
    /\ LogRecord([op |-> "add", msg |-> m, ladd |-> {}, lrem |-> {}])
    /\ live' = live \union {m}
    /\ lab' = [lab EXCEPT ![m] = L]

(* A message is deleted for good.                                          *)
DeleteMessage(m) ==
    /\ m \in live
    /\ LogRecord([op |-> "delete", msg |-> m, ladd |-> {}, lrem |-> {}])
    /\ live' = live \ {m}
    /\ UNCHANGED lab

(* A message gains the labels A and loses the labels R.                    *)
ModifyLabels(m, A, R) ==
    /\ m \in live
    /\ A \subseteq Labels \ lab[m] /\ R \subseteq lab[m] /\ A \union R # {}
    /\ LogRecord([op |-> "labels", msg |-> m, ladd |-> A, lrem |-> R])
    /\ lab' = [lab EXCEPT ![m] = (@ \union A) \ R]
    /\ UNCHANGED live

(* Gmail forgets the records below f: a start id below f is now answered   *)
(* with 404 (history_sync.go:57).                                          *)
Expire(f) ==
    /\ MayExpire
    /\ floor < f /\ f <= top
    /\ floor' = f
    /\ UNCHANGED <<top, log, live, lab>>

MailboxNext ==
    \/ \E m \in Msgs, L \in SUBSET Labels : NewMessage(m, L)
    \/ \E m \in Msgs : DeleteMessage(m)
    \/ \E m \in Msgs, A, R \in SUBSET Labels : ModifyLabels(m, A, R)
    \/ \E f \in Base + 1 .. MaxHistoryId : Expire(f)

-----------------------------------------------------------------------------
(* What is owed to message m in a mirror with files F and labels K, when   *)
(* the records up to p have been consumed.                                 *)

(* A missing file of a live message has a record ahead that downloads it.  *)
OwedFile(m, F, p) ==
    m \in live \ F =>
        \E n \in Ahead(p) : log[n].msg = m /\ log[n].op # "delete"

(* A file of a message that is gone has its deletion ahead.                *)
OwedDelete(m, F, p) ==
    m \in F \ live => \E n \in Ahead(p) : log[n].msg = m /\ log[n].op = "delete"

Touches(n, m, l) ==
    /\ log[n].msg = m /\ log[n].op = "labels"
    /\ l \in log[n].ladd \union log[n].lrem

(* A label of LS on which a set K of local labels is wrong has a record    *)
(* ahead that sets it.                                                     *)
OwedLabels(m, K, LS, p) ==
    m \in live => \A l \in LS :
        ~(l \in lab[m] <=> l \in K) => \E n \in Ahead(p) : Touches(n, m, l)

Owed(m, F, K, p) ==
    /\ OwedFile(m, F, p)
    /\ OwedDelete(m, F, p)
    /\ m \in F => OwedLabels(m, K[m], Labels, p)

Covered(S, F, K, p) == \A m \in S : Owed(m, F, K, p)

(* The mirror is exact for the messages of S.                              *)
ExactMirror(S, F, K) ==
    \A m \in S : /\ m \in F <=> m \in live
                 /\ m \in F => K[m] = lab[m]
=============================================================================
