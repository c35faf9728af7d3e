--------------------------- MODULE MailboxProofs ---------------------------
(***************************************************************************)
(* What the mailbox guarantees about its log, and that a mirror stays      *)
(* accounted for while the mailbox changes.                                *)
(***************************************************************************)
EXTENDS Mailbox, TLAPS

(* A record is the last word on its message, or a later record is; the     *)
(* record that adds a message is its first.                                *)
RecordHolds(n) ==
    LET r == log[n]
    IN  /\ Touched(r.msg)
        /\ r.op = "delete" => r.msg \notin live
        /\ r.op # "delete" /\ r.msg \notin live =>
               \E k \in Ahead(n) : log[k].msg = r.msg /\ log[k].op = "delete"
        /\ r.op = "labels" /\ r.msg \in live =>
               \A l \in r.ladd \union r.lrem :
                   \/ l \in lab[r.msg] <=> l \in r.ladd
                   \/ \E k \in Ahead(n) : Touches(k, r.msg, l)
        /\ r.ladd \intersect r.lrem = {}
        /\ r.op = "add" => \A k \in DOMAIN log : k < n => log[k].msg # r.msg

MailboxInv ==
    /\ MailboxTypeOK
    /\ \A m \in live : Touched(m)
    /\ \A n \in DOMAIN log : RecordHolds(n)

(* The initial mailbox satisfies the invariant: its log is empty.          *)
LEMMA MailboxInitInv == MailboxInit => MailboxInv
<1> SUFFICES ASSUME MailboxInit PROVE MailboxInv
  OBVIOUS
<1>1. MailboxTypeOK
  BY MailboxAssumption DEF MailboxInit, MailboxTypeOK
<1>2. DOMAIN log = {}
  BY MailboxAssumption DEF MailboxInit
<1> QED
  BY <1>1, <1>2 DEF MailboxInv, MailboxInit, Touched

(* The log only grows at its end: a step of the mailbox either leaves it   *)
(* alone or appends one record.                                            *)
LEMMA AppendExtends ==
    ASSUME MailboxTypeOK, NEW r \in Records, LogRecord(r)
    PROVE  /\ top' = top + 1
           /\ log' \in [Base + 1 .. top + 1 -> Records]
           /\ DOMAIN log' = DOMAIN log \union {top + 1}
           /\ top + 1 \notin DOMAIN log
           /\ log'[top + 1] = r
           /\ \A n \in DOMAIN log : n \in DOMAIN log' /\ log'[n] = log[n] /\ n < top + 1
<1>1. DOMAIN log = Base + 1 .. top /\ top \in Nat /\ Base \in Nat /\ top >= Base
  BY MailboxAssumption DEF MailboxTypeOK
<1>2. Base + 1 .. top + 1 = (Base + 1 .. top) \union {top + 1}
  BY <1>1
<1>3. \A n \in Base + 1 .. top : log[n] \in Records /\ n # top + 1
  BY <1>1 DEF MailboxTypeOK
<1> QED
  BY <1>1, <1>2, <1>3 DEF LogRecord

(* Every change of the mailbox appends the record that announces it.       *)
LEMMA MailboxStep ==
    ASSUME MailboxTypeOK, MailboxNext
    PROVE  \/ UNCHANGED <<top, log, live, lab>>
           \/ \E r \in Records : LogRecord(r)
<1>1. ASSUME NEW m \in Msgs, NEW L \in SUBSET Labels, NewMessage(m, L)
      PROVE  \E r \in Records : LogRecord(r)
  BY <1>1 DEF NewMessage, Records
<1>2. ASSUME NEW m \in Msgs, DeleteMessage(m)
      PROVE  \E r \in Records : LogRecord(r)
  BY <1>2 DEF DeleteMessage, Records
<1>3. ASSUME NEW m \in Msgs, NEW A \in SUBSET Labels, NEW R \in SUBSET Labels,
             ModifyLabels(m, A, R)
      PROVE  \E r \in Records : LogRecord(r)
  BY <1>3 DEF ModifyLabels, Records
<1>4. ASSUME NEW f \in Base + 1 .. MaxHistoryId, Expire(f)
      PROVE  UNCHANGED <<top, log, live, lab>>
  BY <1>4 DEF Expire
<1> QED
  BY <1>1, <1>2, <1>3, <1>4 DEF MailboxNext

(* What lay ahead of a position still does, and the appended record too.   *)
LEMMA AheadGrows ==
    ASSUME MailboxTypeOK, NEW r \in Records, LogRecord(r), NEW p \in Nat, p <= top
    PROVE  /\ \A n \in Ahead(p) : n \in Ahead(p)' /\ log'[n] = log[n]
           /\ top + 1 \in Ahead(p)' /\ log'[top + 1] = r
  BY AppendExtends, MailboxAssumption DEF Ahead, MailboxTypeOK

(* Every change of the mailbox keeps its types.                            *)
LEMMA MailboxTypeStep ==
    ASSUME MailboxTypeOK, MailboxNext
    PROVE  MailboxTypeOK'
<1> USE MailboxAssumption
<1>0. ASSUME NEW r \in Records, LogRecord(r)
      PROVE  /\ top' \in Nat /\ top' >= Base
             /\ log' \in [Base + 1 .. top' -> Records]
             /\ floor' \in 0 .. top'
  BY <1>0, AppendExtends DEF MailboxTypeOK, LogRecord
<1>1. ASSUME NEW m \in Msgs, NEW L \in SUBSET Labels, NewMessage(m, L)
      PROVE  MailboxTypeOK'
  <2>1. [op |-> "add", msg |-> m, ladd |-> {}, lrem |-> {}] \in Records
    BY DEF Records
  <2> QED  BY <1>0, <1>1, <2>1 DEF NewMessage, MailboxTypeOK
<1>2. ASSUME NEW m \in Msgs, DeleteMessage(m)
      PROVE  MailboxTypeOK'
  <2>1. [op |-> "delete", msg |-> m, ladd |-> {}, lrem |-> {}] \in Records
    BY DEF Records
  <2> QED  BY <1>0, <1>2, <2>1 DEF DeleteMessage, MailboxTypeOK
<1>3. ASSUME NEW m \in Msgs, NEW A \in SUBSET Labels, NEW R \in SUBSET Labels,
             ModifyLabels(m, A, R)
      PROVE  MailboxTypeOK'
  <2>1. [op |-> "labels", msg |-> m, ladd |-> A, lrem |-> R] \in Records
    BY DEF Records
  <2> QED  BY <1>0, <1>3, <2>1 DEF ModifyLabels, MailboxTypeOK
<1>4. ASSUME NEW f \in Base + 1 .. MaxHistoryId, Expire(f)
      PROVE  MailboxTypeOK'
  BY <1>4 DEF Expire, MailboxTypeOK
<1> QED
  BY <1>1, <1>2, <1>3, <1>4 DEF MailboxNext

(* The invariant is kept by every change of the mailbox.                   *)
LEMMA MailboxInvStep ==
    ASSUME MailboxInv, MailboxNext
    PROVE  MailboxInv'
<1> USE DEF MailboxInv
<1>0. MailboxTypeOK'
  BY MailboxTypeStep
<1>1. ASSUME NEW m \in Msgs, NEW L \in SUBSET Labels, NewMessage(m, L)
      PROVE  MailboxInv'
  <2> PICK t \in Nat : t = top + 1
    BY MailboxAssumption DEF MailboxTypeOK
  <2> DEFINE r == [op |-> "add", msg |-> m, ladd |-> {}, lrem |-> {}]
  <2>1. r \in Records /\ LogRecord(r) /\ live' = live \union {m} /\ ~Touched(m)
        /\ lab' = [lab EXCEPT ![m] = L]
    BY <1>1 DEF NewMessage, Records
  <2>2. /\ DOMAIN log' = DOMAIN log \union {t}
        /\ t \notin DOMAIN log /\ log'[t] = r
        /\ \A n \in DOMAIN log : log'[n] = log[n]
    BY <2>1, AppendExtends
  <2>3. \A n \in DOMAIN log : log[n].msg # m
    BY <2>1 DEF Touched
  <2>4. \A x \in live' : Touched(x)'
    BY <2>1, <2>2 DEF Touched
  <2>5. ASSUME NEW n \in DOMAIN log PROVE RecordHolds(n)'
    <3>1. n \in Nat /\ n <= top /\ top \in Nat
      BY MailboxAssumption DEF MailboxTypeOK
    <3>2. \A k \in Ahead(n) : k \in Ahead(n)' /\ log'[k] = log[k]
      BY <2>1, <3>1, AheadGrows
    <3>3. log'[n] = log[n] /\ log[n] \in Records /\ log[n].msg # m /\ RecordHolds(n)
      BY <2>2, <2>3 DEF MailboxTypeOK
    <3>4. lab'[log[n].msg] = lab[log[n].msg]
      BY <2>1, <3>3 DEF MailboxTypeOK, Records
    <3>5. log[n].msg \in live' <=> log[n].msg \in live
      BY <2>1, <3>3
    <3>6. Touched(log[n].msg)'
      BY <2>2
      DEF Touched
    <3>12. \A k \in DOMAIN log' : k < n => k \in DOMAIN log /\ log'[k] = log[k]
      BY <2>2, <3>1
    <3> QED
      BY <3>12, <3>2, <3>3, <3>4, <3>5, <3>6 DEF RecordHolds, Touches
  <2>6. RecordHolds(t)'
    BY <2>1, <2>2, <2>4 DEF RecordHolds
  <2> QED  BY <1>0, <2>2, <2>4, <2>5, <2>6
<1>2. ASSUME NEW m \in Msgs, DeleteMessage(m)
      PROVE  MailboxInv'
  <2> PICK t \in Nat : t = top + 1
    BY MailboxAssumption DEF MailboxTypeOK
  <2> DEFINE r == [op |-> "delete", msg |-> m, ladd |-> {}, lrem |-> {}]
  <2>1. r \in Records /\ LogRecord(r) /\ live' = live \ {m} /\ lab' = lab /\ m \in live
    BY <1>2 DEF DeleteMessage, Records
  <2>2. /\ DOMAIN log' = DOMAIN log \union {t}
        /\ t \notin DOMAIN log /\ log'[t] = r
        /\ \A n \in DOMAIN log : log'[n] = log[n]
    BY <2>1, AppendExtends
  <2>4. \A x \in live : Touched(x)'
    BY <2>1, <2>2 DEF Touched
  <2>5. ASSUME NEW n \in DOMAIN log PROVE RecordHolds(n)'
    <3>1. n \in Nat /\ n <= top /\ top \in Nat
      BY MailboxAssumption DEF MailboxTypeOK
    <3>2. /\ \A k \in Ahead(n) : k \in Ahead(n)' /\ log'[k] = log[k]
          /\ t \in Ahead(n)' /\ log'[t] = r
      BY <2>1, <3>1, AheadGrows
    <3>3. log'[n] = log[n] /\ RecordHolds(n)
      BY <2>2
    <3>4. Touched(log[n].msg)'
      BY <2>2 DEF Touched
    <3>5. ASSUME log[n].op # "delete", log[n].msg \notin live'
          PROVE  \E k \in Ahead(n)' : log'[k].msg = log[n].msg /\ log'[k].op = "delete"
      <4>1. CASE log[n].msg = m
        <5>1. log'[t].msg = log[n].msg /\ log'[t].op = "delete"
          BY <3>2, <4>1
        <5> QED  BY <3>2, <5>1
      <4>2. CASE log[n].msg # m
        <5>1. log[n].msg \notin live
          BY <2>1, <3>5, <4>2
        <5>2. PICK k \in Ahead(n) : log[k].msg = log[n].msg /\ log[k].op = "delete"
          BY <3>3, <3>5, <5>1 DEF RecordHolds
        <5> QED  BY <3>2, <5>2
      <4> QED  BY <4>1, <4>2
    <3>6. ASSUME log[n].op = "labels", log[n].msg \in live',
                 NEW l \in log[n].ladd \union log[n].lrem
          PROVE  \/ l \in lab'[log[n].msg] <=> l \in log[n].ladd
                 \/ \E k \in Ahead(n)' : Touches(k, log[n].msg, l)'
      BY <2>1, <3>2, <3>3, <3>6 DEF RecordHolds, Touches
    <3>12. \A k \in DOMAIN log' : k < n => k \in DOMAIN log /\ log'[k] = log[k]
      BY <2>2, <3>1
    <3> QED
      BY <3>12, <2>1, <3>3, <3>4, <3>5, <3>6 DEF RecordHolds
  <2>6. RecordHolds(t)'
    BY <2>1, <2>2, <2>4 DEF RecordHolds
  <2> QED  BY <1>0, <2>1, <2>2, <2>4, <2>5, <2>6
<1>3. ASSUME NEW m \in Msgs, NEW A \in SUBSET Labels, NEW R \in SUBSET Labels,
             ModifyLabels(m, A, R)
      PROVE  MailboxInv'
  <2> PICK t \in Nat : t = top + 1
    BY MailboxAssumption DEF MailboxTypeOK
  <2> DEFINE r == [op |-> "labels", msg |-> m, ladd |-> A, lrem |-> R]
  <2>1. /\ r \in Records /\ LogRecord(r) /\ live' = live /\ m \in live
        /\ lab' = [lab EXCEPT ![m] = (@ \union A) \ R]
        /\ A \intersect R = {} /\ A \subseteq Labels /\ R \subseteq Labels
    BY <1>3 DEF ModifyLabels, Records
  <2>2. /\ DOMAIN log' = DOMAIN log \union {t}
        /\ t \notin DOMAIN log /\ log'[t] = r
        /\ \A n \in DOMAIN log : log'[n] = log[n]
    BY <2>1, AppendExtends
  <2>4. \A x \in live : Touched(x)'
    BY <2>1, <2>2 DEF Touched
  <2>7. lab'[m] = (lab[m] \union A) \ R /\ \A x \in Msgs \ {m} : lab'[x] = lab[x]
    BY <2>1 DEF MailboxTypeOK
  <2>5. ASSUME NEW n \in DOMAIN log PROVE RecordHolds(n)'
    <3>1. n \in Nat /\ n <= top /\ top \in Nat
      BY MailboxAssumption DEF MailboxTypeOK
    <3>2. /\ \A k \in Ahead(n) : k \in Ahead(n)' /\ log'[k] = log[k]
          /\ t \in Ahead(n)' /\ log'[t] = r
      BY <2>1, <3>1, AheadGrows
    <3>3. log'[n] = log[n] /\ RecordHolds(n) /\ log[n].msg \in Msgs
      BY <2>2 DEF MailboxTypeOK, Records
    <3>6. Touched(log[n].msg)'
      BY <2>2 DEF Touched
    <3>7. ASSUME log[n].msg = m, NEW l \in A \union R
          PROVE  Touches(t, m, l)'
      BY <2>2 DEF Touches
    <3>8. ASSUME log[n].msg = m, NEW l, l \notin A \union R
          PROVE  l \in lab'[m] <=> l \in lab[m]
      BY <3>8, <2>7
    <3>9. ASSUME NEW k \in Ahead(n), NEW l, Touches(k, log[n].msg, l)
          PROVE  Touches(k, log[n].msg, l)'
      BY <3>2, <3>9, <3>3 DEF Touches
    <3>10. ASSUME log[n].op # "delete", log[n].msg \notin live'
           PROVE  \E k \in Ahead(n)' : log'[k].msg = log[n].msg /\ log'[k].op = "delete"
      BY <2>1, <3>2, <3>3, <3>10 DEF RecordHolds
    <3>11. ASSUME log[n].op = "labels", log[n].msg \in live',
                  NEW l \in log[n].ladd \union log[n].lrem
           PROVE  \/ l \in lab'[log[n].msg] <=> l \in log[n].ladd
                  \/ \E k \in Ahead(n)' : Touches(k, log[n].msg, l)'
      <4>1. CASE log[n].msg = m /\ l \in A \union R
        BY <4>1, <3>2, <3>3, <3>7
      <4>2. CASE ~(log[n].msg = m /\ l \in A \union R)
        <5>1. l \in lab'[log[n].msg] <=> l \in lab[log[n].msg]
          BY <4>2, <2>7, <3>3, <3>8
        <5>2. \/ l \in lab[log[n].msg] <=> l \in log[n].ladd
              \/ \E k \in Ahead(n) : Touches(k, log[n].msg, l)
          BY <2>1, <3>3, <3>11 DEF RecordHolds
        <5> QED  BY <3>2, <3>3, <3>9, <5>1, <5>2
      <4> QED  BY <4>1, <4>2
    <3>12. \A k \in DOMAIN log' : k < n => k \in DOMAIN log /\ log'[k] = log[k]
      BY <2>2, <3>1
    <3> QED
      BY <3>12, <2>1, <3>3, <3>6, <3>10, <3>11 DEF RecordHolds
  <2>6. RecordHolds(t)'
    BY <2>1, <2>2, <2>4, <2>7 DEF RecordHolds
  <2> QED  BY <1>0, <2>1, <2>2, <2>4, <2>5, <2>6
<1>4. ASSUME NEW f \in Base + 1 .. MaxHistoryId, Expire(f)
      PROVE  MailboxInv'
  BY <1>0, <1>4 DEF Expire, Touched, RecordHolds, Touches, Ahead
<1> QED
  BY <1>1, <1>2, <1>3, <1>4 DEF MailboxNext

(* Records stay, new ones come above all others, and a message that is     *)
(* gone does not come back.                                                *)
LEMMA RecordsStay ==
    ASSUME MailboxInv, MailboxNext
    PROVE  /\ \A n \in DOMAIN log : n \in DOMAIN log' /\ log'[n] = log[n]
           /\ \A n \in DOMAIN log' \ DOMAIN log : n > top
           /\ \A n \in DOMAIN log : log[n].msg \notin live => log[n].msg \notin live'
<1> USE DEF MailboxInv
<1>1. CASE UNCHANGED <<top, log, live, lab>>
  BY <1>1
<1>2. CASE \E r \in Records : LogRecord(r)
  <2>1. /\ \A n \in DOMAIN log : n \in DOMAIN log' /\ log'[n] = log[n]
        /\ DOMAIN log' = DOMAIN log \union {top + 1} /\ top \in Nat
    BY <1>2, AppendExtends DEF MailboxTypeOK
  <2>2. \A n \in DOMAIN log : log[n].msg \notin live => log[n].msg \notin live'
    BY DEF MailboxNext, NewMessage, DeleteMessage, ModifyLabels, Expire, Touched
  <2> QED  BY <2>1, <2>2
<1> QED
  BY <1>1, <1>2, MailboxStep

-----------------------------------------------------------------------------
(* A change of the mailbox puts the record that makes up for it ahead of   *)
(* every position already consumed.                                        *)
LEMMA OwedFileStep ==
    ASSUME MailboxInv, MailboxNext, NEW p \in Nat, p <= top,
           NEW m \in Msgs, NEW F, OwedFile(m, F, p)
    PROVE  OwedFile(m, F, p)'
<1> USE DEF MailboxInv
<1>1. ASSUME NEW x \in Msgs, NEW L \in SUBSET Labels, NewMessage(x, L)
      PROVE  OwedFile(m, F, p)'
  <2> DEFINE r == [op |-> "add", msg |-> x, ladd |-> {}, lrem |-> {}]
  <2>1. r \in Records /\ LogRecord(r) /\ live' = live \union {x}
    BY <1>1 DEF NewMessage, Records
  <2> QED  BY <2>1, AheadGrows DEF OwedFile
<1>2. ASSUME NEW x \in Msgs, DeleteMessage(x)
      PROVE  OwedFile(m, F, p)'
  <2> DEFINE r == [op |-> "delete", msg |-> x, ladd |-> {}, lrem |-> {}]
  <2>1. r \in Records /\ LogRecord(r) /\ live' = live \ {x}
    BY <1>2 DEF DeleteMessage, Records
  <2> QED  BY <2>1, AheadGrows DEF OwedFile
<1>3. ASSUME NEW x \in Msgs, NEW A \in SUBSET Labels, NEW R \in SUBSET Labels,
             ModifyLabels(x, A, R)
      PROVE  OwedFile(m, F, p)'
  <2> DEFINE r == [op |-> "labels", msg |-> x, ladd |-> A, lrem |-> R]
  <2>1. r \in Records /\ LogRecord(r) /\ live' = live
    BY <1>3 DEF ModifyLabels, Records
  <2> QED  BY <2>1, AheadGrows DEF OwedFile
<1>4. ASSUME NEW f \in Base + 1 .. MaxHistoryId, Expire(f)
      PROVE  OwedFile(m, F, p)'
  BY <1>4 DEF Expire, OwedFile, Ahead
<1> QED
  BY <1>1, <1>2, <1>3, <1>4 DEF MailboxNext

(* The same for the deletion owed to a file: its record is appended when   *)
(* the message goes.                                                       *)
LEMMA OwedDeleteStep ==
    ASSUME MailboxInv, MailboxNext, NEW p \in Nat, p <= top,
           NEW m \in Msgs, NEW F, OwedDelete(m, F, p)
    PROVE  OwedDelete(m, F, p)'
<1> USE DEF MailboxInv
<1>1. ASSUME NEW x \in Msgs, NEW L \in SUBSET Labels, NewMessage(x, L)
      PROVE  OwedDelete(m, F, p)'
  <2> DEFINE r == [op |-> "add", msg |-> x, ladd |-> {}, lrem |-> {}]
  <2>1. r \in Records /\ LogRecord(r) /\ live' = live \union {x}
    BY <1>1 DEF NewMessage, Records
  <2> QED  BY <2>1, AheadGrows DEF OwedDelete
<1>2. ASSUME NEW x \in Msgs, DeleteMessage(x)
      PROVE  OwedDelete(m, F, p)'
  <2> DEFINE r == [op |-> "delete", msg |-> x, ladd |-> {}, lrem |-> {}]
  <2>1. r \in Records /\ LogRecord(r) /\ live' = live \ {x}
    BY <1>2 DEF DeleteMessage, Records
  <2> QED  BY <2>1, AheadGrows DEF OwedDelete
<1>3. ASSUME NEW x \in Msgs, NEW A \in SUBSET Labels, NEW R \in SUBSET Labels,
             ModifyLabels(x, A, R)
      PROVE  OwedDelete(m, F, p)'
  <2> DEFINE r == [op |-> "labels", msg |-> x, ladd |-> A, lrem |-> R]
  <2>1. r \in Records /\ LogRecord(r) /\ live' = live
    BY <1>3 DEF ModifyLabels, Records
  <2> QED  BY <2>1, AheadGrows DEF OwedDelete
<1>4. ASSUME NEW f \in Base + 1 .. MaxHistoryId, Expire(f)
      PROVE  OwedDelete(m, F, p)'
  BY <1>4 DEF Expire, OwedDelete, Ahead
<1> QED
  BY <1>1, <1>2, <1>3, <1>4 DEF MailboxNext

(* Local labels are those of a message that the mailbox has known before:  *)
(* a fresh message has none yet.                                           *)
LEMMA OwedLabelsStep ==
    ASSUME MailboxInv, MailboxNext, NEW p \in Nat, p <= top,
           NEW m \in Msgs, Touched(m), NEW K, NEW LS, OwedLabels(m, K, LS, p)
    PROVE  OwedLabels(m, K, LS, p)'
<1> USE DEF MailboxInv
<1>1. ASSUME NEW x \in Msgs, NEW L \in SUBSET Labels, NewMessage(x, L)
      PROVE  OwedLabels(m, K, LS, p)'
  <2> DEFINE r == [op |-> "add", msg |-> x, ladd |-> {}, lrem |-> {}]
  <2>1. /\ r \in Records /\ LogRecord(r) /\ live' = live \union {x} /\ x # m
        /\ lab'[m] = lab[m]
    BY <1>1 DEF NewMessage, Records, MailboxTypeOK
  <2> QED  BY <2>1, AheadGrows DEF OwedLabels, Touches
<1>2. ASSUME NEW x \in Msgs, DeleteMessage(x)
      PROVE  OwedLabels(m, K, LS, p)'
  <2> DEFINE r == [op |-> "delete", msg |-> x, ladd |-> {}, lrem |-> {}]
  <2>1. r \in Records /\ LogRecord(r) /\ live' = live \ {x} /\ lab' = lab
    BY <1>2 DEF DeleteMessage, Records
  <2> QED  BY <2>1, AheadGrows DEF OwedLabels, Touches
<1>3. ASSUME NEW x \in Msgs, NEW A \in SUBSET Labels, NEW R \in SUBSET Labels,
             ModifyLabels(x, A, R)
      PROVE  OwedLabels(m, K, LS, p)'
  <2> PICK t \in Nat : t = top + 1
    BY MailboxAssumption DEF MailboxTypeOK
  <2> DEFINE r == [op |-> "labels", msg |-> x, ladd |-> A, lrem |-> R]
  <2>1. /\ r \in Records /\ LogRecord(r) /\ live' = live
        /\ lab'[x] = (lab[x] \union A) \ R
        /\ \A y \in Msgs \ {x} : lab'[y] = lab[y]
    BY <1>3 DEF ModifyLabels, Records, MailboxTypeOK
  <2>2. /\ \A n \in Ahead(p) : n \in Ahead(p)' /\ log'[n] = log[n]
        /\ t \in Ahead(p)' /\ log'[t] = r
    BY <2>1, AheadGrows
  <2>3. ASSUME m = x, NEW l \in A \union R
        PROVE  Touches(t, m, l)'
    BY <2>2, <2>3 DEF Touches
  <2>4. ASSUME NEW n \in Ahead(p), NEW l, Touches(n, m, l)
        PROVE  Touches(n, m, l)'
    BY <2>2, <2>4 DEF Touches
  <2> SUFFICES ASSUME m \in live', NEW l \in LS, ~(l \in lab'[m] <=> l \in K)
               PROVE  \E n \in Ahead(p)' : Touches(n, m, l)'
    BY DEF OwedLabels
  <2>5. CASE m = x /\ l \in A \union R
    BY <2>5, <2>2, <2>3
  <2>6. CASE ~(m = x /\ l \in A \union R)
    <3>1. l \in lab'[m] <=> l \in lab[m]
      BY <2>6, <2>1
    <3>2. PICK n \in Ahead(p) : Touches(n, m, l)
      BY <2>1, <3>1 DEF OwedLabels
    <3> QED  BY <3>2, <2>2, <2>4
  <2> QED  BY <2>5, <2>6
<1>4. ASSUME NEW f \in Base + 1 .. MaxHistoryId, Expire(f)
      PROVE  OwedLabels(m, K, LS, p)'
  BY <1>4 DEF Expire, OwedLabels, Ahead, Touches
<1> QED
  BY <1>1, <1>2, <1>3, <1>4 DEF MailboxNext

(* What is owed at a position is owed at every earlier one.                *)
LEMMA OwedEarlier ==
    ASSUME NEW p \in Nat, NEW q \in Nat, q <= p, MailboxTypeOK,
           NEW S, NEW F, NEW K, Covered(S, F, K, p)
    PROVE  Covered(S, F, K, q)
<1>1. \A n \in Ahead(p) : n \in Ahead(q)
  BY MailboxAssumption DEF Ahead, MailboxTypeOK
<1> QED
  BY <1>1 DEF Covered, Owed, OwedFile, OwedDelete, OwedLabels

(* With nothing ahead, a mirror that is accounted for is exact.            *)
LEMMA CoveredAtTop ==
    ASSUME MailboxTypeOK, NEW S \in SUBSET Msgs, NEW F, NEW K \in [Msgs -> SUBSET Labels],
           Covered(S, F, K, top)
    PROVE  \A m \in S \intersect live : m \in F /\ K[m] = lab[m]
<1>1. Ahead(top) = {}
  BY MailboxAssumption DEF Ahead, MailboxTypeOK
<1> SUFFICES ASSUME NEW m \in S, m \in live PROVE m \in F /\ K[m] = lab[m]
  OBVIOUS
<1>2. m \in F
  BY <1>1 DEF Covered, Owed, OwedFile
<1>3. \A l \in Labels : l \in lab[m] <=> l \in K[m]
  BY <1>1, <1>2 DEF Covered, Owed, OwedLabels
<1> QED
  BY <1>2, <1>3 DEF MailboxTypeOK

(* A change of the mailbox keeps everything owed to a message: the files   *)
(* are of messages that the mailbox has known.                             *)
LEMMA OwedStep ==
    ASSUME MailboxInv, MailboxNext, NEW p \in Nat, p <= top,
           NEW m \in Msgs, NEW F, NEW K, m \in F => Touched(m), Owed(m, F, K, p)
    PROVE  Owed(m, F, K, p)'
  BY OwedFileStep, OwedDeleteStep, OwedLabelsStep DEF Owed

(* A record of another message makes no difference to what is owed.        *)
LEMMA OtherRecord ==
    ASSUME MailboxTypeOK, NEW p \in DOMAIN log, NEW m, m # log[p].msg,
           NEW F, NEW K, Owed(m, F, K, p - 1)
    PROVE  Owed(m, F, K, p)
<1>1. \A n \in Ahead(p - 1) : n = p \/ n \in Ahead(p)
  BY MailboxAssumption DEF Ahead, MailboxTypeOK
<1> QED
  BY <1>1 DEF Owed, OwedFile, OwedDelete, OwedLabels, Touches

(* What is owed depends on the file and the labels of the message alone.   *)
LEMMA SameMirror ==
    ASSUME NEW m, NEW p, NEW F, NEW K, NEW F2, NEW K2,
           m \in F <=> m \in F2, m \in F => K2[m] = K[m], Owed(m, F, K, p)
    PROVE  Owed(m, F2, K2, p)
  BY DEF Owed, OwedFile, OwedDelete, OwedLabels

(* Nothing is owed to a message that exists nowhere.                       *)
LEMMA NothingOwed ==
    ASSUME NEW m, m \notin live, NEW F, m \notin F, NEW K, NEW p
    PROVE  Owed(m, F, K, p)
  BY DEF Owed, OwedFile, OwedDelete

(* The record that added a message, or changed its labels, owes nothing    *)
(* more once the file is there with labels that are right or made right.   *)
LEMMA FileThere ==
    ASSUME MailboxInv, NEW p \in DOMAIN log, log[p].op # "delete",
           NEW F, NEW K, log[p].msg \in F,
           OwedLabels(log[p].msg, K[log[p].msg], Labels, p)
    PROVE  Owed(log[p].msg, F, K, p)
<1>1. RecordHolds(p)
  BY DEF MailboxInv
<1> QED
  BY <1>1 DEF RecordHolds, Owed, OwedFile, OwedDelete

(* A step that leaves the mailbox alone changes what is owed by the files  *)
(* and the position only.                                                  *)
LEMMA StillInv ==
    ASSUME MailboxInv, UNCHANGED mailbox
    PROVE  MailboxInv' /\ \A m : Touched(m)' <=> Touched(m)
  BY DEF MailboxInv, MailboxTypeOK, RecordHolds, Touched, Touches, Ahead, mailbox

(* What is owed to a message stays owed while the mailbox does not change. *)
LEMMA StillOwed ==
    ASSUME UNCHANGED mailbox, NEW m, NEW F, NEW K, NEW p, Owed(m, F, K, p)
    PROVE  Owed(m, F, K, p)'
  BY DEF Owed, OwedFile, OwedDelete, OwedLabels, Touches, Ahead, mailbox

(* The same for the labels held in memory.                                 *)
LEMMA StillOwedLabels ==
    ASSUME UNCHANGED mailbox, NEW m, NEW K, NEW LS, NEW p, OwedLabels(m, K, LS, p)
    PROVE  OwedLabels(m, K, LS, p)'
  BY DEF OwedLabels, Touches, Ahead, mailbox
=============================================================================
