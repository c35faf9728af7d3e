--------------------------- MODULE HistoryProofs ---------------------------
(***************************************************************************)
(* Theorems about History, for all values of its constants: no kill, error,*)
(* expired log or concurrent change of the mailbox moves the cursor back,  *)
(* leaves a difference behind it, or makes a journal row that is wrong     *)
(* about its own record; and a replay that ends accounts for the mirror.   *)
(***************************************************************************)
EXTENDS History, MailboxProofs

Position(p) == p \in Base .. top
Working == pc \in {"event", "meta", "deliver", "rewrite"}

(* Cursors are history ids that the mailbox has reached, a record that is  *)
(* being applied is one of the page's, and the last page of a run, or the  *)
(* last row of a replay, reaches the committed cursor.                     *)
Positions ==
    /\ committed = 0 \/ Position(committed)
    /\ progress = 0 \/ Position(progress)
    /\ ptoken = 0 \/ Position(ptoken)
    /\ Position(anchor)
    /\ pc # "idle" => Position(cursor) /\ Position(maxSeen) /\ (tok = 0 \/ Position(tok))
    /\ Working => pos \in Base + 1 .. maxSeen + 1 /\ (tok = 0 => maxSeen >= committed)
    /\ pc \in {"meta", "deliver", "rewrite"} => pos <= maxSeen /\ ev.op # "delete"
    /\ pc = "rewrite" => ev.op = "labels"
    /\ pc \in {"commit", "replay", "replayRewrite"} => maxSeen >= committed
    /\ \A r \in journal \union rows : r.hid \in Base + 1 .. top

TypeInv == TypeOK /\ Positions

(* The record being applied is a record of the log.                        *)
LEMMA EvType ==
    ASSUME TypeInv, Working, pos <= maxSeen
    PROVE  /\ pos \in DOMAIN log /\ ev \in Records /\ ev.msg \in Msgs
           /\ pos \in Base + 1 .. top
  BY MailboxAssumption
  DEF TypeInv, TypeOK, Positions, Position, Working, MailboxTypeOK, ev, Records

(* Rows added to a set of rows stay rows, and keep its range.              *)
LEMMA UpsertType ==
    ASSUME NEW J, NEW R
    PROVE  \A r \in Upsert(J, R) : r \in J \/ r \in R
  BY DEF Upsert

(* The initial states are well typed, with every cursor at Base or absent. *)
LEMMA TypeInit == Init => TypeInv
<1> SUFFICES ASSUME Init PROVE TypeInv
  OBVIOUS
<1>1. MailboxTypeOK
  BY MailboxInitInv DEF Init, MailboxInv
<1>2. TypeOK
  <2>1. kw \in [Msgs -> SUBSET Labels]
    BY DEF Init, MailboxInit
  <2>2. file \subseteq Msgs /\ committed \in Nat /\ anchor \in Nat
    BY MailboxAssumption, HistoryAssumption DEF Init
  <2>3. pc \in PCs
    BY DEF Init, PCs
  <2> QED  BY <1>1, <2>1, <2>2, <2>3 DEF Init, TypeOK
<1>3. Positions
  BY <1>1, MailboxAssumption, HistoryAssumption
  DEF Init, Positions, Position, Working, MailboxTypeOK, MailboxInit
<1> QED  BY <1>2, <1>3 DEF TypeInv

(* The mailbox's own steps.                                                *)
LEMMA TypeGmail == TypeInv /\ Gmail => TypeInv'
<1> SUFFICES ASSUME TypeInv, Gmail PROVE TypeInv'
  OBVIOUS
<1> USE DEF TypeInv
<1>1. MailboxTypeOK /\ MailboxTypeOK'
  BY MailboxTypeStep DEF Gmail, TypeOK
<1>2. /\ top' >= top
      /\ \A n \in DOMAIN log : log'[n] = log[n]
  <2>1. CASE UNCHANGED <<top, log, live, lab>>
    BY <2>1, <1>1 DEF MailboxTypeOK
  <2>2. CASE \E r \in Records : LogRecord(r)
    BY <2>2, <1>1, AppendExtends DEF MailboxTypeOK
  <2> QED  BY <2>1, <2>2, <1>1, MailboxStep DEF Gmail
<1>3. TypeOK'
  BY <1>1 DEF Gmail, TypeOK, disk, db, proc, ghost
<1>4. \A p : Position(p) => p \in Base .. top'
  BY <1>1, <1>2, MailboxAssumption DEF Position, MailboxTypeOK
<1>5. pc \in {"meta", "deliver", "rewrite"} => ev' = ev
  <2> SUFFICES ASSUME pc \in {"meta", "deliver", "rewrite"} PROVE ev' = ev
    OBVIOUS
  <2>1. pos \in DOMAIN log /\ pos' = pos
    BY EvType DEF Working, Positions, Gmail, proc
  <2> QED  BY <2>1, <1>2 DEF ev
<1>6. \A r \in journal \union rows : r.hid \in Base + 1 .. top'
  BY <1>1, <1>2, MailboxAssumption DEF Positions, MailboxTypeOK
<1>7. Positions'
  BY <1>4, <1>5, <1>6 DEF Gmail, Positions, Position, Working, disk, db, proc, ghost
<1> QED  BY <1>3, <1>7

(* A process that has ended holds nothing.                                 *)
LEMMA StopType ==
    ASSUME Stop
    PROVE  /\ pc' = "idle" /\ pc' \in PCs /\ ~Working'
           /\ cursor' \in Nat /\ tok' \in Nat /\ maxSeen' \in Nat /\ pos' \in Nat
           /\ half' \in BOOLEAN /\ got' \subseteq Labels
           /\ rows' \subseteq Row /\ todo' \subseteq Row /\ rows' = {}
  BY DEF Stop, PCs, Working

(* A run that starts, resumed, overridden or bootstrapped, begins at a     *)
(* cursor the mailbox has reached.                                         *)
LEMMA TypeRun == TypeInv /\ Run => TypeInv'
<1> SUFFICES ASSUME TypeInv, Run PROVE TypeInv'
  OBVIOUS
<1> USE DEF TypeInv
<1>0. Base \in Nat /\ top \in Nat /\ \A p : Position(p) => p \in Nat
  BY MailboxAssumption DEF TypeOK, MailboxTypeOK, Position
<1>1. ASSUME NEW c, NEW t, Position(c), t = 0 \/ Position(t), Begin(c, t),
             UNCHANGED <<mailbox, disk, committed, journal, failed, torn>>,
             Position(anchor'), overshot' \in BOOLEAN,
             progress' = 0 \/ Position(progress'), ptoken' = 0 \/ Position(ptoken')
      PROVE  TypeInv'
  <2>1. TypeOK'
    BY <1>0, <1>1 DEF TypeOK, MailboxTypeOK, Begin, PCs, mailbox, disk
  <2>2. Positions'
    BY <1>1 DEF Positions, Position, Begin, Working, mailbox
  <2> QED  BY <2>1, <2>2
<1>2. ASSUME NEW c, Position(c), BeginAt(c) PROVE TypeInv'
  <2>1. overshot' \in BOOLEAN
    BY <1>2 DEF BeginAt, TypeOK
  <2>2. /\ Begin(c, 0) /\ Position(anchor') /\ Position(progress') /\ ptoken' = 0
        /\ UNCHANGED <<mailbox, disk, committed, journal, failed, torn>>
    BY <1>2 DEF BeginAt, Position, mailbox
  <2> QED  BY <1>1, <1>2, <2>1, <2>2
<1>3. CASE StartResume
  <2>1. /\ UNCHANGED <<mailbox, disk, committed, journal, failed, torn>>
        /\ UNCHANGED <<progress, ptoken, anchor, overshot>>
    BY <1>3 DEF StartResume, db, ghost
  <2>2. /\ Position(anchor') /\ overshot' \in BOOLEAN
        /\ progress' = 0 \/ Position(progress')
        /\ ptoken' = 0 \/ Position(ptoken')
    BY <2>1 DEF TypeOK, Positions, Position, mailbox
  <2>3. CASE progress # 0
    BY <1>1, <1>3, <2>1, <2>2, <2>3 DEF StartResume, Positions
  <2>4. CASE progress = 0
    <3>1. Begin(committed, 0) /\ Position(committed)
      BY <1>3, <2>4 DEF StartResume, Resumable, Positions
    <3> QED  BY <1>1, <2>1, <2>2, <3>1
  <2> QED  BY <2>3, <2>4
<1>4. CASE StartOverride
  <2> PICK s \in Overrides : s <= top /\ BeginAt(s)
    BY <1>4 DEF StartOverride
  <2>1. Position(s)
    BY <1>0, HistoryAssumption DEF Position
  <2> QED  BY <1>2, <2>1
<1>5. CASE StartBootstrap
  BY <1>2, <1>5 DEF StartBootstrap, Position
<1> QED
  BY <1>3, <1>4, <1>5 DEF Run

(* What every step on a record leaves alone.                               *)
KeepsPlace ==
    UNCHANGED <<mailbox, committed, progress, ptoken, journal, anchor, overshot, torn>>

DiskType == file' \subseteq Msgs /\ kw' \in [Msgs -> SUBSET Labels]

(* The end of a record keeps the invariant.                                *)
LEMMA FinishType ==
    ASSUME TypeInv, Working, pos <= maxSeen, FinishRecord, KeepsPlace, DiskType,
           failed' \subseteq Msgs, rows' \subseteq Row,
           \A r \in rows' : r \in rows \/ r.hid = pos
    PROVE  TypeInv'
<1> USE DEF TypeInv, KeepsPlace
<1>1. pos \in Base + 1 .. top /\ pos' \in Base + 1 .. maxSeen + 1 /\ pos' \in Nat
  BY EvType, MailboxAssumption
  DEF FinishRecord, TypeOK, MailboxTypeOK, Positions, Position
<1>2. TypeOK'
  BY <1>1 DEF TypeOK, MailboxTypeOK, FinishRecord, PCs, mailbox, DiskType, NextHalf
<1>3. Positions'
  BY <1>1 DEF Positions, Position, FinishRecord, Working, mailbox
<1> QED  BY <1>2, <1>3

(* Going on with the same record keeps the invariant.                      *)
LEMMA GotoType ==
    ASSUME TypeInv, Working, pos <= maxSeen, ev.op # "delete",
           NEW p \in {"event", "meta", "deliver", "rewrite"}, Goto(p),
           p = "rewrite" => ev.op = "labels",
           KeepsPlace, DiskType, failed' = failed, got' \subseteq Labels
    PROVE  TypeInv'
<1> USE DEF TypeInv, KeepsPlace
<1>1. ev' = ev
  BY DEF Goto, mailbox, ev
<1>2. TypeOK'
  BY DEF TypeOK, MailboxTypeOK, Goto, PCs, mailbox, DiskType
<1>3. Positions'
  BY <1>1 DEF Positions, Position, Goto, Working, mailbox
<1> QED  BY <1>2, <1>3

(* The end of the process keeps the invariant.                             *)
LEMMA EndType ==
    ASSUME TypeInv, Stop,
           UNCHANGED <<mailbox, disk, journal, overshot, failed>>, torn' \subseteq Msgs,
           committed' = 0 \/ Position(committed'),
           progress' = 0 \/ Position(progress'),
           ptoken' = 0 \/ Position(ptoken'), Position(anchor')
    PROVE  TypeInv'
<1> USE DEF TypeInv
<1>0. \A p : Position(p) => p \in Nat
  BY MailboxAssumption DEF TypeOK, MailboxTypeOK, Position
<1>1. TypeOK'
  BY <1>0, StopType DEF TypeOK, MailboxTypeOK, mailbox, disk
<1>2. Positions'
  BY StopType DEF Positions, Position, mailbox
<1> QED  BY <1>1, <1>2

(* A record whose step fails is passed over or ends the run; both keep the *)
(* invariant.                                                              *)
LEMMA FailsType ==
    ASSUME TypeInv, Working, pos <= maxSeen, RecordFails, KeepsPlace, UNCHANGED disk
    PROVE  TypeInv'
<1>1. CASE ev.op = "add" /\ Stop /\ UNCHANGED failed
  BY <1>1, EndType DEF KeepsPlace, TypeInv, TypeOK, Positions, disk
<1>2. CASE FinishRecord /\ failed' = failed \union {ev.msg} /\ UNCHANGED rows
  BY <1>2, FinishType, EvType DEF TypeInv, TypeOK, DiskType, disk
<1> QED  BY <1>1, <1>2 DEF RecordFails

(* Every step on a record of the page keeps the invariant.                 *)
LEMMA TypeApply == TypeInv /\ Apply => TypeInv'
<1> SUFFICES ASSUME TypeInv, Apply PROVE TypeInv'
  OBVIOUS
<1>0. pc \in {"meta", "deliver", "rewrite"} => pos <= maxSeen /\ ev.op # "delete"
  BY DEF TypeInv, Positions
<1>1. /\ UNCHANGED disk => DiskType
      /\ failed \subseteq Msgs /\ rows \subseteq Row /\ got \subseteq Labels
  BY DEF TypeInv, TypeOK, DiskType, disk
<1>2. ASSUME Working, pos <= maxSeen,
             NEW op \in {"ADD", "DELETE", "WRITE_LABELS"}, NEW e \in BOOLEAN,
             NEW L \in SUBSET Labels, Journal(op, e, L)
      PROVE  /\ rows' \subseteq Row
             /\ \A r \in rows' : r \in rows \/ r.hid = pos
  <2> DEFINE n == [hid |-> pos, msg |-> ev.msg, op |-> op, exists |-> e, labels |-> L]
  <2>1. n \in Row /\ n.hid = pos
    BY <1>2, EvType DEF Row, TypeInv, TypeOK
  <2>2. rows' = Upsert(rows, {n})
    BY <1>2 DEF Journal
  <2> QED  BY <2>1, <2>2, UpsertType DEF TypeInv, TypeOK
<1>3. ASSUME Working, pos <= maxSeen, NEW L \in SUBSET Labels, Deliver(ev.msg, L)
      PROVE  DiskType
  BY <1>3, EvType DEF Deliver, DiskType, TypeInv, TypeOK
<1>4. ASSUME Working, pos <= maxSeen, Remove(ev.msg)
      PROVE  DiskType
  BY <1>4, EvType DEF Remove, DiskType, TypeInv, TypeOK
<1>a. CASE AddPresent
  BY <1>a, <1>1, FinishType
  DEF AddPresent, Applying, Working, KeepsPlace, db, ghost, TypeInv, TypeOK, DiskType, disk
<1>b. CASE FetchBody
  BY <1>b, <1>1, GotoType
  DEF FetchBody, Downloading, Applying, Working, KeepsPlace, db, ghost, TypeInv, TypeOK,
      DiskType, disk
<1>c. CASE BodyGone
  BY <1>c, <1>1, FinishType
  DEF BodyGone, Downloading, Applying, Working, KeepsPlace, db, ghost, TypeInv, TypeOK,
      DiskType, disk
<1>d. CASE FetchMeta
  <2>1. lab[ev.msg] \subseteq Labels
    BY <1>d, <1>0, EvType DEF FetchMeta, Working, TypeInv, TypeOK, MailboxTypeOK
  <2> QED
    BY <1>d, <1>0, <1>1, <2>1, GotoType
    DEF FetchMeta, Working, KeepsPlace, db, ghost, TypeInv, TypeOK, DiskType, disk
<1>e. CASE DownloadFails
  BY <1>e, <1>0, FailsType
  DEF DownloadFails, Downloading, Applying, Working, KeepsPlace, db
<1>f. CASE DeliverNew
  <2>1. Working /\ pos <= maxSeen /\ ev.op # "delete" /\ got \in SUBSET Labels
    BY <1>f, <1>0 DEF DeliverNew, Working, TypeInv, TypeOK
  <2>2. DiskType /\ KeepsPlace /\ failed' = failed /\ failed \subseteq Msgs
    BY <1>f, <2>1, <1>3 DEF DeliverNew, KeepsPlace, db, ghost, TypeInv, TypeOK
  <2>3. CASE Journal("ADD", TRUE, got) /\ FinishRecord
    BY <2>1, <2>2, <2>3, <1>2, FinishType
  <2>4. CASE got' = {} /\ Goto("event")
    BY <2>1, <2>2, <2>4, GotoType
  <2> QED  BY <1>f, <2>3, <2>4 DEF DeliverNew
<1>g. CASE ApplyDelete
  <2>1. Working /\ pos <= maxSeen
    BY <1>g DEF ApplyDelete, Applying, Working
  <2>2. DiskType /\ KeepsPlace /\ failed' \subseteq Msgs
    BY <1>g, <2>1, <1>1, <1>4, EvType DEF ApplyDelete, KeepsPlace, db, TypeInv, TypeOK
  <2>3. rows' \subseteq Row /\ \A r \in rows' : r \in rows \/ r.hid = pos
    <3>1. Journal("DELETE", FALSE, {}) /\ {} \in SUBSET Labels
      BY <1>g DEF ApplyDelete
    <3> QED  BY <2>1, <3>1, <1>2
  <2> QED
    BY <1>g, <2>1, <2>2, <2>3, FinishType DEF ApplyDelete
<1>h. CASE RewriteRemove
  <2>1. Working /\ pos <= maxSeen /\ ev.op = "labels"
    BY <1>h DEF RewriteRemove, Applying, Working
  <2>2. got' \subseteq Labels
    BY <1>h, <2>1, EvType DEF RewriteRemove, Delta, TypeInv, TypeOK, Records
  <2> QED
    BY <1>h, <2>1, <2>2, <1>4, GotoType DEF RewriteRemove, KeepsPlace, db, ghost
<1>i. CASE RewriteDeliver
  <2>1. Working /\ pos <= maxSeen /\ got \in SUBSET Labels
    BY <1>i, <1>0 DEF RewriteDeliver, Working, TypeInv, TypeOK
  <2>2. failed' \subseteq Msgs
    BY <1>i, <2>1, EvType DEF RewriteDeliver, TypeInv, TypeOK
  <2> QED
    BY <1>i, <2>1, <2>2, <1>2, <1>3, FinishType
    DEF RewriteDeliver, KeepsPlace, db, TypeInv, TypeOK
<1>j. CASE RewriteFails
  BY <1>j, <1>0, FailsType DEF RewriteFails, Applying, Working, KeepsPlace, db
<1> QED
  BY <1>a, <1>b, <1>c, <1>d, <1>e, <1>f, <1>g, <1>h, <1>i, <1>j DEF Apply

(* Fetching and committing a page, committing the cursor and a kill keep   *)
(* the invariant.                                                          *)
LEMMA TypePages == TypeInv /\ (FetchPage \/ CommitPage \/ Commit \/ Abort) => TypeInv'
<1> SUFFICES ASSUME TypeInv, FetchPage \/ CommitPage \/ Commit \/ Abort PROVE TypeInv'
  OBVIOUS
<1> USE DEF TypeInv
<1>0. Base \in Nat /\ top \in Nat /\ \A p : Position(p) => p \in Nat
  BY MailboxAssumption DEF TypeOK, MailboxTypeOK, Position
<1>1. CASE FetchPage
  <2>0. PICK to \in After .. top :
          maxSeen' = to /\ tok' = IF to < top THEN to ELSE 0
    BY <1>1 DEF FetchPage
  <2>1. Position(After)
    BY <1>1 DEF FetchPage, Positions, After
  <2>2. Position(to) /\ (tok' = 0 \/ Position(tok')) /\ (tok' = 0 => to >= committed)
    BY <1>0, <2>0, <2>1, MailboxAssumption DEF Position, Positions
  <2>3. pos' \in Base + 1 .. to + 1 /\ pos' \in Nat
    BY <1>0, <1>1, <2>0, <2>1 DEF FetchPage, Position
  <2>4. TypeOK'
    BY <1>0, <1>1, <2>0, <2>2, <2>3
    DEF FetchPage, TypeOK, MailboxTypeOK, mailbox, disk, db, ghost, PCs
  <2>5. Positions'
    BY <1>1, <2>0, <2>2, <2>3
    DEF FetchPage, Positions, Position, Working, mailbox, db, ghost
  <2> QED  BY <2>4, <2>5
<1>2. CASE CommitPage
  <2>1. Working /\ Position(maxSeen) /\ (tok = 0 \/ Position(tok))
    BY <1>2 DEF CommitPage, Working, Positions
  <2>2. journal' \subseteq Row /\ \A r \in journal' : r \in journal \union rows
    BY <1>2, UpsertType DEF CommitPage, TypeOK
  <2>3. TypeOK'
    BY <1>0, <1>2, <2>1, <2>2
    DEF CommitPage, TypeOK, MailboxTypeOK, mailbox, disk, PCs
  <2>4. Positions'
    BY <1>2, <2>1, <2>2 DEF CommitPage, Positions, Position, Working, mailbox
  <2> QED  BY <2>3, <2>4
<1>3. CASE Commit
  <2>1. Position(maxSeen)
    BY <1>3 DEF Commit, Positions
  <2>2. Stop /\ UNCHANGED <<mailbox, disk, journal, overshot, failed>>
        /\ torn' \subseteq Msgs /\ committed' = maxSeen /\ progress' = 0 /\ ptoken' = 0
        /\ anchor' = maxSeen
    BY <1>3 DEF Commit, CommitCursor, TypeOK
  <2> QED
    BY <2>1, <2>2, EndType
<1>4. CASE Abort
  <2>1. Stop /\ UNCHANGED <<mailbox, disk, journal, overshot, failed>>
        /\ torn' \subseteq Msgs /\ UNCHANGED <<committed, progress, ptoken, anchor>>
    BY <1>4 DEF Abort, db, ghost, TypeOK
  <2> QED  BY <2>1, EndType DEF Positions
<1> QED
  BY <1>1, <1>2, <1>3, <1>4

(* A step of a replay from one row to the next keeps the invariant.        *)
LEMMA ReplayNextType ==
    ASSUME TypeInv, pc \in {"replay", "replayRewrite"},
           NEW p \in {"replay", "replayRewrite", "clear"}, NEW T \in SUBSET todo,
           ReplayNext(p, T), DiskType, got' \subseteq Labels,
           UNCHANGED <<mailbox, db, ghost>>
    PROVE  TypeInv'
<1> USE DEF TypeInv
<1>1. TypeOK'
  BY DEF TypeOK, MailboxTypeOK, ReplayNext, PCs, mailbox, DiskType, db, ghost
<1>2. Positions'
  BY DEF Positions, Position, ReplayNext, Working, mailbox, db, ghost
<1> QED  BY <1>1, <1>2

(* Every step of a journal replay and of the fallback keeps the invariant. *)
LEMMA TypeReplay == TypeInv /\ Replay => TypeInv'
<1> SUFFICES ASSUME TypeInv, Replay PROVE TypeInv'
  OBVIOUS
<1> USE DEF TypeInv
<1>0. /\ UNCHANGED disk => DiskType
      /\ got \subseteq Labels /\ {} \subseteq Labels
  BY DEF TypeOK, DiskType, disk
<1>1. ASSUME NEW r \in todo
      PROVE  /\ r.msg \in Msgs /\ r.labels \in SUBSET Labels
             /\ todo \ {r} \in SUBSET todo
             /\ Remove(r.msg) => DiskType
             /\ \A L \in SUBSET Labels : Deliver(r.msg, L) => DiskType
  BY DEF TypeOK, Row, Remove, Deliver, DiskType
<1>2. todo \in SUBSET todo /\ {} \in SUBSET todo
  OBVIOUS
<1>a. CASE StartReplay
  <2>1. /\ pc = "fetch" /\ pc' \in {"replay", "clear"}
        /\ UNCHANGED <<mailbox, disk, db, anchor, overshot, failed,
                       cursor, tok, pos, half, got, rows>>
        /\ todo' \subseteq Row /\ torn' \subseteq Msgs
        /\ \/ pc' = "clear" /\ maxSeen' = maxSeen
           \/ \E r \in journal : maxSeen' = r.hid /\ r.hid >= committed
    <3> DEFINE R == RowsFrom(cursor)
    <3>0. R \subseteq journal /\ Of(R) \subseteq Msgs /\ R \subseteq Row
      BY DEF RowsFrom, Of, TypeOK, Row
    <3>1. CASE /\ ReplayCoverage(R)
               /\ \E last \in R : /\ \A r \in R : r.hid <= last.hid
                                  /\ maxSeen' = last.hid
               /\ torn' = torn \union Of(R) /\ todo' = R /\ pc' = "replay"
      <4>1. PICK last \in R : (\A r \in R : r.hid <= last.hid) /\ maxSeen' = last.hid
        BY <3>1
      <4>2. PICK r \in R : r.hid >= committed
        BY <3>1 DEF ReplayCoverage
      <4>3. last.hid \in Nat /\ r.hid \in Nat /\ r.hid <= last.hid /\ committed \in Nat
        BY <3>0, <4>1, <4>2 DEF Row, TypeOK
      <4>4. last.hid >= committed
        BY <4>2, <4>3
      <4>5. torn' \subseteq Msgs /\ todo' \subseteq Row
        BY <3>0, <3>1 DEF TypeOK
      <4> QED  BY <1>a, <3>0, <3>1, <4>1, <4>4, <4>5 DEF StartReplay
    <3>2. CASE pc' = "clear" /\ UNCHANGED <<todo, maxSeen, torn>>
      BY <1>a, <3>2 DEF StartReplay, TypeOK
    <3> QED  BY <1>a, <3>1, <3>2 DEF StartReplay
  <2>2. Position(maxSeen') /\ maxSeen' \in Nat
    BY <2>1, MailboxAssumption DEF Positions, Position, TypeOK, MailboxTypeOK
  <2>3. TypeOK'
    BY <2>1, <2>2 DEF TypeOK, MailboxTypeOK, mailbox, disk, db, PCs
  <2>4. Positions'
    BY <2>1, <2>2 DEF Positions, Position, Working, mailbox, db
  <2> QED  BY <2>3, <2>4
<1>b. CASE ReplayDelete
  <2> PICK r \in todo : /\ Replaying(r)
                        /\ Remove(r.msg) \/ UNCHANGED disk
                        /\ ReplayNext("replay", todo \ {r})
                        /\ UNCHANGED <<mailbox, db, ghost, got>>
    BY <1>b DEF ReplayDelete
  <2>1. DiskType /\ todo \ {r} \in SUBSET todo
    BY <1>0, <1>1
  <2> QED  BY <1>0, <2>1, ReplayNextType DEF Replaying
<1>c. CASE ReplayRemove
  <2> PICK r \in todo : /\ Replaying(r) /\ got' = r.labels /\ Remove(r.msg)
                        /\ ReplayNext("replayRewrite", todo)
                        /\ UNCHANGED <<mailbox, db, ghost>>
    BY <1>c DEF ReplayRemove
  <2> QED  BY <1>1, <1>2, ReplayNextType DEF Replaying
<1>d. CASE ReplayRewrite
  <2> PICK r \in todo : /\ Deliver(r.msg, got) /\ got' = {}
                        /\ ReplayNext("replay", todo \ {r})
    BY <1>d DEF ReplayRewrite
  <2> QED  BY <1>d, <1>0, <1>1, ReplayNextType DEF ReplayRewrite
<1>e. CASE ReplayDownload
  <2> PICK r \in todo : /\ Replaying(r) /\ Deliver(r.msg, r.labels)
                        /\ ReplayNext("replay", todo)
                        /\ UNCHANGED <<mailbox, db, ghost, got>>
    BY <1>e DEF ReplayDownload
  <2> QED  BY <1>0, <1>1, <1>2, ReplayNextType DEF Replaying
<1>f. CASE ReplayFails
  <2>1. pc \in {"replay", "replayRewrite"}
    BY <1>f DEF ReplayFails, Replaying
  <2> QED  BY <1>f, <2>1, <1>0, <1>2, ReplayNextType DEF ReplayFails
<1>g. CASE ReplayDone
  <2>1. Position(maxSeen)
    BY <1>g DEF ReplayDone, Positions
  <2>2. Stop /\ UNCHANGED <<mailbox, disk, journal, overshot, failed>>
        /\ torn' \subseteq Msgs /\ committed' = maxSeen /\ progress' = 0 /\ ptoken' = 0
        /\ anchor' = maxSeen
    BY <1>g DEF ReplayDone, CommitCursor, TypeOK
  <2> QED  BY <2>1, <2>2, EndType
<1>h. CASE Clear
  <2>1. Stop /\ UNCHANGED <<mailbox, disk, journal, overshot, failed>>
        /\ torn' \subseteq Msgs /\ committed' = 0 /\ progress' = 0 /\ ptoken' = 0
        /\ anchor' = anchor
    BY <1>h DEF Clear, ghost, TypeOK
  <2> QED  BY <2>1, EndType DEF Positions
<1> QED
  BY <1>a, <1>b, <1>c, <1>d, <1>e, <1>f, <1>g, <1>h DEF Replay

(* Every step of the specification keeps the invariant.                    *)
LEMMA TypeStep == TypeInv /\ [Next]_vars => TypeInv'
<1>1. TypeInv /\ UNCHANGED vars => TypeInv'
  BY DEF TypeInv, TypeOK, MailboxTypeOK, Positions, Position, Working, ev,
         vars, mailbox, disk, db, proc, ghost
<1> QED
  BY <1>1, TypeGmail, TypeRun, TypeApply, TypePages, TypeReplay DEF Next, Sync

(* Type correctness, for every mailbox, every kind of failure and every    *)
(* --start-history-id at or above Base.                                    *)
THEOREM TypeCorrect == Spec => []TypeOK
<1>1. TypeInv => TypeOK
  BY DEF TypeInv
<1> QED
  BY <1>1, TypeInit, TypeStep, PTL DEF Spec

(* The committed cursor never moves back: the last page of a run, and the  *)
(* last row of a replay that passes validateReplayCoverage, reach it, also *)
(* when --start-history-id or a resumed run starts below it.               *)
THEOREM CursorMonotoneTheorem == Spec => CursorMonotone
<1>1. ASSUME TypeInv, [Next]_vars
      PROVE  [committed' >= committed \/ pc = "clear"]_vars
  <2>0. committed \in Nat
    BY <1>1 DEF TypeInv, TypeOK
  <2>1. CASE UNCHANGED committed
    BY <2>0, <2>1
  <2>2. CASE Commit
    BY <1>1, <2>2 DEF Commit, CommitCursor, TypeInv, Positions
  <2>3. CASE ReplayDone
    BY <1>1, <2>3 DEF ReplayDone, CommitCursor, TypeInv, Positions
  <2>4. CASE Clear
    BY <2>4 DEF Clear
  <2>5. CASE Gmail \/ Run \/ FetchPage \/ CommitPage \/ Abort \/ UNCHANGED vars
    BY <2>1, <2>5
    DEF Gmail, Run, StartResume, StartOverride, StartBootstrap, BeginAt, FetchPage,
        CommitPage, Abort, db, vars
  <2>6. CASE Apply
    BY <2>1, <2>6
    DEF Apply, AddPresent, FetchBody, BodyGone, FetchMeta, DownloadFails, DeliverNew,
        ApplyDelete, RewriteRemove, RewriteDeliver, RewriteFails, db
  <2>7. CASE \/ StartReplay \/ ReplayDelete \/ ReplayRemove \/ ReplayRewrite
             \/ ReplayDownload \/ ReplayFails
    BY <2>1, <2>7
    DEF StartReplay, ReplayDelete, ReplayRemove, ReplayRewrite, ReplayDownload,
        ReplayFails, db
  <2> QED
    BY <1>1, <2>2, <2>3, <2>4, <2>5, <2>6, <2>7 DEF Next, Sync, Replay
<1> QED
  BY <1>1, TypeInit, TypeStep, PTL DEF Spec, CursorMonotone

-----------------------------------------------------------------------------
(* The resume position.                                                    *)

(* The records up to here have been applied to the files.                  *)
Applied == IF Working THEN pos - 1 ELSE anchor

(* What the process and the database know of the resume position.          *)
AnchorInv ==
    /\ progress # 0 => progress = anchor /\ (ptoken = 0 \/ ptoken = anchor)
    /\ progress = 0 /\ committed # 0 => committed = anchor
    /\ pc \in {"fetch", "commit"} => maxSeen = anchor
    /\ pc = "fetch" => After = anchor
    /\ pc # "idle" => cursor <= anchor
    /\ Working => anchor < pos /\ (tok = 0 \/ tok = maxSeen)
    /\ half => Working /\ pos <= maxSeen /\ ev.op = "labels"
    /\ \A m \in file : Touched(m)

(* The labels of record pos that are still to be removed.                  *)
Pending == IF Removing THEN {} ELSE ev.lrem

(* The mirror is accounted for at the records applied; labels in memory    *)
(* and labels of a half-applied record are right up to later records.      *)
CoverInv == ~overshot =>
    /\ Covered(Followed, file, kw, Applied)
    /\ pc = "deliver" => OwedLabels(ev.msg, got, Labels, pos)
    /\ pc = "rewrite" /\ ev.msg \in Followed =>
           OwedLabels(ev.msg, got, Labels \ Pending, pos)
    /\ half /\ ev.msg \in Followed /\ ev.msg \in file =>
           OwedLabels(ev.msg, kw[ev.msg], ev.ladd, pos)

ResumeInv == TypeInv /\ MailboxInv /\ AnchorInv /\ CoverInv

(* The mirror that Downloading-Archived leaves is exact at Base, the first *)
(* anchor.                                                                 *)
LEMMA ResumeInit ==
    ASSUME Init
    PROVE  ResumeInv
<1>1. TypeInv /\ MailboxInv
  BY TypeInit, MailboxInitInv DEF Init
<1>2. AnchorInv
  BY MailboxAssumption, HistoryAssumption DEF Init, MailboxInit, AnchorInv, Working, Touched
<1>3. Applied = Base /\ ~half /\ pc = "idle"
  BY DEF Applied, Working, Init
<1>4. \A m \in Followed : Owed(m, file, kw, Base)
  <2> TAKE m \in Followed
  <2>1. m \in Msgs /\ m \notin Unparseable /\ live = Listed
        /\ file = Listed \ Unparseable /\ kw[m] = lab[m]
    BY DEF Followed, Init, MailboxInit
  <2> QED  BY <2>1 DEF Owed, OwedFile, OwedDelete, OwedLabels
<1>5. CoverInv
  BY <1>3, <1>4 DEF CoverInv, Covered
<1> QED
  BY <1>1, <1>2, <1>5 DEF ResumeInv

(* A change of the mailbox, at any moment of a run, is announced ahead of  *)
(* every position, so it keeps the mirror accounted for.                   *)
LEMMA ResumeGmail ==
    ASSUME ResumeInv, Gmail
    PROVE  ResumeInv'
<1> USE DEF ResumeInv
<1>1. MailboxInv' /\ TypeInv'
  BY MailboxInvStep, TypeGmail DEF Gmail
<1>2. MailboxNext /\ UNCHANGED <<disk, db, proc, ghost>> /\ MailboxTypeOK
  BY DEF Gmail, TypeInv, TypeOK
<1>3. Working' = Working /\ Applied' = Applied /\ Followed' = Followed /\ After' = After
  BY <1>2 DEF Working, Applied, Followed, After, disk, db, proc, ghost
<1>5. /\ \A n \in DOMAIN log : n \in DOMAIN log' /\ log'[n] = log[n]
  <2>1. CASE UNCHANGED <<top, log, live, lab>>
    BY <2>1
  <2>2. CASE \E r \in Records : LogRecord(r)
    BY <2>2, <1>2, AppendExtends
  <2> QED  BY <2>1, <2>2, <1>2, MailboxStep
<1>6. Working /\ pos <= maxSeen =>
        ev' = ev /\ (Removing' <=> Removing) /\ Pending' = Pending /\ pos <= top
        /\ pos \in Nat /\ ev.msg \in Msgs /\ Touched(ev.msg)
  <2> SUFFICES ASSUME Working, pos <= maxSeen
               PROVE  ev' = ev /\ (Removing' <=> Removing) /\ Pending' = Pending
                      /\ pos <= top /\ pos \in Nat /\ ev.msg \in Msgs /\ Touched(ev.msg)
    OBVIOUS
  <2>1. pos \in DOMAIN log /\ pos \in Base + 1 .. top /\ ev.msg \in Msgs
    BY EvType
  <2>2. pos \in Nat /\ pos <= top
    BY <2>1, MailboxAssumption DEF MailboxTypeOK
  <2>3. ev' = ev
    BY <2>1, <1>2, <1>5 DEF ev, proc
  <2>4. RecordHolds(pos)
    BY <2>1 DEF MailboxInv
  <2>5. Removing' <=> Removing
    BY <2>3, <1>2 DEF Removing, proc
  <2>6. Pending' = Pending
    BY <2>3, <2>5 DEF Pending
  <2>7. Touched(ev.msg)
    BY <2>4 DEF RecordHolds, ev
  <2> QED  BY <2>1, <2>2, <2>3, <2>5, <2>6, <2>7
<1>7. \A m : Touched(m) => Touched(m)'
  BY <1>5 DEF Touched
<1>8. AnchorInv'
  BY <1>2, <1>3, <1>6, <1>7 DEF AnchorInv, disk, db, proc, ghost
<1>9. Applied \in Nat /\ Applied <= top
  BY MailboxAssumption, <1>2 DEF Applied, Working, TypeInv, Positions, Position, MailboxTypeOK
<1>10. ASSUME ~overshot PROVE Covered(Followed, file, kw, Applied)'
  <2> SUFFICES ASSUME NEW m \in Followed
               PROVE  Owed(m, file, kw, Applied)'
    BY <1>3 DEF Covered
  <2> PICK p \in Nat : p = Applied
    BY <1>9
  <2> PICK F : F = file
    OBVIOUS
  <2> PICK K : K = kw
    OBVIOUS
  <2>1. Owed(m, F, K, p) /\ m \in Msgs /\ (m \in F => Touched(m)) /\ p <= top
    BY <1>9, <1>10 DEF CoverInv, Covered, Followed, AnchorInv
  <2>2. Owed(m, F, K, p)'
    BY <2>1, <1>2, OwedStep
  <2>3. file' = F /\ kw' = K /\ Applied' = p
    BY <1>2, <1>3 DEF disk
  <2> QED  BY <2>2, <2>3
<1>11. ASSUME Working, pos <= maxSeen, NEW K, NEW LS, OwedLabels(ev.msg, K, LS, pos)
       PROVE  OwedLabels(ev.msg, K, LS, pos)'
  <2> PICK p \in Nat : p = pos /\ p <= top
    BY <1>6, <1>11
  <2> PICK m \in Msgs : m = ev.msg /\ Touched(m)
    BY <1>6, <1>11
  <2>1. OwedLabels(m, K, LS, p)'
    BY <1>2, <1>11, OwedLabelsStep
  <2>2. pos' = p /\ ev'.msg = m
    BY <1>2, <1>6, <1>11 DEF proc
  <2> QED  BY <2>1, <2>2
<1>12. /\ got' = got /\ kw' = kw /\ file' = file /\ pc' = pc /\ pos' = pos
       /\ maxSeen' = maxSeen /\ (half' <=> half) /\ (overshot' <=> overshot)
  BY <1>2 DEF disk, proc, ghost
<1>13. ASSUME ~overshot, pc = "deliver"
       PROVE  OwedLabels(ev.msg, got, Labels, pos)'
  <2>1. Working /\ pos <= maxSeen /\ OwedLabels(ev.msg, got, Labels, pos)
    BY <1>13 DEF Working, TypeInv, Positions, CoverInv
  <2> PICK K : K = got
    OBVIOUS
  <2>2. OwedLabels(ev.msg, K, Labels, pos)'
    BY <2>1, <1>11
  <2> QED  BY <1>12, <2>2
<1>14. ASSUME ~overshot, pc = "rewrite", ev.msg \in Followed
       PROVE  OwedLabels(ev.msg, got, Labels \ Pending, pos)'
  <2>1. Working /\ pos <= maxSeen /\ OwedLabels(ev.msg, got, Labels \ Pending, pos)
    BY <1>14 DEF Working, TypeInv, Positions, CoverInv
  <2> PICK K : K = got
    OBVIOUS
  <2> PICK LS : LS = Labels \ Pending
    OBVIOUS
  <2>2. OwedLabels(ev.msg, K, LS, pos)'
    BY <2>1, <1>11
  <2>3. Pending' = Pending
    BY <2>1, <1>6
  <2> QED  BY <1>12, <2>2, <2>3
<1>15. ASSUME ~overshot, half, ev.msg \in Followed, ev.msg \in file
       PROVE  OwedLabels(ev.msg, kw[ev.msg], ev.ladd, pos)'
  <2>1. Working /\ pos <= maxSeen /\ OwedLabels(ev.msg, kw[ev.msg], ev.ladd, pos)
    BY <1>15 DEF AnchorInv, CoverInv
  <2> PICK K : K = kw[ev.msg]
    OBVIOUS
  <2> PICK LS : LS = ev.ladd
    OBVIOUS
  <2>2. OwedLabels(ev.msg, K, LS, pos)'
    BY <2>1, <1>11
  <2>3. ev' = ev
    BY <2>1, <1>6
  <2> QED  BY <1>12, <2>2, <2>3
<1>16. /\ pc \in {"deliver", "rewrite"} => Working /\ pos <= maxSeen
       /\ half => Working /\ pos <= maxSeen
  BY DEF Working, TypeInv, Positions, AnchorInv
<1>17. CoverInv'
  BY <1>3, <1>6, <1>10, <1>12, <1>13, <1>14, <1>15, <1>16 DEF CoverInv
<1> QED
  BY <1>1, <1>8, <1>17

-----------------------------------------------------------------------------
(* The mirror of the next state is accounted for when it is so by the log  *)
(* of this one.                                                            *)
LEMMA CoversNext ==
    ASSUME UNCHANGED mailbox, Covered(Followed', file', kw', Applied')
    PROVE  Covered(Followed, file, kw, Applied)'
<1> SUFFICES ASSUME NEW m \in Followed' PROVE Owed(m, file, kw, Applied)'
  BY DEF Covered
<1> PICK F : F = file'
  OBVIOUS
<1> PICK K : K = kw'
  OBVIOUS
<1> PICK p : p = Applied'
  OBVIOUS
<1>1. Owed(m, F, K, p)'
  BY StillOwed DEF Covered
<1> QED
  BY <1>1

(* Whenever no record is being applied, the position is the anchor; one    *)
(* that is not beyond what has been applied is accounted for.              *)
LEMMA SettledCovers ==
    ASSUME ResumeInv, UNCHANGED <<mailbox, disk, failed>>, torn \subseteq torn',
           overshot' \/ anchor' <= Applied, overshot => overshot',
           ~half', Applied' = anchor', anchor' \in Nat, pc' \notin {"deliver", "rewrite"}
    PROVE  CoverInv'
<1>1. Followed' \subseteq Followed
  BY DEF Followed
<1>2. Applied \in Nat /\ MailboxTypeOK
  BY MailboxAssumption
  DEF Applied, Working, ResumeInv, TypeInv, TypeOK, Positions, Position, MailboxTypeOK
<1>3. CASE overshot'
  BY <1>3 DEF CoverInv
<1>4. CASE ~overshot'
  <2>1. Covered(Followed, file, kw, Applied)
    BY <1>4 DEF ResumeInv, CoverInv
  <2>2. Covered(Followed, file, kw, anchor')
    BY <1>2, <1>4, <2>1, OwedEarlier
  <2>3. Covered(Followed', file', kw', Applied')
    BY <1>1, <2>2 DEF Covered, disk
  <2>4. Covered(Followed, file, kw, Applied)'
    BY <2>3, CoversNext
  <2> QED  BY <2>4 DEF CoverInv
<1> QED
  BY <1>3, <1>4

(* The anchor is never beyond the records that have been applied.          *)
LEMMA AnchorBehind ==
    ASSUME ResumeInv
    PROVE  anchor <= Applied /\ anchor \in Nat /\ (~Working => Applied = anchor)
  BY MailboxAssumption
  DEF Applied, ResumeInv, TypeInv, TypeOK, Positions, Position, AnchorInv, MailboxTypeOK

(* The process ends, killed or with an error: the next run resumes from    *)
(* the anchor.                                                             *)
LEMMA ResumeEnd ==
    ASSUME ResumeInv, Stop, UNCHANGED <<mailbox, disk, db, ghost>>
    PROVE  AnchorInv' /\ CoverInv'
<1> USE DEF ResumeInv
<1>1. pc' = "idle" /\ ~half' /\ Applied' = anchor' /\ anchor' = anchor /\ overshot' = overshot
  BY DEF Stop, Applied, Working, ghost
<1>2. AnchorInv'
  BY <1>1, StillInv DEF AnchorInv, Working, mailbox, disk, db, ghost
<1>3. CoverInv'
  BY <1>1, SettledCovers, AnchorBehind DEF ghost
<1> QED  BY <1>2, <1>3

(* A run starts at the anchor, or moves it and says so with overshot.      *)
LEMMA ResumeRun ==
    ASSUME ResumeInv, Run
    PROVE  AnchorInv' /\ CoverInv'
<1> USE DEF ResumeInv
<1>0. ASSUME NEW c \in Nat, NEW t, Begin(c, t), UNCHANGED <<mailbox, disk, failed, torn>>,
             c = anchor', t = 0 \/ t = anchor', overshot' \/ anchor' <= anchor,
             overshot => overshot',
             progress' # 0 => progress' = anchor' /\ (ptoken' = 0 \/ ptoken' = anchor'),
             progress' = 0 /\ committed' # 0 => committed' = anchor'
      PROVE  AnchorInv' /\ CoverInv'
  <2>1. pc = "idle" /\ pc' = "fetch" /\ half' = half /\ Applied' = anchor' /\ ~half
        /\ After' = anchor'
    BY <1>0 DEF Begin, Applied, Working, AnchorInv, After
  <2>2. AnchorInv'
    BY <1>0, <2>1, StillInv DEF AnchorInv, Working, Begin, mailbox, disk
  <2>3. CoverInv'
    BY <1>0, <2>1, SettledCovers, AnchorBehind DEF Working
  <2> QED  BY <2>2, <2>3
<1>1. ASSUME NEW c \in Nat, c # 0, BeginAt(c)
      PROVE  AnchorInv' /\ CoverInv'
  <2>1. overshot' \/ c <= anchor
    <3>1. (overshot' <=> (overshot \/ c > anchor)) /\ anchor \in Nat
      BY <1>1, AnchorBehind DEF BeginAt
    <3>2. c > anchor \/ c <= anchor
      BY <3>1
    <3> QED  BY <3>1, <3>2
  <2>2. overshot => overshot'
    BY <1>1 DEF BeginAt
  <2>3. /\ Begin(c, 0) /\ UNCHANGED <<mailbox, disk, failed, torn>> /\ c = anchor'
        /\ progress' = anchor' /\ ptoken' = 0 /\ committed' = committed
    BY <1>1 DEF BeginAt
  <2>4. progress' = 0 /\ committed' # 0 => committed' = anchor'
    BY <1>1, <2>3
  <2>5. anchor' <= anchor \/ overshot'
    BY <2>1, <2>3
  <2>6. progress' # 0 => progress' = anchor' /\ (ptoken' = 0 \/ ptoken' = anchor')
    BY <2>3
  <2> QED  BY <1>0, <2>2, <2>3, <2>4, <2>5, <2>6
<1>2. CASE StartResume
  <2>1. UNCHANGED <<mailbox, disk, committed, progress, ptoken, anchor, overshot, failed, torn>>
    BY <1>2 DEF StartResume, db, ghost
  <2>2. PICK c, t : Begin(c, t) /\ c = anchor /\ (t = 0 \/ t = anchor)
    BY <1>2 DEF StartResume, Resumable, AnchorInv
  <2>3. /\ anchor' <= anchor /\ c = anchor' /\ c \in Nat /\ (t = 0 \/ t = anchor')
        /\ overshot => overshot'
        /\ progress' # 0 => progress' = anchor' /\ (ptoken' = 0 \/ ptoken' = anchor')
        /\ progress' = 0 /\ committed' # 0 => committed' = anchor'
    BY <2>1, <2>2, AnchorBehind DEF AnchorInv
  <2> QED  BY <1>0, <2>1, <2>2, <2>3
<1>3. CASE StartOverride
  <2> PICK s \in Overrides : BeginAt(s)
    BY <1>3 DEF StartOverride
  <2>1. s \in Nat /\ s # 0
    BY MailboxAssumption, HistoryAssumption
  <2> QED  BY <1>1, <2>1
<1>4. CASE StartBootstrap
  <2> PICK c \in Base .. top : BeginAt(c)
    BY <1>4 DEF StartBootstrap
  <2>1. c \in Nat /\ c # 0
    BY MailboxAssumption DEF TypeInv, TypeOK, MailboxTypeOK
  <2> QED  BY <1>1, <2>1
<1> QED
  BY <1>2, <1>3, <1>4 DEF Run

(* The cursor of a page becomes durable when all its records are applied,  *)
(* so the anchor moves up to them.                                         *)
LEMMA ResumePages ==
    ASSUME ResumeInv, FetchPage \/ CommitPage \/ Commit \/ Abort
    PROVE  AnchorInv' /\ CoverInv'
<1> USE DEF ResumeInv
<1>0. anchor \in Nat /\ maxSeen \in Nat /\ top \in Nat /\ tok \in Nat
  BY DEF TypeInv, TypeOK, MailboxTypeOK
<1>1. CASE FetchPage
  <2>1. PICK to \in After .. top : maxSeen' = to /\ tok' = IF to < top THEN to ELSE 0
    BY <1>1 DEF FetchPage
  <2>2. /\ pc = "fetch" /\ pc' = "event" /\ pos' = anchor + 1
        /\ UNCHANGED <<mailbox, disk, db, ghost, half, cursor>>
    BY <1>1 DEF FetchPage, AnchorInv
  <2>3. Working' /\ Applied' = anchor' /\ ~half' /\ anchor' = anchor /\ anchor < pos'
    BY <1>0, <2>2 DEF Working, Applied, AnchorInv, ghost
  <2>4. AnchorInv'
    BY <2>1, <2>2, <2>3, StillInv DEF AnchorInv, mailbox, disk, db, ghost
  <2>5. CoverInv'
    BY <1>0, <2>2, <2>3, SettledCovers, AnchorBehind DEF ghost
  <2> QED  BY <2>4, <2>5
<1>2. CASE CommitPage
  <2>1. /\ Working /\ pos - 1 = maxSeen /\ Applied = maxSeen /\ ~half
    BY <1>0, <1>2, MailboxAssumption
    DEF CommitPage, Working, Applied, AnchorInv, TypeInv, TypeOK, Positions
  <2>2. /\ anchor' = maxSeen /\ pc' \in {"fetch", "commit"} /\ ~half'
        /\ UNCHANGED <<mailbox, disk, failed, torn, overshot, tok, cursor, maxSeen, committed>>
        /\ progress' = maxSeen /\ ptoken' = tok /\ (pc' = "fetch" => tok # 0)
    BY <1>2, <2>1 DEF CommitPage
  <2>3. ~Working' /\ Applied' = anchor' /\ (pc' = "fetch" => After' = anchor')
        /\ (tok = 0 \/ tok = maxSeen)
    BY <2>1, <2>2 DEF Working, Applied, After, AnchorInv
  <2>4. maxSeen # 0 /\ cursor <= maxSeen
    BY <1>0, <1>2, <2>1, MailboxAssumption
    DEF CommitPage, AnchorInv, TypeInv, TypeOK, Positions
  <2>5. AnchorInv'
    BY <2>2, <2>3, <2>4, StillInv DEF AnchorInv, mailbox, disk
  <2>6. CoverInv'
    BY <1>0, <2>1, <2>2, <2>3, SettledCovers
  <2> QED  BY <2>5, <2>6
<1>3. CASE Commit
  <2>1. /\ maxSeen = anchor /\ pc' = "idle" /\ ~half' /\ anchor' = anchor
        /\ committed' = anchor' /\ progress' = 0
        /\ UNCHANGED <<mailbox, disk, failed, torn, overshot>>
    BY <1>3 DEF Commit, CommitCursor, Stop, AnchorInv
  <2>2. ~Working' /\ Applied' = anchor'
    BY <2>1 DEF Working, Applied
  <2>3. AnchorInv'
    BY <2>1, <2>2, StillInv DEF AnchorInv, mailbox, disk
  <2>4. CoverInv'
    BY <1>0, <2>1, <2>2, SettledCovers, AnchorBehind
  <2> QED  BY <2>3, <2>4
<1>4. CASE Abort
  BY <1>4, ResumeEnd DEF Abort
<1> QED
  BY <1>1, <1>2, <1>3, <1>4

-----------------------------------------------------------------------------
(* Records.  The record being applied concerns one message; what has to be *)
(* shown of a step is what is owed to that message.                        *)

(* The end of the record: its message must be right up to later records,   *)
(* or, between the labels added and the labels removed, up to the latter.  *)
LEMMA ResumeFinish ==
    ASSUME ResumeInv, Working, pos <= maxSeen, FinishRecord, UNCHANGED <<mailbox, db>>,
           UNCHANGED <<anchor, overshot, torn>>, failed \subseteq failed',
           \A x \in file' : x \in file \/ x = ev.msg,
           \A x \in Msgs \ {ev.msg} : (x \in file <=> x \in file') /\ kw'[x] = kw[x],
           ~overshot /\ ev.msg \in Followed' /\ ~NextHalf => Owed(ev.msg, file', kw', pos),
           ~overshot /\ ev.msg \in Followed' /\ NextHalf =>
               /\ Owed(ev.msg, file', kw', pos - 1)
               /\ ev.msg \in file' => OwedLabels(ev.msg, kw'[ev.msg], ev.ladd, pos)
    PROVE  AnchorInv' /\ CoverInv'
<1> USE DEF ResumeInv
<1>0. pos \in DOMAIN log /\ pos \in Nat /\ anchor \in Nat /\ ev.msg \in Msgs
      /\ Touched(ev.msg)
  <2>1. pos \in DOMAIN log /\ pos \in Base + 1 .. top /\ ev.msg \in Msgs
    BY EvType
  <2>2. RecordHolds(pos)
    BY <2>1 DEF MailboxInv
  <2> QED
    BY <2>1, <2>2, MailboxAssumption DEF TypeInv, TypeOK, MailboxTypeOK, RecordHolds, ev
<1>1. /\ pc' = "event" /\ Working' /\ UNCHANGED <<cursor, tok, maxSeen>>
      /\ (half' <=> NextHalf) /\ pos' = IF NextHalf THEN pos ELSE pos + 1
  BY DEF FinishRecord, Working, NextHalf
<1>2. Applied' = pos' - 1
  BY <1>1 DEF Applied
<1>3. NextHalf => ev' = ev /\ ev.op = "labels"
  BY <1>1 DEF NextHalf, ev, mailbox
<1>4. AnchorInv'
  BY <1>0, <1>1, <1>3, StillInv DEF AnchorInv, Working, mailbox, db
<1>5. ASSUME ~overshot, NEW x \in Followed'
      PROVE  Owed(x, file', kw', pos' - 1)
  <2>1. x \in Followed /\ x \in Msgs
    BY <1>5 DEF Followed
  <2>2. Owed(x, file, kw, pos - 1)
    BY <1>5, <2>1 DEF CoverInv, Covered, Applied
  <2>3. CASE x = ev.msg
    BY <1>0, <1>1, <1>5, <2>3
  <2>4. CASE x # ev.msg
    <3>1. Owed(x, file', kw', pos - 1)
      BY <2>1, <2>2, <2>4, SameMirror
    <3>2. Owed(x, file', kw', pos)
      BY <1>0, <2>4, <3>1, OtherRecord DEF MailboxInv, ev
    <3> QED  BY <1>0, <1>1, <3>1, <3>2
  <2> QED  BY <2>3, <2>4
<1>6. ASSUME ~overshot
      PROVE  Covered(Followed, file, kw, Applied)'
  BY <1>2, <1>5, <1>6, CoversNext DEF Covered
<1>7. ASSUME ~overshot, half', ev'.msg \in Followed', ev'.msg \in file'
      PROVE  OwedLabels(ev.msg, kw[ev.msg], ev.ladd, pos)'
  <2>1. OwedLabels(ev.msg, kw'[ev.msg], ev.ladd, pos) /\ pos' = pos /\ ev' = ev
    BY <1>1, <1>3, <1>7
  <2> PICK m, K, LS, p : m = ev.msg /\ K = kw'[ev.msg] /\ LS = ev.ladd /\ p = pos
    OBVIOUS
  <2>2. OwedLabels(m, K, LS, p)'
    BY <2>1, StillOwedLabels
  <2> QED  BY <2>1, <2>2
<1>8. CoverInv'
  BY <1>1, <1>6, <1>7 DEF CoverInv
<1> QED
  BY <1>4, <1>8

(* Going on with the record: what is owed to its message up to the record, *)
(* and what the labels held in memory owe to later records.                *)
LEMMA ResumeGoto ==
    ASSUME ResumeInv, Working, pos <= maxSeen,
           NEW p \in {"event", "meta", "deliver", "rewrite"}, Goto(p),
           UNCHANGED <<mailbox, db, ghost>>,
           \A x \in file' : x \in file \/ x = ev.msg,
           \A x \in Msgs \ {ev.msg} : (x \in file <=> x \in file') /\ kw'[x] = kw[x],
           ~overshot /\ ev.msg \in Followed =>
               /\ Owed(ev.msg, file', kw', pos - 1)
               /\ p = "rewrite" => OwedLabels(ev.msg, got', Labels \ Pending, pos)
               /\ half /\ ev.msg \in file' => OwedLabels(ev.msg, kw'[ev.msg], ev.ladd, pos),
           ~overshot /\ p = "deliver" => OwedLabels(ev.msg, got', Labels, pos)
    PROVE  AnchorInv' /\ CoverInv'
<1> USE DEF ResumeInv
<1>0. Touched(ev.msg)
  <2>1. pos \in DOMAIN log
    BY EvType
  <2>2. RecordHolds(pos)
    BY <2>1 DEF MailboxInv
  <2> QED
    BY <2>2 DEF RecordHolds, ev
<1>1. /\ pc' = p /\ Working' /\ UNCHANGED <<cursor, tok, maxSeen, pos, half>>
      /\ ev' = ev /\ Applied' = pos - 1 /\ Followed' = Followed /\ anchor' = anchor
      /\ overshot' = overshot
  BY DEF Goto, Working, ev, Applied, Followed, mailbox, ghost
<1>2. Pending' = Pending
  BY <1>1 DEF Pending, Removing
<1>3. AnchorInv'
  BY <1>0, <1>1, StillInv DEF AnchorInv, Working, mailbox, db
<1>4. ASSUME ~overshot, NEW x \in Followed
      PROVE  Owed(x, file', kw', pos - 1)
  <2>1. x \in Msgs /\ Owed(x, file, kw, pos - 1)
    BY <1>4 DEF CoverInv, Covered, Applied, Followed
  <2> QED  BY <1>4, <2>1, SameMirror
<1>5. ASSUME ~overshot
      PROVE  Covered(Followed, file, kw, Applied)'
  BY <1>1, <1>4, <1>5, CoversNext DEF Covered
<1>6. ASSUME NEW K, NEW LS, OwedLabels(ev.msg, K, LS, pos)
      PROVE  OwedLabels(ev.msg, K, LS, pos)'
  <2> PICK m, q : m = ev.msg /\ q = pos
    OBVIOUS
  <2>1. OwedLabels(m, K, LS, q)'
    BY <1>6, StillOwedLabels
  <2> QED  BY <1>1, <2>1
<1>7. ASSUME ~overshot, p = "deliver"
      PROVE  OwedLabels(ev.msg, got, Labels, pos)'
  <2> PICK K : K = got'
    OBVIOUS
  <2> QED  BY <1>6, <1>7
<1>8. ASSUME ~overshot, p = "rewrite", ev.msg \in Followed
      PROVE  OwedLabels(ev.msg, got, Labels \ Pending, pos)'
  <2> PICK K, LS : K = got' /\ LS = Labels \ Pending
    OBVIOUS
  <2>1. OwedLabels(ev.msg, K, LS, pos)'
    BY <1>6, <1>8
  <2> QED  BY <1>2, <2>1
<1>9. ASSUME ~overshot, half, ev.msg \in Followed, ev.msg \in file'
      PROVE  OwedLabels(ev.msg, kw[ev.msg], ev.ladd, pos)'
  <2> PICK K, LS : K = kw'[ev.msg] /\ LS = ev.ladd
    OBVIOUS
  <2>1. OwedLabels(ev.msg, K, LS, pos)'
    BY <1>6, <1>9
  <2> QED  BY <1>1, <2>1
<1>10. CoverInv'
  BY <1>1, <1>5, <1>7, <1>8, <1>9 DEF CoverInv
<1> QED
  BY <1>3, <1>10

(* What the invariant says of the message of the record being applied.     *)
LEMMA AtRecord ==
    ASSUME ResumeInv, Working, pos <= maxSeen
    PROVE  /\ pos \in DOMAIN log /\ ev.msg \in Msgs /\ ev \in Records /\ RecordHolds(pos)
           /\ \A n \in Ahead(pos - 1) : n = pos \/ n \in Ahead(pos)
           /\ \A n \in Ahead(pos) : n \in Ahead(pos - 1)
           /\ ~overshot /\ ev.msg \in Followed => Owed(ev.msg, file, kw, pos - 1)
<1> USE DEF ResumeInv
<1>1. pos \in DOMAIN log /\ pos \in Base + 1 .. top /\ ev.msg \in Msgs /\ ev \in Records
  BY EvType
<1>2. RecordHolds(pos)
  BY <1>1 DEF MailboxInv
<1>3. /\ \A n \in Ahead(pos - 1) : n = pos \/ n \in Ahead(pos)
      /\ \A n \in Ahead(pos) : n \in Ahead(pos - 1)
  BY <1>1, MailboxAssumption DEF Ahead, TypeInv, TypeOK, MailboxTypeOK
<1>4. ~overshot /\ ev.msg \in Followed => Owed(ev.msg, file, kw, pos - 1)
  BY DEF CoverInv, Covered, Applied
<1> QED
  BY <1>1, <1>2, <1>3, <1>4

(* A record passed over: the message is no longer followed, or the run     *)
(* ends and starts again at the anchor.                                    *)
LEMMA ResumeFails ==
    ASSUME ResumeInv, Working, pos <= maxSeen, RecordFails,
           UNCHANGED <<mailbox, disk, db, anchor, overshot, torn>>
    PROVE  AnchorInv' /\ CoverInv'
<1>1. CASE Stop /\ UNCHANGED failed
  BY <1>1, ResumeEnd DEF ghost
<1>2. CASE FinishRecord /\ failed' = failed \union {ev.msg}
  <2>1. ev.msg \notin Followed'
    BY <1>2 DEF Followed
  <2> QED  BY <1>2, <2>1, ResumeFinish DEF disk
<1> QED
  BY <1>1, <1>2 DEF RecordFails

(* The rewritten labels are right up to later records, except for those    *)
(* that the second half of the record removes.                             *)
LEMMA RewriteOwed ==
    ASSUME ResumeInv, RewriteRemove, ~overshot, ev.msg \in Followed
    PROVE  OwedLabels(ev.msg, got', Labels \ Pending, pos)
<1> USE DEF ResumeInv
<1>0. Working /\ pos <= maxSeen /\ ev.op = "labels" /\ ev.msg \in file /\ pc = "event"
  BY DEF RewriteRemove, Applying, Working
<1> DEFINE m == ev.msg
<1> SUFFICES ASSUME m \in live, NEW l \in Labels \ Pending, ~(l \in lab[m] <=> l \in got')
             PROVE  \E n \in Ahead(pos) : Touches(n, m, l)
  BY DEF OwedLabels
<1>1. l \in ev.ladd \union ev.lrem => (l \in lab[m] <=> l \in ev.ladd) \/
                                      \E n \in Ahead(pos) : Touches(n, m, l)
  BY <1>0, AtRecord DEF RecordHolds, ev
<1>2. ev.ladd \intersect ev.lrem = {}
  BY <1>0, AtRecord DEF RecordHolds, ev
<1>3. ASSUME l \notin ev.ladd \union ev.lrem, ~(l \in lab[m] <=> l \in kw[m])
      PROVE  \E n \in Ahead(pos) : Touches(n, m, l)
  <2>1. PICK n \in Ahead(pos - 1) : Touches(n, m, l)
    BY <1>0, <1>3, AtRecord DEF Owed, OwedLabels
  <2>2. n # pos
    BY <1>3, <2>1 DEF Touches, ev
  <2> QED  BY <1>0, <2>1, <2>2, AtRecord
<1>4. CASE Removing
  <2>1. got' = kw[m] \ ev.lrem
    BY <1>4 DEF RewriteRemove, Delta
  <2>2. CASE l \in ev.lrem
    BY <1>1, <1>2, <2>1, <2>2
  <2>3. CASE l \in ev.ladd
    <3>1. half
      BY <1>4, <2>3 DEF Removing
    <3>2. OwedLabels(m, kw[m], ev.ladd, pos)
      BY <1>0, <3>1 DEF CoverInv
    <3>3. ~(l \in lab[m] <=> l \in kw[m])
      BY <1>2, <2>1, <2>3
    <3> QED  BY <2>3, <3>2, <3>3 DEF OwedLabels
  <2>4. CASE l \notin ev.ladd \union ev.lrem
    BY <1>3, <2>1, <2>4
  <2> QED  BY <2>2, <2>3, <2>4
<1>5. CASE ~Removing
  <2>1. got' = kw[m] \union ev.ladd /\ l \notin ev.lrem
    BY <1>5 DEF RewriteRemove, Delta, Pending
  <2>2. CASE l \in ev.ladd
    BY <1>1, <2>1, <2>2
  <2>3. CASE l \notin ev.ladd \union ev.lrem
    BY <1>3, <2>1, <2>3
  <2> QED  BY <2>1, <2>2, <2>3
<1> QED
  BY <1>4, <1>5

(* The file written for a record: with labels that are right up to later   *)
(* records, it is owed nothing by this record, and nothing at the one      *)
(* before.                                                                 *)
LEMMA WrittenOwed ==
    ASSUME ResumeInv, Working, pos <= maxSeen, ev.op # "delete",
           NEW L, Deliver(ev.msg, L), OwedLabels(ev.msg, L, Labels, pos)
    PROVE  /\ Owed(ev.msg, file', kw', pos) /\ Owed(ev.msg, file', kw', pos - 1)
           /\ kw'[ev.msg] = L
<1> USE DEF ResumeInv
<1>1. ev.msg \in file' /\ kw'[ev.msg] = L /\ pos \in DOMAIN log
  BY AtRecord DEF Deliver, TypeInv, TypeOK
<1>2. Owed(ev.msg, file', kw', pos)
  BY <1>1, FileThere DEF ev
<1>3. \A n \in Ahead(pos) : n \in Ahead(pos - 1)
  BY AtRecord
<1>4. Owed(ev.msg, file', kw', pos - 1)
  BY <1>2, <1>3 DEF Owed, OwedFile, OwedDelete, OwedLabels
<1> QED
  BY <1>1, <1>2, <1>4

(* The files of the other messages are not touched by the current record.  *)
LEMMA OthersKept ==
    ASSUME TypeOK, \/ UNCHANGED disk \/ Remove(ev.msg) \/ \E L : Deliver(ev.msg, L)
    PROVE  /\ \A x \in file' : x \in file \/ x = ev.msg
           /\ \A x \in Msgs \ {ev.msg} : (x \in file <=> x \in file') /\ kw'[x] = kw[x]
  BY DEF TypeOK, disk, Remove, Deliver

(* Every step on a record keeps the mirror accounted for.                  *)
LEMMA ResumeApply ==
    ASSUME ResumeInv, Apply
    PROVE  AnchorInv' /\ CoverInv'
<1> USE DEF ResumeInv
<1>0. /\ \A op \in {"add", "delete", "labels"} : Applying(op) =>
             Working /\ pos <= maxSeen /\ ev.op = op /\ pc = "event"
      /\ pc \in {"meta", "deliver", "rewrite"} =>
             Working /\ pos <= maxSeen /\ ev.op # "delete"
      /\ pc = "rewrite" => ev.op = "labels"
      /\ Downloading => Working /\ pos <= maxSeen /\ ev.msg \notin file
  BY DEF Applying, Working, TypeInv, Positions, Downloading
<1>1. ev.op # "labels" => ~NextHalf
  BY DEF NextHalf
<1>2. UNCHANGED ghost => Followed' = Followed
  BY DEF ghost, Followed
<1>a. CASE AddPresent
  <2>1. Working /\ pos <= maxSeen /\ ev.op = "add" /\ ev.msg \in file
    BY <1>a, <1>0 DEF AddPresent
  <2>2. ASSUME ~overshot, ev.msg \in Followed PROVE Owed(ev.msg, file, kw, pos)
    <3>1. Owed(ev.msg, file, kw, pos - 1)
      BY <2>1, <2>2, AtRecord
    <3>2. \A n \in Ahead(pos - 1) : log[n].op # "add" => n \in Ahead(pos)
      BY <2>1, AtRecord DEF ev
    <3> QED  BY <2>1, <3>1, <3>2 DEF Owed, OwedFile, OwedDelete, OwedLabels, Touches
  <2> QED  BY <1>a, <1>1, <1>2, <2>1, <2>2, ResumeFinish DEF AddPresent, disk, ghost
<1>b. CASE FetchBody
  <2>1. Working /\ pos <= maxSeen /\ ev.msg \notin file
    BY <1>b, <1>0 DEF FetchBody
  <2> QED  BY <1>b, <2>1, AtRecord, ResumeGoto DEF FetchBody, disk
<1>c. CASE BodyGone
  <2>1. Working /\ pos <= maxSeen /\ ev.msg \notin file
    BY <1>c, <1>0 DEF BodyGone
  <2>2. ASSUME ev.msg \in Followed, NEW p PROVE Owed(ev.msg, file, kw, p)
    <3>1. ev.msg \notin live
      BY <1>c, <2>2 DEF BodyGone, Followed
    <3> QED  BY <2>1, <3>1, NothingOwed
  <2> QED  BY <1>c, <1>2, <2>1, <2>2, ResumeFinish DEF BodyGone, disk, ghost
<1>d. CASE FetchMeta
  <2>1. Working /\ pos <= maxSeen
    BY <1>d, <1>0 DEF FetchMeta
  <2>2. OwedLabels(ev.msg, got', Labels, pos)
    BY <1>d DEF FetchMeta, OwedLabels
  <2>3. half /\ ev.msg \in file /\ ~overshot /\ ev.msg \in Followed =>
           OwedLabels(ev.msg, kw[ev.msg], ev.ladd, pos)
    BY DEF CoverInv
  <2> QED  BY <1>d, <2>1, <2>2, <2>3, AtRecord, ResumeGoto DEF FetchMeta, disk
<1>e. CASE DownloadFails
  BY <1>e, <1>0, ResumeFails DEF DownloadFails
<1>f. CASE DeliverNew
  <2>1. /\ Working /\ pos <= maxSeen /\ ev.op # "delete" /\ Deliver(ev.msg, got)
        /\ UNCHANGED <<mailbox, db, ghost>>
        /\ ~overshot => OwedLabels(ev.msg, got, Labels, pos)
    BY <1>f, <1>0 DEF DeliverNew, CoverInv
  <2>2. ~overshot => /\ Owed(ev.msg, file', kw', pos) /\ Owed(ev.msg, file', kw', pos - 1)
                     /\ kw'[ev.msg] = got
    BY <2>1, WrittenOwed
  <2>3. /\ \A x \in file' : x \in file \/ x = ev.msg
        /\ \A x \in Msgs \ {ev.msg} : (x \in file <=> x \in file') /\ kw'[x] = kw[x]
    BY <2>1, OthersKept DEF TypeInv
  <2>4. CASE ev.op = "add" /\ FinishRecord
    BY <1>1, <2>1, <2>2, <2>3, <2>4, ResumeFinish DEF ghost
  <2>5. CASE Goto("event")
    <3>1. ~overshot => OwedLabels(ev.msg, kw'[ev.msg], ev.ladd, pos)
      <4>1. ev.ladd \subseteq Labels
        BY <2>1, AtRecord DEF Records
      <4> QED  BY <2>1, <2>2, <4>1 DEF OwedLabels
    <3> QED  BY <2>1, <2>2, <2>3, <2>5, <3>1, ResumeGoto
  <2> QED  BY <1>f, <2>4, <2>5 DEF DeliverNew
<1>g. CASE ApplyDelete
  <2>1. /\ Working /\ pos <= maxSeen /\ ev.op = "delete" /\ FinishRecord /\ ~NextHalf
        /\ UNCHANGED <<mailbox, db, anchor, overshot, torn>>
    BY <1>g, <1>0, <1>1 DEF ApplyDelete
  <2>2. CASE Remove(ev.msg) /\ UNCHANGED failed
    <3>1. ev.msg \notin live /\ ev.msg \notin file'
      BY <2>1, <2>2, AtRecord DEF RecordHolds, ev, Remove
    <3>2. Owed(ev.msg, file', kw', pos)
      BY <3>1, NothingOwed
    <3> QED  BY <2>1, <2>2, <3>2, OthersKept, ResumeFinish DEF TypeInv
  <2>3. CASE failed' = failed \union {ev.msg} /\ UNCHANGED disk
    <3>1. ev.msg \notin Followed'
      BY <2>3 DEF Followed
    <3> QED  BY <2>1, <2>3, <3>1, OthersKept, ResumeFinish DEF TypeInv
  <2> QED  BY <1>g, <2>2, <2>3 DEF ApplyDelete
<1>h. CASE RewriteRemove
  <2>1. /\ Working /\ pos <= maxSeen /\ ev.op = "labels" /\ Remove(ev.msg) /\ Goto("rewrite")
        /\ UNCHANGED <<mailbox, db, ghost>>
    BY <1>h, <1>0 DEF RewriteRemove
  <2>2. pos \in Ahead(pos - 1) /\ ev.msg \notin file'
    BY <2>1, AtRecord, MailboxAssumption DEF Ahead, Remove, TypeInv, TypeOK, MailboxTypeOK
  <2>3. Owed(ev.msg, file', kw', pos - 1)
    BY <2>1, <2>2 DEF Owed, OwedFile, OwedDelete, ev
  <2> QED  BY <1>h, <2>1, <2>2, <2>3, OthersKept, RewriteOwed, ResumeGoto DEF TypeInv
<1>i. CASE RewriteDeliver
  <2>1. /\ Working /\ pos <= maxSeen /\ ev.op = "labels" /\ Deliver(ev.msg, got)
        /\ FinishRecord /\ UNCHANGED <<mailbox, db, anchor, overshot, torn>>
        /\ failed \subseteq failed' /\ Followed' \subseteq Followed
        /\ ~overshot /\ ev.msg \in Followed => OwedLabels(ev.msg, got, Labels \ Pending, pos)
    BY <1>i, <1>0 DEF RewriteDeliver, CoverInv, Followed
  <2>2. ASSUME ~overshot, ev.msg \in Followed, ~NextHalf
        PROVE  Owed(ev.msg, file', kw', pos)
    <3>1. Labels \ Pending = Labels
      BY <2>1, <2>2 DEF NextHalf, Pending
    <3> QED  BY <2>1, <2>2, <3>1, WrittenOwed
  <2>3. ASSUME ~overshot, ev.msg \in Followed, NextHalf
        PROVE  /\ Owed(ev.msg, file', kw', pos - 1)
               /\ OwedLabels(ev.msg, kw'[ev.msg], ev.ladd, pos)
    <3>1. /\ ev.msg \in file' /\ kw'[ev.msg] = got /\ Pending = ev.lrem
          /\ OwedLabels(ev.msg, got, Labels \ ev.lrem, pos)
      BY <2>1, <2>3, AtRecord DEF Deliver, TypeInv, TypeOK, NextHalf, Pending
    <3>2. /\ ev.ladd \subseteq Labels \ ev.lrem /\ pos \in Ahead(pos - 1)
          /\ \A n \in Ahead(pos) : n \in Ahead(pos - 1)
      BY <2>1, AtRecord, MailboxAssumption
      DEF RecordHolds, ev, Records, Ahead, TypeInv, TypeOK, MailboxTypeOK
    <3>3. OwedLabels(ev.msg, kw'[ev.msg], ev.ladd, pos)
      BY <3>1, <3>2 DEF OwedLabels
    <3>4. OwedDelete(ev.msg, file', pos - 1)
      BY <2>1, <3>2, AtRecord DEF RecordHolds, ev, OwedDelete
    <3>5. \A l \in ev.lrem : Touches(pos, ev.msg, l)
      BY <2>1 DEF Touches, ev
    <3>6. OwedLabels(ev.msg, kw'[ev.msg], Labels, pos - 1)
      BY <3>1, <3>2, <3>5 DEF OwedLabels
    <3> QED  BY <3>1, <3>3, <3>4, <3>6 DEF Owed, OwedFile
  <2>4. /\ \A x \in file' : x \in file \/ x = ev.msg
        /\ \A x \in Msgs \ {ev.msg} : (x \in file <=> x \in file') /\ kw'[x] = kw[x]
    BY <2>1, OthersKept DEF TypeInv
  <2> QED  BY <2>1, <2>2, <2>3, <2>4, ResumeFinish
<1>j. CASE RewriteFails
  BY <1>j, <1>0, ResumeFails DEF RewriteFails
<1> QED
  BY <1>a, <1>b, <1>c, <1>d, <1>e, <1>f, <1>g, <1>h, <1>i, <1>j DEF Apply

-----------------------------------------------------------------------------
(* The journal.  A message that a replay has left half way keeps its rows  *)
(* right: labels are not journaled from a file of its.                     *)
Kept == Msgs \ (Unparseable \union failed)

(* What a row keeps of its record ...                                      *)
OpOf(op) == IF op = "add" THEN "ADD" ELSE IF op = "labels" THEN "WRITE_LABELS" ELSE "DELETE"

RowFact(r) ==
    /\ r.hid \in DOMAIN log /\ log[r.hid].msg = r.msg
    /\ r.op = OpOf(log[r.hid].op)
    /\ r.exists <=> log[r.hid].op # "delete"

(* ... and its labels, right up to later records for the labels of LS.     *)
RowOwed(r, LS) ==
    ~overshot /\ r.exists /\ r.msg \in Kept => OwedLabels(r.msg, r.labels, LS, r.hid)

(* A row of the page is of a record applied before, or of the labels added *)
(* by the one being applied, whose file is there for the labels removed.   *)
RowPlace(r) ==
    /\ Working
    /\ r.hid < pos \/ (r.hid = pos /\ half /\ r.op = "WRITE_LABELS")
    /\ r.hid = pos /\ r.msg \in Kept =>
           pc = "rewrite" \/ (pc = "event" /\ r.msg \in file)

(* The labels on which a row of the page is right by now.                  *)
Settled(r) == IF r.hid = pos THEN Labels \ ev.lrem ELSE Labels

(* A record has one row.                                                   *)
OneRow(J) == \A r, s \in J : r.hid = s.hid => r = s

JournalInv ==
    /\ OneRow(journal) /\ OneRow(rows)
    /\ \A r \in journal : RowFact(r) /\ RowOwed(r, Labels)
    /\ \A r \in rows : RowFact(r) /\ RowPlace(r) /\ RowOwed(r, Settled(r))

(* The journal starts empty, and a run without rows of its own.            *)
LEMMA JournalInit == Init => JournalInv
  BY DEF Init, JournalInv, OneRow

(* What holds of a row keeps holding while the mailbox stands still, as do *)
(* labels that are right for the messages still kept.                      *)
LEMMA RowKept ==
    ASSUME UNCHANGED mailbox, overshot => overshot', Kept' \subseteq Kept, NEW r
    PROVE  /\ RowFact(r) => RowFact(r)'
           /\ \A LS : RowOwed(r, LS) => RowOwed(r, LS)'
           /\ \A LS : (~overshot /\ r.exists /\ r.msg \in Kept' =>
                           OwedLabels(r.msg, r.labels, LS, r.hid)) => RowOwed(r, LS)'
<1>1. RowFact(r) => RowFact(r)'
  BY DEF RowFact, mailbox
<1>2. ASSUME NEW LS, OwedLabels(r.msg, r.labels, LS, r.hid)
      PROVE  OwedLabels(r.msg, r.labels, LS, r.hid)'
  <2> PICK m, K, p : m = r.msg /\ K = r.labels /\ p = r.hid
    OBVIOUS
  <2>1. OwedLabels(m, K, LS, p)'
    BY <1>2, StillOwedLabels
  <2> QED  BY <2>1
<1> QED
  BY <1>1, <1>2 DEF RowOwed

(* A row that is right stays so when the mailbox changes: the change is    *)
(* announced by a record above the row's.                                  *)
LEMMA RowGmail ==
    ASSUME ResumeInv, Gmail, NEW r, RowFact(r)
    PROVE  /\ RowFact(r)'
           /\ \A LS : RowOwed(r, LS) => RowOwed(r, LS)'
<1> USE DEF ResumeInv
<1>1. MailboxNext /\ UNCHANGED <<disk, db, proc, ghost>> /\ MailboxTypeOK
  BY DEF Gmail, TypeInv, TypeOK
<1>2. r.hid \in DOMAIN log' /\ log'[r.hid] = log[r.hid]
  <2>1. CASE UNCHANGED <<top, log, live, lab>>
    BY <2>1 DEF RowFact
  <2>2. CASE \E x \in Records : LogRecord(x)
    BY <2>2, <1>1, AppendExtends DEF RowFact
  <2> QED  BY <2>1, <2>2, <1>1, MailboxStep
<1>3. RowFact(r)'
  BY <1>2 DEF RowFact
<1>4. r.hid \in Nat /\ r.hid <= top /\ Touched(r.msg) /\ r.msg \in Msgs
  BY <1>1, MailboxAssumption DEF RowFact, MailboxTypeOK, Touched, Records
<1>5. (overshot' <=> overshot) /\ Kept' = Kept
  BY <1>1 DEF Kept, ghost
<1>6. ASSUME NEW LS, OwedLabels(r.msg, r.labels, LS, r.hid)
      PROVE  OwedLabels(r.msg, r.labels, LS, r.hid)'
  <2> PICK m, K, p : m = r.msg /\ K = r.labels /\ p = r.hid
    OBVIOUS
  <2>1. m \in Msgs /\ p \in Nat /\ p <= top /\ Touched(m)
    BY <1>4
  <2>2. OwedLabels(m, K, LS, p)'
    BY <1>1, <1>6, <2>1, OwedLabelsStep
  <2> QED  BY <2>2
<1> QED
  BY <1>3, <1>5, <1>6 DEF RowOwed

(* A change of the mailbox, at any moment of a run.                        *)
LEMMA JournalGmail ==
    ASSUME ResumeInv, JournalInv, Gmail
    PROVE  JournalInv'
<1>1. UNCHANGED <<disk, db, proc, ghost>>
  BY DEF Gmail
<1>2. ASSUME NEW r \in journal PROVE RowFact(r)' /\ RowOwed(r, Labels)'
  BY <1>2, RowGmail DEF JournalInv
<1>3. ASSUME NEW r \in rows PROVE RowFact(r)' /\ RowPlace(r)' /\ RowOwed(r, Settled(r))'
  <2>1. RowFact(r) /\ RowPlace(r) /\ RowOwed(r, Settled(r))
    BY DEF JournalInv
  <2>2. RowPlace(r)'
    BY <1>1, <2>1 DEF RowPlace, Working, Kept, disk, proc, ghost
  <2>3. Settled(r)' = Settled(r)
    <3>1. CASE r.hid = pos
      <4>1. pos \in DOMAIN log' /\ log'[pos] = log[pos]
        <5>1. RowFact(r) /\ MailboxNext /\ MailboxTypeOK
          BY <2>1 DEF Gmail, ResumeInv, TypeInv, TypeOK
        <5>2. CASE UNCHANGED <<top, log, live, lab>>
          BY <3>1, <5>1, <5>2 DEF RowFact
        <5>3. CASE \E x \in Records : LogRecord(x)
          BY <3>1, <5>1, <5>3, AppendExtends DEF RowFact
        <5> QED  BY <5>1, <5>2, <5>3, MailboxStep
      <4> QED  BY <1>1, <4>1 DEF Settled, ev, proc
    <3>2. CASE r.hid # pos
      BY <1>1, <3>2 DEF Settled, proc
    <3> QED  BY <3>1, <3>2
  <2> PICK LS : LS = Settled(r)
    OBVIOUS
  <2>4. RowFact(r)' /\ RowOwed(r, LS)'
    BY <2>1, RowGmail
  <2> QED  BY <2>2, <2>3, <2>4
<1> QED
  BY <1>1, <1>2, <1>3 DEF JournalInv, OneRow, db, proc

(* The page's rows go with the process, or there are none: the journal     *)
(* stays as it is.                                                         *)
LEMMA JournalAlone ==
    ASSUME JournalInv, UNCHANGED <<mailbox, journal>>, rows' = {},
           failed \subseteq failed', overshot => overshot'
    PROVE  JournalInv'
<1>1. Kept' \subseteq Kept
  BY DEF Kept
<1>2. ASSUME NEW r \in journal PROVE RowFact(r)' /\ RowOwed(r, Labels)'
  BY <1>1, RowKept DEF JournalInv
<1> QED
  BY <1>2 DEF JournalInv, OneRow

(* Outside of the records of a page there are no rows in memory.           *)
LEMMA NoRows == JournalInv /\ ~Working => rows = {}
  BY DEF JournalInv, RowPlace

(* A run that starts, a page fetched, a commit and a kill add no row; the  *)
(* rows of a page are complete when they become durable.                   *)
LEMMA JournalPages ==
    ASSUME ResumeInv, JournalInv, Run \/ FetchPage \/ CommitPage \/ Commit \/ Abort
    PROVE  JournalInv'
<1>1. CASE Run
  <2>1. CASE StartResume
    <3>1. UNCHANGED <<mailbox, journal, failed, rows, overshot>> /\ pc = "idle"
      BY <2>1 DEF StartResume, Begin, db, ghost
    <3> QED  BY <3>1, NoRows, JournalAlone DEF Working
  <2>2. ASSUME NEW c, BeginAt(c) PROVE JournalInv'
    <3>1. UNCHANGED <<mailbox, journal, failed, rows>> /\ pc = "idle"
      BY <2>2 DEF BeginAt, Begin
    <3>2. overshot => overshot'
      BY <2>2 DEF BeginAt
    <3> QED  BY <3>1, <3>2, NoRows, JournalAlone DEF Working
  <2> QED  BY <1>1, <2>1, <2>2 DEF Run, StartOverride, StartBootstrap
<1>2. CASE FetchPage
  <2>1. rows = {}
    BY <1>2, NoRows DEF FetchPage, Working
  <2> QED  BY <1>2, <2>1, JournalAlone DEF FetchPage, db, ghost
<1>3. CASE Commit \/ Abort
  BY <1>3, JournalAlone DEF Commit, Abort, Stop, db, ghost
<1>4. CASE CommitPage
  <2>1. /\ journal' = Upsert(journal, rows) /\ rows' = {}
        /\ UNCHANGED <<mailbox, failed, torn, overshot>> /\ pos > maxSeen
    BY <1>4 DEF CommitPage
  <2>2. ~half
    BY <2>1 DEF ResumeInv, AnchorInv, TypeInv, TypeOK
  <2>3. ASSUME NEW r \in rows PROVE RowFact(r) /\ RowOwed(r, Labels)
    <3>1. RowFact(r) /\ RowPlace(r) /\ RowOwed(r, Settled(r))
      BY DEF JournalInv
    <3>2. r.hid # pos
      <4>1. r.hid < pos
        BY <2>2, <3>1 DEF RowPlace
      <4> QED  BY <4>1 DEF ResumeInv, TypeInv, TypeOK, Row
    <3> QED  BY <3>1, <3>2 DEF Settled
  <2>4. \A r \in journal' : RowFact(r) /\ RowOwed(r, Labels)
    BY <2>1, <2>3, UpsertType DEF JournalInv
  <2>5. Kept' = Kept
    BY <2>1 DEF Kept
  <2>6. \A r \in journal' : RowFact(r)' /\ RowOwed(r, Labels)'
    BY <2>1, <2>4, <2>5, RowKept
  <2>7. ASSUME NEW r \in journal, NEW q \in rows, r.hid = q.hid PROVE SameKey(r, q)
    BY <2>3, <2>7 DEF SameKey, RowFact, JournalInv
  <2>8. OneRow(journal')
    BY <2>1, <2>7 DEF OneRow, JournalInv, Upsert
  <2> QED  BY <2>1, <2>6, <2>8 DEF JournalInv, OneRow
<1> QED
  BY <1>1, <1>2, <1>3, <1>4

(* The end of a record: the rows of the page that stay, and the row it     *)
(* adds, right for all labels but those it goes on to remove.              *)
LEMMA JournalFinish ==
    ASSUME ResumeInv, JournalInv, Working, pos <= maxSeen, FinishRecord,
           UNCHANGED <<mailbox, journal, overshot>>, failed \subseteq failed',
           OneRow(rows'),
           \A r \in rows' :
               \/ r \in rows /\ (r.hid = pos => r.msg \notin Kept')
               \/ /\ r.hid = pos /\ RowFact(r)
                  /\ NextHalf => r.op = "WRITE_LABELS" /\ r.msg \in file'
                  /\ ~overshot /\ r.exists /\ r.msg \in Kept' =>
                        OwedLabels(r.msg, r.labels,
                                   IF NextHalf THEN Labels \ ev.lrem ELSE Labels, r.hid)
    PROVE  JournalInv'
<1>0. pos \in Nat /\ pos \in DOMAIN log
  BY AtRecord DEF ResumeInv, TypeInv, TypeOK
<1>1. /\ pc' = "event" /\ Working' /\ (half' <=> NextHalf)
      /\ pos' = IF NextHalf THEN pos ELSE pos + 1
  BY DEF FinishRecord, Working, NextHalf
<1>2. Kept' \subseteq Kept
  BY DEF Kept
<1>3. NextHalf => ~half
  BY DEF NextHalf, Removing
<1>4. ASSUME NEW r \in journal' PROVE RowFact(r)' /\ RowOwed(r, Labels)'
  BY <1>2, RowKept DEF JournalInv
<1>5. ASSUME NEW r \in rows' PROVE RowFact(r)' /\ RowPlace(r)' /\ RowOwed(r, Settled(r))'
  <2>1. CASE r \in rows /\ (r.hid = pos => r.msg \notin Kept')
    <3>1. RowFact(r) /\ RowPlace(r) /\ RowOwed(r, Settled(r)) /\ r.hid \in Nat
      BY <2>1 DEF JournalInv, ResumeInv, TypeInv, TypeOK, Row
    <3>2. r.hid < pos'
      BY <1>0, <1>1, <1>3, <3>1 DEF RowPlace
    <3>3. r.hid # pos' /\ pos' \in Nat
      BY <1>0, <1>1, <3>1, <3>2
    <3>4. RowPlace(r)'
      BY <1>1, <3>2, <3>3 DEF RowPlace
    <3>5. CASE r.hid = pos
      <4>1. RowOwed(r, Settled(r))'
        BY <2>1, <3>5 DEF RowOwed
      <4> QED  BY <1>2, <3>1, <3>4, <4>1, RowKept
    <3>6. CASE r.hid # pos
      <4>1. RowOwed(r, Labels)
        BY <3>1, <3>6 DEF Settled
      <4>2. RowFact(r)' /\ RowOwed(r, Labels)'
        BY <1>2, <3>1, <4>1, RowKept
      <4>3. Settled(r)' = Labels
        BY <3>3 DEF Settled
      <4> QED  BY <3>4, <4>2, <4>3
    <3> QED  BY <3>5, <3>6
  <2>2. CASE /\ r.hid = pos /\ RowFact(r)
             /\ NextHalf => r.op = "WRITE_LABELS" /\ r.msg \in file'
             /\ ~overshot /\ r.exists /\ r.msg \in Kept' =>
                   OwedLabels(r.msg, r.labels,
                              IF NextHalf THEN Labels \ ev.lrem ELSE Labels, r.hid)
    <3>1. RowPlace(r)'
      BY <1>0, <1>1, <2>2 DEF RowPlace
    <3>2. Settled(r)' = IF NextHalf THEN Labels \ ev.lrem ELSE Labels
      BY <1>0, <1>1, <2>2 DEF Settled, ev, mailbox
    <3> PICK LS : LS = IF NextHalf THEN Labels \ ev.lrem ELSE Labels
      OBVIOUS
    <3>3. RowFact(r)' /\ RowOwed(r, LS)'
      BY <1>2, <2>2, RowKept
    <3> QED  BY <3>1, <3>2, <3>3
  <2> QED  BY <2>1, <2>2
<1> QED
  BY <1>4, <1>5 DEF JournalInv, OneRow

(* Going on with a record: its file is there when labels of it have a row. *)
LEMMA JournalGoto ==
    ASSUME JournalInv, Working,
           NEW p \in {"event", "meta", "deliver", "rewrite"}, Goto(p),
           UNCHANGED <<mailbox, db, ghost>>,
           \A r \in rows : r.hid = pos /\ r.msg \in Kept => p = "rewrite"
    PROVE  JournalInv'
<1>1. /\ pc' = p /\ Working' /\ UNCHANGED <<pos, half, rows, overshot, journal>>
      /\ Kept' = Kept /\ ev' = ev
  BY DEF Goto, Working, Kept, ev, mailbox, db, ghost
<1>2. ASSUME NEW r \in journal' PROVE RowFact(r)' /\ RowOwed(r, Labels)'
  BY <1>1, RowKept DEF JournalInv
<1>3. ASSUME NEW r \in rows' PROVE RowFact(r)' /\ RowPlace(r)' /\ RowOwed(r, Settled(r))'
  <2>1. RowFact(r) /\ RowPlace(r) /\ RowOwed(r, Settled(r))
    BY <1>1 DEF JournalInv
  <2>2. RowPlace(r)'
    BY <1>1, <2>1 DEF RowPlace
  <2>3. Settled(r)' = Settled(r)
    BY <1>1 DEF Settled
  <2> PICK LS : LS = Settled(r)
    OBVIOUS
  <2>4. RowFact(r)' /\ RowOwed(r, LS)'
    BY <1>1, <2>1, RowKept
  <2> QED  BY <2>2, <2>3, <2>4
<1> QED
  BY <1>1, <1>2, <1>3 DEF JournalInv, OneRow

(* A record passed over leaves its rows as they are.                       *)
LEMMA JournalFails ==
    ASSUME ResumeInv, JournalInv, Working, pos <= maxSeen, RecordFails,
           UNCHANGED <<mailbox, disk, db, anchor, overshot, torn>>
    PROVE  JournalInv'
<1>1. CASE Stop /\ UNCHANGED failed
  BY <1>1, JournalAlone DEF Stop, db
<1>2. CASE FinishRecord /\ failed' = failed \union {ev.msg} /\ UNCHANGED rows
  <2>1. \A r \in rows : r.hid = pos => r.msg = ev.msg
    BY DEF JournalInv, RowFact, ev
  <2>2. ev.msg \notin Kept'
    BY <1>2 DEF Kept
  <2>3. OneRow(rows')
    BY <1>2 DEF JournalInv, OneRow
  <2> QED  BY <1>2, <2>1, <2>2, <2>3, JournalFinish DEF db
<1> QED
  BY <1>1, <1>2 DEF RecordFails

(* The row that a step journals replaces the one of the same record.       *)
LEMMA Journaled ==
    ASSUME ResumeInv, JournalInv, Working, pos <= maxSeen,
           NEW e \in BOOLEAN, NEW L, Journal(OpOf(ev.op), e, L),
           e <=> ev.op # "delete", half => ev.op = "labels",
           NEW LS, ~overshot /\ e /\ ev.msg \in Kept' => OwedLabels(ev.msg, L, LS, pos)
    PROVE  /\ OneRow(rows')
           /\ \A r \in rows' :
               \/ r \in rows /\ r.hid # pos
               \/ /\ r.hid = pos /\ r.op = OpOf(ev.op) /\ r.msg = ev.msg /\ RowFact(r)
                  /\ ~overshot /\ r.exists /\ r.msg \in Kept' =>
                        OwedLabels(r.msg, r.labels, LS, r.hid)
<1> DEFINE n == [hid |-> pos, msg |-> ev.msg, op |-> OpOf(ev.op), exists |-> e, labels |-> L]
<1>1. rows' = Upsert(rows, {n})
  BY DEF Journal
<1>2. n.hid = pos /\ n.op = OpOf(ev.op) /\ n.msg = ev.msg /\ n.exists = e /\ n.labels = L
  OBVIOUS
<1>3. RowFact(n)
  BY <1>2, AtRecord DEF RowFact, ev
<1>5. ASSUME NEW r \in rows, r.hid = pos PROVE SameKey(r, n)
  <2>1. RowFact(r)
    BY DEF JournalInv
  <2> QED  BY <1>2, <1>5, <2>1 DEF SameKey, RowFact, ev
<1>6. \A r \in rows' : (r \in rows /\ r.hid # pos) \/ r = n
  BY <1>1, <1>5 DEF Upsert
<1>7. OneRow(rows')
  BY <1>2, <1>6 DEF OneRow, JournalInv
<1> QED
  BY <1>2, <1>3, <1>6, <1>7

(* Every step on a record keeps the rows right.                            *)
LEMMA JournalApply ==
    ASSUME ResumeInv, JournalInv, Apply
    PROVE  JournalInv'
<1> USE DEF ResumeInv
<1>0. /\ \A op \in {"add", "delete", "labels"} : Applying(op) =>
             Working /\ pos <= maxSeen /\ ev.op = op /\ pc = "event"
      /\ pc \in {"meta", "deliver", "rewrite"} =>
             Working /\ pos <= maxSeen /\ ev.op # "delete"
      /\ pc = "rewrite" => ev.op = "labels"
      /\ Downloading => Working /\ pos <= maxSeen /\ ev.msg \notin file /\ pc = "event"
  BY DEF Applying, Working, TypeInv, Positions, Downloading
<1>1. /\ ev.op # "labels" => ~NextHalf /\ ~half
      /\ pos \in Nat
  BY DEF NextHalf, AnchorInv, TypeInv, TypeOK
<1>2. \A r \in rows : r.hid = pos => r.msg = ev.msg /\ half
                                     /\ (r.msg \in Kept =>
                                            pc = "rewrite" \/ (pc = "event" /\ ev.msg \in file))
  <2> SUFFICES ASSUME NEW r \in rows, r.hid = pos
               PROVE  r.msg = ev.msg /\ half
                      /\ (r.msg \in Kept =>
                             pc = "rewrite" \/ (pc = "event" /\ ev.msg \in file))
    OBVIOUS
  <2>1. RowFact(r) /\ RowPlace(r)
    BY DEF JournalInv
  <2>2. r.msg = ev.msg
    BY <2>1 DEF RowFact, ev
  <2> QED  BY <1>1, <2>1, <2>2 DEF RowPlace
<1>3. UNCHANGED ghost => Kept' = Kept
  BY DEF ghost, Kept
<1>4. UNCHANGED rows => OneRow(rows')
  BY DEF JournalInv, OneRow
<1>a. CASE AddPresent
  <2>1. /\ Working /\ pos <= maxSeen /\ ev.op = "add" /\ FinishRecord
        /\ UNCHANGED <<mailbox, disk, db, ghost, rows>>
    BY <1>a, <1>0 DEF AddPresent
  <2> QED  BY <1>1, <1>2, <1>4, <2>1, JournalFinish DEF db, ghost
<1>b. CASE FetchBody
  <2>1. Working /\ ev.msg \notin file /\ pc = "event" /\ Goto("meta")
        /\ UNCHANGED <<mailbox, db, ghost>>
    BY <1>b, <1>0 DEF FetchBody
  <2> QED  BY <1>2, <2>1, JournalGoto
<1>c. CASE BodyGone
  <2>1. /\ Working /\ pos <= maxSeen /\ ev.msg \notin file /\ pc = "event" /\ FinishRecord
        /\ UNCHANGED <<mailbox, disk, db, ghost, rows>>
    BY <1>c, <1>0 DEF BodyGone
  <2> QED  BY <1>2, <1>3, <1>4, <2>1, JournalFinish DEF db, ghost
<1>d. CASE FetchMeta
  <2>1. Working /\ pc = "meta" /\ Goto("deliver") /\ UNCHANGED <<mailbox, db, ghost>>
    BY <1>d, <1>0 DEF FetchMeta
  <2> QED  BY <1>2, <2>1, JournalGoto
<1>e. CASE DownloadFails
  BY <1>e, <1>0, JournalFails DEF DownloadFails
<1>f. CASE DeliverNew
  <2>1. /\ Working /\ pos <= maxSeen /\ pc = "deliver" /\ ev.op # "delete"
        /\ UNCHANGED <<mailbox, db, ghost>>
        /\ ~overshot => OwedLabels(ev.msg, got, Labels, pos)
    BY <1>f, <1>0 DEF DeliverNew, CoverInv
  <2>2. CASE ev.op = "add" /\ Journal("ADD", TRUE, got) /\ FinishRecord
    <3> PICK LS : LS = Labels
      OBVIOUS
    <3>0. OpOf(ev.op) = "ADD"
      BY <2>2 DEF OpOf
    <3>1. /\ OneRow(rows')
          /\ \A r \in rows' :
              \/ r \in rows /\ r.hid # pos
              \/ /\ r.hid = pos /\ RowFact(r)
                 /\ ~overshot /\ r.exists /\ r.msg \in Kept' =>
                       OwedLabels(r.msg, r.labels, LS, r.hid)
      BY <1>1, <2>1, <2>2, <3>0, Journaled
    <3> QED  BY <1>1, <2>1, <2>2, <3>1, JournalFinish DEF db, ghost
  <2>3. CASE Goto("event")
    BY <1>2, <2>1, <2>3, JournalGoto
  <2> QED  BY <1>f, <2>2, <2>3 DEF DeliverNew
<1>g. CASE ApplyDelete
  <2>1. /\ Working /\ pos <= maxSeen /\ ev.op = "delete" /\ FinishRecord
        /\ UNCHANGED <<mailbox, db, anchor, overshot, torn>> /\ failed \subseteq failed'
        /\ Journal(OpOf(ev.op), FALSE, {})
    BY <1>g, <1>0 DEF ApplyDelete, OpOf
  <2>2. /\ OneRow(rows')
        /\ \A r \in rows' :
            \/ r \in rows /\ r.hid # pos
            \/ r.hid = pos /\ RowFact(r) /\ (~overshot /\ r.exists /\ r.msg \in Kept' =>
                     OwedLabels(r.msg, r.labels, Labels, r.hid))
    BY <1>1, <2>1, Journaled
  <2> QED  BY <1>1, <2>1, <2>2, JournalFinish DEF db
<1>h. CASE RewriteRemove
  BY <1>h, <1>0, JournalGoto DEF RewriteRemove
<1>i. CASE RewriteDeliver
  <2>1. /\ Working /\ pos <= maxSeen /\ ev.op = "labels" /\ Deliver(ev.msg, got)
        /\ FinishRecord /\ UNCHANGED <<mailbox, db, anchor, overshot, torn>>
        /\ failed \subseteq failed' /\ Journal(OpOf(ev.op), TRUE, got)
        /\ OpOf(ev.op) = "WRITE_LABELS"
    BY <1>i, <1>0 DEF RewriteDeliver, OpOf
  <2>2. ~overshot /\ ev.msg \in Kept' => OwedLabels(ev.msg, got, Labels \ Pending, pos)
    BY <1>i DEF RewriteDeliver, Kept, Followed, CoverInv
  <2> PICK LS : LS = IF NextHalf THEN Labels \ ev.lrem ELSE Labels
    OBVIOUS
  <2>3. LS = Labels \ Pending
    BY <2>1 DEF NextHalf, Pending
  <2>4. /\ OneRow(rows')
        /\ \A r \in rows' :
            \/ r \in rows /\ r.hid # pos
            \/ /\ r.hid = pos /\ r.op = "WRITE_LABELS" /\ r.msg = ev.msg /\ RowFact(r)
               /\ ~overshot /\ r.exists /\ r.msg \in Kept' =>
                     OwedLabels(r.msg, r.labels, LS, r.hid)
    BY <2>1, <2>2, <2>3, Journaled
  <2>5. ev.msg \in file'
    BY <2>1 DEF Deliver
  <2> QED  BY <2>1, <2>4, <2>5, JournalFinish DEF db
<1>j. CASE RewriteFails
  BY <1>j, <1>0, JournalFails DEF RewriteFails
<1> QED
  BY <1>a, <1>b, <1>c, <1>d, <1>e, <1>f, <1>g, <1>h, <1>i, <1>j DEF Apply

-----------------------------------------------------------------------------
(* The journal is complete.  A record n is due no row in J when it adds a  *)
(* message, changes the labels of one that is gone, or was passed over.    *)
RowDue(n, J) ==
    \/ log[n].op = "add"
    \/ log[n].msg \notin Kept
    \/ log[n].op = "labels" /\ log[n].msg \notin live
    \/ \E r \in J : r.hid = n

(* Some run has committed the page of record n.                            *)
Reached(n) == n <= anchor \/ \E j \in journal : n <= j.hid

LogInv == ~overshot =>
    /\ \A n \in DOMAIN log : Reached(n) => RowDue(n, journal)
    /\ Working => \A n \in DOMAIN log :
           anchor < n /\ n < pos => RowDue(n, journal \union rows)

(* The log starts empty.                                                   *)
LEMMA LogInit == Init => LogInv
  BY MailboxAssumption DEF Init, MailboxInit, LogInv

(* A new record is above every page that was read.                         *)
LEMMA LogGmail ==
    ASSUME ResumeInv, JournalInv, LogInv, Gmail
    PROVE  LogInv'
<1> USE DEF ResumeInv
<1>1. MailboxNext /\ UNCHANGED <<disk, db, proc, ghost>> /\ MailboxTypeOK
  BY DEF Gmail, TypeInv, TypeOK
<1>2. /\ \A n \in DOMAIN log : n \in DOMAIN log' /\ log'[n] = log[n]
      /\ \A n \in DOMAIN log' \ DOMAIN log : n > top
      /\ \A n \in DOMAIN log : log[n].msg \notin live => log[n].msg \notin live'
  BY <1>1, RecordsStay
<1>3. UNCHANGED <<journal, rows, failed, overshot, anchor, pos>>
      /\ (Working' <=> Working) /\ Kept' = Kept
  BY <1>1 DEF db, proc, ghost, Working, Kept
<1>4. ASSUME NEW n \in DOMAIN log, NEW J, RowDue(n, J) PROVE RowDue(n, J)'
  BY <1>2, <1>3, <1>4 DEF RowDue
<1>5. \A n \in DOMAIN log' \ DOMAIN log : ~Reached(n) /\ (Working => n >= pos) /\ n \in Nat
  <2> TAKE n \in DOMAIN log' \ DOMAIN log
  <2>1. MailboxTypeOK'
    BY <1>1, MailboxTypeStep
  <2>2. n \in Nat /\ top \in Nat /\ n > top /\ anchor <= top /\ anchor \in Nat
    BY <1>1, <1>2, <2>1, MailboxAssumption
    DEF TypeInv, TypeOK, Positions, Position, MailboxTypeOK
  <2>3. \A j \in journal : j.hid \in Nat /\ j.hid <= top
    BY <1>1, MailboxAssumption DEF JournalInv, RowFact, MailboxTypeOK
  <2>4. Working => pos <= top + 1 /\ pos \in Nat
    BY <2>2, MailboxAssumption DEF TypeInv, TypeOK, Positions, Position, Working
  <2> QED  BY <2>2, <2>3, <2>4 DEF Reached
<1>6. ASSUME ~overshot, NEW n \in DOMAIN log', Reached(n)' PROVE RowDue(n, journal)'
  <2>1. Reached(n)
    BY <1>3, <1>6 DEF Reached
  <2>2. n \in DOMAIN log
    BY <1>5, <2>1
  <2> PICK J : J = journal
    OBVIOUS
  <2>3. RowDue(n, J)'
    BY <1>4, <1>6, <2>1, <2>2 DEF LogInv
  <2> QED  BY <1>3, <2>3
<1>7. ASSUME ~overshot, Working, NEW n \in DOMAIN log', anchor < n, n < pos
      PROVE  RowDue(n, journal \union rows)'
  <2>1. n \in DOMAIN log
    BY <1>5, <1>7 DEF TypeInv, TypeOK
  <2> PICK J : J = journal \union rows
    OBVIOUS
  <2>2. RowDue(n, J)'
    BY <1>4, <1>7, <2>1 DEF LogInv
  <2> QED  BY <1>3, <2>2
<1> QED
  BY <1>3, <1>6, <1>7 DEF LogInv

(* A record that is due no row stays so while the mailbox stands still, in *)
(* every set of rows that holds the same records.                          *)
LEMMA RowDueKept ==
    ASSUME UNCHANGED mailbox, failed \subseteq failed', NEW n, NEW J, NEW K,
           \A r \in J : \E q \in K : q.hid = r.hid, RowDue(n, J)
    PROVE  RowDue(n, K)'
  BY DEF RowDue, Kept, mailbox

(* Nothing is reached beyond the cursor that a run starts at, or the last  *)
(* row of a replay that ends.                                              *)
LEMMA LogSettled ==
    ASSUME TypeInv, LogInv, UNCHANGED <<mailbox, journal>>, failed \subseteq failed',
           overshot => overshot', ~Working', anchor' \in Nat,
           overshot' \/ anchor' <= anchor \/ \E j \in journal : anchor' <= j.hid
    PROVE  LogInv'
<1> SUFFICES ASSUME ~overshot', NEW n \in DOMAIN log', Reached(n)'
             PROVE  RowDue(n, journal)'
  BY DEF LogInv
<1>1. n \in DOMAIN log /\ n \in Nat
  BY MailboxAssumption DEF mailbox, TypeInv, TypeOK, MailboxTypeOK
<1>2. anchor \in Nat /\ \A j \in journal : j.hid \in Nat
  BY DEF TypeInv, TypeOK, Row
<1>3. Reached(n)
  BY <1>1, <1>2 DEF Reached
<1> PICK J : J = journal
  OBVIOUS
<1>4. RowDue(n, J)'
  BY <1>1, <1>3, RowDueKept DEF LogInv
<1> QED
  BY <1>4

(* The rows of a page are complete when its cursor becomes durable.        *)
LEMMA LogPages ==
    ASSUME ResumeInv, JournalInv, LogInv, FetchPage \/ CommitPage
    PROVE  LogInv'
<1> USE DEF ResumeInv
<1>0. DOMAIN log \subseteq Nat /\ anchor \in Nat /\ maxSeen \in Nat /\ pos \in Nat
      /\ \A r \in journal \union rows : r.hid \in Nat
  BY MailboxAssumption DEF TypeInv, TypeOK, MailboxTypeOK, Row
<1>1. CASE FetchPage
  <2>1. /\ UNCHANGED <<mailbox, journal, anchor, failed, overshot>> /\ pos' = anchor + 1
    BY <1>1 DEF FetchPage, AnchorInv, db, ghost
  <2>2. \A n \in DOMAIN log' : ~(anchor' < n /\ n < pos')
    BY <1>0, <2>1 DEF mailbox
  <2>3. ASSUME ~overshot, NEW n \in DOMAIN log, Reached(n) PROVE RowDue(n, journal)'
    BY <2>1, <2>3 DEF LogInv, RowDue, Kept, mailbox
  <2> QED  BY <2>1, <2>2, <2>3 DEF LogInv, Reached, mailbox
<1>2. CASE CommitPage
  <2>1. /\ UNCHANGED <<mailbox, failed, overshot>> /\ anchor' = maxSeen
        /\ journal' = Upsert(journal, rows) /\ ~Working' /\ Working
        /\ pos - 1 = maxSeen /\ ~half
    BY <1>0, <1>2, MailboxAssumption
    DEF CommitPage, Working, AnchorInv, TypeInv, TypeOK, Positions
  <2>2. /\ \A r \in journal : \E q \in journal' : q.hid = r.hid
        /\ \A r \in journal \union rows : \E q \in journal' : q.hid = r.hid
    BY <2>1 DEF Upsert, SameKey
  <2>3. \A r \in rows : r.hid <= maxSeen
    BY <1>0, <2>1 DEF JournalInv, RowPlace
  <2>4. ASSUME ~overshot, NEW n \in DOMAIN log, Reached(n)' PROVE RowDue(n, journal)'
    <3> PICK J, L, K : J = journal /\ L = journal \union rows /\ K = journal'
      OBVIOUS
    <3>1. CASE Reached(n)
      <4>1. RowDue(n, J)
        BY <2>4, <3>1 DEF LogInv
      <4>2. RowDue(n, K)'
        BY <2>1, <2>2, <4>1, RowDueKept
      <4> QED  BY <4>2
    <3>2. CASE ~Reached(n)
      <4>1. anchor < n /\ n < pos
        BY <1>0, <2>1, <2>3, <2>4, <3>2, UpsertType DEF Reached
      <4>2. RowDue(n, L)
        BY <2>1, <2>4, <4>1 DEF LogInv
      <4>3. RowDue(n, K)'
        BY <2>1, <2>2, <4>2, RowDueKept
      <4> QED  BY <4>3
    <3> QED  BY <3>1, <3>2
  <2> QED  BY <2>1, <2>4 DEF LogInv, mailbox
<1> QED
  BY <1>1, <1>2

(* The end of a record: it is due no row, or has one.                      *)
LEMMA LogFinish ==
    ASSUME ResumeInv, LogInv, Working, pos <= maxSeen, FinishRecord,
           UNCHANGED <<mailbox, journal, anchor, overshot>>, failed \subseteq failed',
           \A r \in rows : \E q \in rows' : q.hid = r.hid,
           \/ NextHalf \/ ev.op = "add" \/ ev.msg \notin Kept'
           \/ ev.op = "labels" /\ ev.msg \notin live
           \/ \E r \in rows' : r.hid = pos
    PROVE  LogInv'
<1> USE DEF ResumeInv
<1>0. DOMAIN log \subseteq Nat /\ pos \in Nat
  BY MailboxAssumption DEF TypeInv, TypeOK, MailboxTypeOK
<1>1. pos' = IF NextHalf THEN pos ELSE pos + 1
  BY DEF FinishRecord
<1> SUFFICES ASSUME ~overshot
             PROVE  /\ \A n \in DOMAIN log : Reached(n) => RowDue(n, journal)'
                    /\ \A n \in DOMAIN log :
                           anchor < n /\ n < pos' => RowDue(n, journal \union rows)'
  BY DEF LogInv, Reached, mailbox
<1> PICK J, L, K, Q : /\ J = journal /\ L = journal \union rows
                      /\ K = journal' \union rows' /\ Q = rows'
  OBVIOUS
<1>2. ASSUME NEW n \in DOMAIN log, Reached(n) PROVE RowDue(n, journal)'
  <2>1. RowDue(n, J)'
    BY <1>2, RowDueKept DEF LogInv
  <2> QED  BY <2>1
<1>3. ASSUME NEW n \in DOMAIN log, anchor < n, n < pos' PROVE RowDue(n, K)'
  <2>1. CASE n < pos
    <3>1. RowDue(n, L)
      BY <1>3, <2>1 DEF LogInv
    <3>2. \A r \in L : \E q \in K : q.hid = r.hid
      OBVIOUS
    <3> QED  BY <3>1, <3>2, RowDueKept
  <2>2. CASE n = pos /\ ~NextHalf
    <3>1. \/ log'[n].op = "add" \/ log'[n].msg \notin Kept'
          \/ log'[n].op = "labels" /\ log'[n].msg \notin live'
          \/ \E r \in K : r.hid = n
      BY <2>2 DEF ev, mailbox
    <3> QED  BY <3>1 DEF RowDue
  <2> QED  BY <1>0, <1>1, <1>3, <2>1, <2>2
<1> QED
  BY <1>2, <1>3
(* Going on with a record journals nothing.                                *)
LEMMA LogGoto ==
    ASSUME LogInv, NEW p \in PCs, Goto(p), UNCHANGED <<mailbox, journal, ghost>>,
           Working
    PROVE  LogInv'
  BY DEF LogInv, Reached, RowDue, Kept, Goto, mailbox, ghost

(* A step that journals a row of the record keeps the other records' rows. *)
LEMMA RowAdded ==
    ASSUME NEW op, NEW e, NEW L, Journal(op, e, L)
    PROVE  /\ \A r \in rows : \E q \in rows' : q.hid = r.hid
           /\ \E q \in rows' : q.hid = pos
<1> DEFINE n == [hid |-> pos, msg |-> ev.msg, op |-> op, exists |-> e, labels |-> L]
<1>1. rows' = Upsert(rows, {n}) /\ n.hid = pos
  BY DEF Journal
<1>2. n \in rows'
  BY <1>1 DEF Upsert
<1>3. \A r \in rows : r \in rows' \/ SameKey(r, n)
  BY <1>1 DEF Upsert
<1> QED
  BY <1>1, <1>2, <1>3 DEF SameKey

(* Every step on a record keeps the journal complete.                      *)
LEMMA LogApply ==
    ASSUME ResumeInv, TypeInv', LogInv, Apply
    PROVE  LogInv'
<1> USE DEF ResumeInv
<1>0. /\ \A op \in {"add", "delete", "labels"} : Applying(op) =>
             Working /\ pos <= maxSeen /\ ev.op = op
      /\ pc \in {"meta", "deliver", "rewrite"} =>
             Working /\ pos <= maxSeen
      /\ pc = "rewrite" => ev.op = "labels"
      /\ Downloading => Working /\ pos <= maxSeen /\ ev.op \in {"add", "labels"}
      /\ {"event", "meta", "deliver", "rewrite"} \subseteq PCs
  BY DEF Applying, Working, TypeInv, Positions, Downloading, PCs
<1>1. ASSUME Working, pos <= maxSeen, RecordFails,
             UNCHANGED <<mailbox, disk, db, anchor, overshot, torn>>
      PROVE  LogInv'
  <2>1. CASE Stop /\ UNCHANGED failed
    <3>1. ~Working' /\ anchor' \in Nat /\ anchor' <= anchor
      BY <1>1, <2>1, StopType DEF TypeInv, TypeOK
    <3> QED  BY <1>1, <2>1, <3>1, LogSettled DEF db
  <2>2. CASE FinishRecord /\ failed' = failed \union {ev.msg} /\ UNCHANGED rows
    <3>1. ev.msg \notin Kept'
      BY <2>2 DEF Kept
    <3> QED  BY <1>1, <2>2, <3>1, LogFinish DEF db
  <2> QED  BY <1>1, <2>1, <2>2 DEF RecordFails
<1>a. CASE AddPresent
  BY <1>a, <1>0, LogFinish DEF AddPresent, db, ghost
<1>b. CASE FetchBody
  BY <1>b, <1>0, LogGoto DEF FetchBody, db
<1>c. CASE BodyGone
  <2>1. ev.op = "add" \/ (ev.op = "labels" /\ ev.msg \notin live) \/ ev.msg \notin Kept'
    BY <1>c, <1>0 DEF BodyGone, Kept
  <2> QED  BY <1>c, <1>0, <2>1, LogFinish DEF BodyGone, db, ghost
<1>d. CASE FetchMeta
  BY <1>d, <1>0, LogGoto DEF FetchMeta, db
<1>e. CASE DownloadFails
  BY <1>e, <1>0, <1>1 DEF DownloadFails
<1>f. CASE DeliverNew
  <2>1. CASE ev.op = "add" /\ Journal("ADD", TRUE, got) /\ FinishRecord
    BY <1>f, <1>0, <2>1, RowAdded, LogFinish DEF DeliverNew, db, ghost
  <2>2. CASE Goto("event")
    BY <1>f, <1>0, <2>2, LogGoto DEF DeliverNew, db
  <2> QED  BY <1>f, <2>1, <2>2 DEF DeliverNew
<1>g. CASE ApplyDelete
  <2>1. failed \subseteq failed'
    BY <1>g DEF ApplyDelete
  <2> QED  BY <1>g, <1>0, <2>1, RowAdded, LogFinish DEF ApplyDelete, db
<1>h. CASE RewriteRemove
  BY <1>h, <1>0, LogGoto DEF RewriteRemove, db
<1>i. CASE RewriteDeliver
  <2>1. failed \subseteq failed'
    BY <1>i DEF RewriteDeliver
  <2> QED  BY <1>i, <1>0, <2>1, RowAdded, LogFinish DEF RewriteDeliver, db
<1>j. CASE RewriteFails
  BY <1>j, <1>0, <1>1 DEF RewriteFails
<1> QED
  BY <1>a, <1>b, <1>c, <1>d, <1>e, <1>f, <1>g, <1>h, <1>i, <1>j DEF Apply

-----------------------------------------------------------------------------
(* A replay.  The row it is at, and the rows it has replayed.              *)
Head(h) == h \in todo /\ \A s \in todo : h.hid <= s.hid
Done == RowsFrom(cursor) \ todo

(* The mirror shows the last row replayed of message m, or is about to     *)
(* show the row the replay is at.                                          *)
Shown(m) ==
    \/ \E h \in todo : Head(h) /\ h.exists /\ h.msg = m
    \/ \E r \in Done : /\ r.msg = m
                       /\ \A s \in Done : s.msg = m => s.hid <= r.hid
                       /\ r.exists => m \in file /\ kw[m] = r.labels

ReplayInv == pc \in {"replay", "replayRewrite"} =>
    /\ todo \subseteq RowsFrom(cursor) /\ Of(RowsFrom(cursor)) \subseteq torn
    /\ \E r \in RowsFrom(cursor) : maxSeen = r.hid
    /\ \A r \in RowsFrom(cursor) : r.hid <= maxSeen
    /\ \A r \in todo, s \in RowsFrom(cursor) : r.hid < s.hid => s \in todo
    /\ pc = "replayRewrite" => \E h \in todo : Head(h) /\ h.exists /\ got = h.labels
    /\ \A m \in Of(Done) \intersect Kept : Shown(m)

(* There is one row that a replay is at.                                   *)
LEMMA OneHead ==
    ASSUME TypeInv, JournalInv, ReplayInv, pc \in {"replay", "replayRewrite"},
           NEW h \in todo, NEW g \in todo, Head(h), Head(g)
    PROVE  h = g
<1>1. h \in journal /\ g \in journal /\ h.hid \in Nat /\ g.hid \in Nat
  BY DEF ReplayInv, RowsFrom, TypeInv, TypeOK, Row
<1> QED
  BY <1>1 DEF Head, JournalInv, OneRow

(* A step at a row that leaves it to be replayed: only its file changes.   *)
LEMMA ReplayStays ==
    ASSUME TypeInv, JournalInv, ReplayInv, pc \in {"replay", "replayRewrite"},
           NEW h \in todo, Head(h), h.exists,
           NEW p \in {"replay", "replayRewrite"}, ReplayNext(p, todo),
           UNCHANGED <<db, ghost>>,
           \A x \in Msgs \ {h.msg} : (x \in file <=> x \in file') /\ kw'[x] = kw[x],
           p = "replayRewrite" => got' = h.labels
    PROVE  ReplayInv'
<1>1. /\ UNCHANGED <<cursor, maxSeen, todo, journal, torn, failed>> /\ pc' = p
      /\ RowsFrom(cursor)' = RowsFrom(cursor) /\ Done' = Done /\ Kept' = Kept
      /\ \A x : Head(x)' <=> Head(x)
  BY DEF ReplayNext, db, ghost, RowsFrom, Done, Kept, Head
<1>2. ASSUME NEW m \in Of(Done) \intersect Kept PROVE Shown(m)'
  <2>1. Shown(m) /\ m \in Msgs
    BY DEF ReplayInv, Kept
  <2>2. CASE m = h.msg
    BY <1>1, <2>2 DEF Shown
  <2>3. CASE m # h.msg
    <3>1. \A g \in todo : Head(g) => g.msg # m
      BY <2>3, OneHead
    <3> QED  BY <1>1, <2>1, <2>3, <3>1 DEF Shown
  <2> QED  BY <2>2, <2>3
<1>3. Of(Done)' = Of(Done) /\ Of(RowsFrom(cursor))' = Of(RowsFrom(cursor))
  BY <1>1 DEF Of
<1> QED
  BY <1>1, <1>2, <1>3 DEF ReplayInv

(* A row is replayed: the mirror shows it.                                 *)
LEMMA ReplayAdvances ==
    ASSUME TypeInv, JournalInv, ReplayInv, pc \in {"replay", "replayRewrite"},
           NEW h \in todo, Head(h), ReplayNext("replay", todo \ {h}),
           UNCHANGED <<db, ghost>>,
           \A x \in Msgs \ {h.msg} : (x \in file <=> x \in file') /\ kw'[x] = kw[x],
           h.exists => h.msg \in file' /\ kw'[h.msg] = h.labels
    PROVE  ReplayInv'
<1>0. /\ todo \subseteq RowsFrom(cursor) /\ \A r \in RowsFrom(cursor) : r.hid \in Nat
      /\ RowsFrom(cursor) \subseteq journal
  BY DEF ReplayInv, RowsFrom, TypeInv, TypeOK, Row
<1>1. /\ UNCHANGED <<cursor, maxSeen, journal, torn, failed>> /\ pc' = "replay"
      /\ todo' = todo \ {h} /\ RowsFrom(cursor)' = RowsFrom(cursor) /\ Kept' = Kept
      /\ Done' = Done \union {h}
  BY <1>0 DEF ReplayNext, db, ghost, RowsFrom, Done, Kept
<1>2. \A r \in Done : r.hid <= h.hid
  BY <1>0 DEF Done, ReplayInv
<1>3. ASSUME NEW m \in Of(Done \union {h}) \intersect Kept PROVE Shown(m)'
  <2>1. CASE m = h.msg
    <3>1. \A s \in Done' : s.hid <= h.hid
      BY <1>0, <1>1, <1>2
    <3> QED  BY <1>1, <2>1, <3>1 DEF Shown
  <2>2. CASE m # h.msg
    <3>1. Shown(m) /\ m \in Msgs
      BY <2>2 DEF ReplayInv, Kept, Of
    <3>2. \A g \in todo : Head(g) => g.msg # m
      BY <2>2, OneHead
    <3>3. PICK r \in Done : /\ r.msg = m /\ \A s \in Done : s.msg = m => s.hid <= r.hid
                            /\ r.exists => m \in file /\ kw[m] = r.labels
      BY <3>1, <3>2 DEF Shown
    <3>4. \A s \in Done' : s.msg = m => s.hid <= r.hid
      BY <1>1, <2>2, <3>3
    <3>5. r.exists => m \in file' /\ kw'[m] = r.labels
      BY <2>2, <3>1, <3>3
    <3> QED  BY <1>1, <3>3, <3>4, <3>5 DEF Shown
  <2> QED  BY <2>1, <2>2
<1>4. /\ \A r \in todo', s \in RowsFrom(cursor) : r.hid < s.hid => s \in todo'
  <2> SUFFICES ASSUME NEW r \in todo', NEW s \in RowsFrom(cursor), r.hid < s.hid
               PROVE  s \in todo'
    OBVIOUS
  <2>1. r \in todo /\ s \in todo
    BY <1>1 DEF ReplayInv
  <2>2. s # h
    BY <1>0, <2>1 DEF Head
  <2> QED  BY <1>1, <2>1, <2>2
<1>5. Of(Done)' = Of(Done \union {h}) /\ Of(RowsFrom(cursor))' = Of(RowsFrom(cursor))
  BY <1>1 DEF Of
<1> QED
  BY <1>1, <1>3, <1>4, <1>5 DEF ReplayInv

(* A replay starts with all the rows before it.                            *)
LEMMA ReplayStarts ==
    ASSUME StartReplay
    PROVE  ReplayInv'
<1>1. UNCHANGED <<cursor, journal>> /\ RowsFrom(cursor)' = RowsFrom(cursor)
  BY DEF StartReplay, db, RowsFrom
<1>2. CASE pc' = "clear"
  BY <1>2 DEF ReplayInv
<1>3. CASE /\ \E last \in RowsFrom(cursor) : /\ \A r \in RowsFrom(cursor) : r.hid <= last.hid
                                             /\ maxSeen' = last.hid
           /\ torn' = torn \union Of(RowsFrom(cursor))
           /\ todo' = RowsFrom(cursor)
           /\ pc' = "replay"
  <2>1. Of(Done)' = {} /\ Of(RowsFrom(cursor))' = Of(RowsFrom(cursor))
    BY <1>1, <1>3 DEF Of, Done
  <2> QED  BY <1>1, <1>3, <2>1 DEF ReplayInv
<1> QED
  BY <1>2, <1>3 DEF StartReplay

(* Every step keeps a replay's mirror on the last rows replayed.           *)
LEMMA ReplayStep ==
    ASSUME TypeInv, JournalInv, ReplayInv, [Next]_vars
    PROVE  ReplayInv'
<1>1. CASE pc' \notin {"replay", "replayRewrite"}
  BY <1>1 DEF ReplayInv
<1>2. CASE Gmail \/ UNCHANGED vars
  BY <1>2
  DEF Gmail, ReplayInv, Done, Shown, Head, RowsFrom, Of, Kept, vars, disk, db, proc, ghost
<1>3. CASE StartReplay
  BY <1>3, ReplayStarts
<1>4. CASE ReplayDelete
  <2> PICK h \in todo : /\ Replaying(h) /\ ~h.exists
                        /\ Remove(h.msg) \/ UNCHANGED disk
                        /\ ReplayNext("replay", todo \ {h}) /\ UNCHANGED <<db, ghost>>
    BY <1>4 DEF ReplayDelete
  <2>1. \A x \in Msgs \ {h.msg} : (x \in file <=> x \in file') /\ kw'[x] = kw[x]
    BY DEF Remove, disk, TypeInv, TypeOK
  <2>2. Head(h) /\ pc = "replay"
    BY DEF Replaying, Head
  <2> QED  BY <2>1, <2>2, ReplayAdvances
<1>5. CASE ReplayRemove
  <2> PICK h \in todo : /\ Replaying(h) /\ h.exists /\ got' = h.labels /\ Remove(h.msg)
                        /\ ReplayNext("replayRewrite", todo) /\ UNCHANGED <<db, ghost>>
    BY <1>5 DEF ReplayRemove
  <2>1. \A x \in Msgs \ {h.msg} : (x \in file <=> x \in file') /\ kw'[x] = kw[x]
    BY DEF Remove, TypeInv, TypeOK
  <2>2. Head(h) /\ pc = "replay"
    BY DEF Replaying, Head
  <2> QED  BY <2>1, <2>2, ReplayStays
<1>6. CASE ReplayRewrite
  <2>1. PICK g \in todo : /\ \A s \in todo : g.hid <= s.hid
                          /\ Deliver(g.msg, got) /\ ReplayNext("replay", todo \ {g})
    BY <1>6 DEF ReplayRewrite
  <2>2. PICK h \in todo : Head(h) /\ h.exists /\ got = h.labels
    BY <1>6 DEF ReplayRewrite, ReplayInv
  <2>3. g = h /\ pc = "replayRewrite" /\ UNCHANGED <<db, ghost>>
    BY <1>6, <2>1, <2>2, OneHead DEF Head, ReplayRewrite
  <2>4. h.msg \in Msgs /\ kw \in [Msgs -> SUBSET Labels]
    BY DEF TypeInv, TypeOK, Row
  <2>5. /\ \A x \in Msgs \ {h.msg} : (x \in file <=> x \in file') /\ kw'[x] = kw[x]
        /\ h.msg \in file' /\ kw'[h.msg] = h.labels
    BY <2>1, <2>2, <2>3, <2>4 DEF Deliver
  <2> QED  BY <2>1, <2>2, <2>3, <2>5, ReplayAdvances
<1>7. CASE ReplayDownload
  <2> PICK h \in todo : /\ Replaying(h) /\ h.exists /\ Deliver(h.msg, h.labels)
                        /\ ReplayNext("replay", todo) /\ UNCHANGED <<db, ghost>>
    BY <1>7 DEF ReplayDownload
  <2>1. \A x \in Msgs \ {h.msg} : (x \in file <=> x \in file') /\ kw'[x] = kw[x]
    BY DEF Deliver, TypeInv, TypeOK
  <2>2. Head(h) /\ pc = "replay"
    BY DEF Replaying, Head
  <2> QED  BY <2>1, <2>2, ReplayStays
<1>8. CASE Run \/ FetchPage \/ CommitPage \/ Commit \/ Abort
  <2>1. pc' \notin {"replay", "replayRewrite"}
    BY <1>8
    DEF Run, StartResume, StartOverride, StartBootstrap, BeginAt, Begin, FetchPage, CommitPage,
        Commit, Abort, Stop
  <2> QED  BY <1>1, <2>1
<1>9. CASE Apply
  <2>1. pc' \notin {"replay", "replayRewrite"}
    BY <1>9
    DEF Apply, AddPresent, FetchBody, BodyGone, FetchMeta, DownloadFails, DeliverNew,
        ApplyDelete, RewriteRemove, RewriteDeliver, RewriteFails, FinishRecord, Goto,
        RecordFails, Stop
  <2> QED  BY <1>1, <2>1
<1>10. CASE ReplayFails \/ ReplayDone \/ Clear
  <2>1. pc' \notin {"replay", "replayRewrite"}
    BY <1>10 DEF ReplayFails, ReplayNext, ReplayDone, Clear, Stop
  <2> QED  BY <1>1, <2>1
<1> QED
  BY <1>2, <1>3, <1>4, <1>5, <1>6, <1>7, <1>8, <1>9, <1>10 DEF Next, Sync, Replay

-----------------------------------------------------------------------------
(* The message whose file is about to be written.                          *)
Held(m) ==
    \/ pc \in {"deliver", "rewrite"} /\ ev.msg = m
    \/ pc = "replayRewrite" /\ \E h \in todo : Head(h) /\ h.msg = m

(* A message with a row for its deletion has no file and gets none.        *)
GoneInv ==
    \A r \in journal \union rows :
        ~r.exists /\ r.msg \in Kept => r.msg \notin file /\ ~Held(r.msg)

(* There is no row at the start.                                           *)
LEMMA GoneInit == Init => GoneInv
  BY DEF Init, GoneInv

(* Files come from Gmail or were there before, and so do the messages of   *)
(* which one is about to be written; neither has a row for a deletion.     *)
LEMMA GoneKept ==
    ASSUME ResumeInv, JournalInv, GoneInv, failed \subseteq failed',
           \A x \in file' : x \in file \/ x \in live \/ Held(x),
           \A x : Held(x)' => x \in file \/ x \in live \/ Held(x),
           \A r \in journal' \union rows' :
               \/ r \in journal \union rows \/ r.exists \/ r.msg \notin Kept'
               \/ r.msg \notin file' /\ ~Held(r.msg)'
    PROVE  GoneInv'
<1> SUFFICES ASSUME NEW r \in journal \union rows, ~r.exists, r.msg \in Kept'
             PROVE  r.msg \notin file' /\ ~Held(r.msg)'
  BY DEF GoneInv
<1>1. RowFact(r) /\ r.msg \in Kept
  BY DEF JournalInv, Kept
<1>2. r.msg \notin live
  BY <1>1 DEF RowFact, ResumeInv, MailboxInv, RecordHolds
<1>3. r.msg \notin file /\ ~Held(r.msg)
  BY <1>1 DEF GoneInv
<1> QED
  BY <1>2, <1>3

(* Every step keeps files and deletions apart.                             *)
LEMMA GoneStep ==
    ASSUME ResumeInv, JournalInv, ReplayInv, GoneInv, [Next]_vars
    PROVE  GoneInv'
<1> USE DEF ResumeInv
<1>0. /\ \A op \in {"add", "delete", "labels"} : Applying(op) =>
             Working /\ pos <= maxSeen
      /\ pc \in {"meta", "deliver", "rewrite"} => Working /\ pos <= maxSeen
      /\ Downloading => Working /\ pos <= maxSeen
  BY DEF Applying, Working, TypeInv, Positions, Downloading
<1>1. ASSUME UNCHANGED <<file, failed, journal>>, rows' \subseteq rows,
             pc' \notin {"deliver", "rewrite", "replayRewrite"}
      PROVE  GoneInv'
  <2>1. \A x : ~Held(x)'
    BY <1>1 DEF Held
  <2> QED  BY <1>1, <2>1, GoneKept
<1>2. ASSUME RecordFails, UNCHANGED <<mailbox, disk, db, anchor, overshot, torn>>
      PROVE  GoneInv'
  <2>1. pc' \in {"idle", "event"} /\ rows' \subseteq rows /\ failed \subseteq failed'
        /\ file' = file /\ journal' = journal
    BY <1>2 DEF RecordFails, Stop, FinishRecord, disk, db
  <2>2. \A x : ~Held(x)'
    BY <2>1 DEF Held
  <2> QED  BY <2>1, <2>2, GoneKept
<1>3. ASSUME NEW p, Goto(p), UNCHANGED <<mailbox, db, failed>>,
             \A x \in file' : x \in file \/ x = ev.msg,
             ev.msg \in file' => ev.msg \in file \/ Held(ev.msg),
             p \in {"deliver", "rewrite"} => ev.msg \in file \/ ev.msg \in live,
             p # "replayRewrite"
      PROVE  GoneInv'
  <2>1. pc' = p /\ ev' = ev /\ UNCHANGED <<journal, rows>>
    BY <1>3 DEF Goto, ev, mailbox, db
  <2>2. \A x : Held(x)' => x = ev.msg /\ (x \in file \/ x \in live)
    BY <1>3, <2>1 DEF Held
  <2> QED  BY <1>3, <2>1, <2>2, GoneKept
<1>4. ASSUME NEW h \in todo, NEW T, NEW p \in {"replay", "clear"}, ReplayNext(p, T),
             UNCHANGED <<db, failed>>,
             \A x \in file' : x \in file \/ (x = h.msg /\ (x \in live \/ Held(x)))
      PROVE  GoneInv'
  <2>1. pc' = p /\ UNCHANGED <<journal, rows>>
    BY <1>4 DEF ReplayNext, db
  <2>2. \A x : ~Held(x)'
    BY <2>1 DEF Held
  <2> QED  BY <1>4, <2>1, <2>2, GoneKept
<1>a. CASE UNCHANGED vars
  <2>1. UNCHANGED <<file, failed, journal, rows>>
    BY <1>a DEF vars, disk, db, proc, ghost
  <2>2. \A x : Held(x)' => Held(x)
    BY <1>a DEF vars, proc, mailbox, Held, Head, ev
  <2> QED  BY <2>1, <2>2, GoneKept
<1>b. CASE Gmail
  <2>1. /\ UNCHANGED <<file, failed, journal, rows, pc, todo, pos>> /\ MailboxNext
    BY <1>b DEF Gmail, disk, db, proc, ghost
  <2>2. pc \in {"deliver", "rewrite"} => ev' = ev
    BY <1>0, <2>1, EvType, RecordsStay DEF ev
  <2>3. \A x : Held(x)' => Held(x)
    BY <2>1, <2>2 DEF Held, Head
  <2> QED  BY <2>1, <2>3, GoneKept
<1>c. CASE Run
  <2>1. UNCHANGED <<file, failed, journal, rows>> /\ pc' = "fetch"
    BY <1>c
    DEF Run, StartResume, StartOverride, StartBootstrap, BeginAt, Begin, disk, db, ghost
  <2> QED  BY <1>1, <2>1
<1>d. CASE FetchPage
  BY <1>1, <1>d DEF FetchPage, disk, db, ghost
<1>e. CASE CommitPage
  <2>1. /\ UNCHANGED <<file, failed>> /\ pc' \in {"fetch", "commit"} /\ rows' = {}
        /\ \A r \in journal' : r \in journal \union rows
    BY <1>e, UpsertType DEF CommitPage, disk
  <2>2. \A x : ~Held(x)'
    BY <2>1 DEF Held
  <2> QED  BY <2>1, <2>2, GoneKept
<1>f. CASE Commit \/ Abort \/ Clear \/ ReplayDone
  <2>1. UNCHANGED <<file, failed, journal>> /\ pc' = "idle" /\ rows' = {}
    BY <1>f DEF Commit, Abort, Clear, ReplayDone, Stop, disk, db, ghost
  <2> QED  BY <1>1, <2>1
<1>g. CASE AddPresent \/ BodyGone
  BY <1>1, <1>g DEF AddPresent, BodyGone, FinishRecord, disk, db, ghost
<1>h. CASE FetchBody
  BY <1>3, <1>h DEF FetchBody, disk, ghost
<1>i. CASE FetchMeta
  BY <1>3, <1>i DEF FetchMeta, disk, ghost
<1>j. CASE DownloadFails \/ RewriteFails
  BY <1>2, <1>j DEF DownloadFails, RewriteFails
<1>k. CASE DeliverNew
  <2>1. /\ file' = file \union {ev.msg} /\ Held(ev.msg)
        /\ UNCHANGED <<mailbox, db, failed>>
    BY <1>k DEF DeliverNew, Deliver, ghost, Held
  <2>2. CASE Journal("ADD", TRUE, got) /\ FinishRecord
    <3>1. pc' = "event" /\ journal' = journal /\ \A r \in rows' : r \in rows \/ r.exists
      BY <2>1, <2>2, UpsertType DEF FinishRecord, Journal, db
    <3>2. \A x : ~Held(x)'
      BY <3>1 DEF Held
    <3> QED  BY <2>1, <3>1, <3>2, GoneKept
  <2>3. CASE Goto("event")
    BY <1>3, <2>1, <2>3
  <2> QED  BY <1>k, <2>2, <2>3 DEF DeliverNew
<1>l. CASE ApplyDelete
  <2>1. /\ journal' = journal /\ pc' = "event" /\ failed \subseteq failed'
        /\ file' \subseteq file
        /\ ev.msg \notin file' \/ ev.msg \in failed'
    BY <1>l DEF ApplyDelete, Remove, FinishRecord, db, disk
  <2>2. \A r \in rows' : r \in rows \/ r.msg = ev.msg
    BY <1>l, UpsertType DEF ApplyDelete, Journal
  <2>3. \A x : ~Held(x)'
    BY <2>1 DEF Held
  <2>4. ev.msg \notin Kept' \/ ev.msg \notin file'
    BY <2>1 DEF Kept
  <2> QED  BY <2>1, <2>2, <2>3, <2>4, GoneKept
<1>m. CASE RewriteRemove
  BY <1>3, <1>m DEF RewriteRemove, Remove, ghost
<1>n. CASE RewriteDeliver
  <2>1. /\ file' = file \union {ev.msg} /\ Held(ev.msg) /\ journal' = journal
        /\ pc' = "event" /\ failed \subseteq failed'
    BY <1>n DEF RewriteDeliver, Deliver, FinishRecord, db, Held
  <2>2. \A r \in rows' : r \in rows \/ r.exists
    BY <1>n, UpsertType DEF RewriteDeliver, Journal
  <2>3. \A x : ~Held(x)'
    BY <2>1 DEF Held
  <2> QED  BY <2>1, <2>2, <2>3, GoneKept
<1>o. CASE StartReplay
  <2>1. UNCHANGED <<file, failed, journal, rows>> /\ pc' \in {"replay", "clear"}
    BY <1>o DEF StartReplay, disk, db
  <2> QED  BY <1>1, <2>1
<1>p. CASE ReplayDelete
  <2> PICK h \in todo : /\ Remove(h.msg) \/ UNCHANGED disk
                        /\ ReplayNext("replay", todo \ {h}) /\ UNCHANGED <<db, ghost>>
    BY <1>p DEF ReplayDelete
  <2>1. \A x \in file' : x \in file
    BY DEF Remove, disk
  <2> QED  BY <1>4, <2>1 DEF ghost
<1>q. CASE ReplayRemove
  <2> PICK h \in todo : /\ Replaying(h) /\ h.msg \in file /\ Remove(h.msg)
                        /\ ReplayNext("replayRewrite", todo) /\ UNCHANGED <<db, ghost>>
    BY <1>q DEF ReplayRemove
  <2>1. /\ pc' = "replayRewrite" /\ UNCHANGED <<todo, rows, journal, failed>>
        /\ file' \subseteq file
    BY DEF ReplayNext, Remove, db, ghost
  <2>2. ASSUME NEW x, Held(x)' PROVE x \in file
    <3>1. PICK g \in todo : (\A s \in todo : g.hid <= s.hid) /\ g.msg = x
      BY <2>1, <2>2 DEF Held, Head
    <3>2. g = h
      BY <3>1, OneHead DEF Replaying, Head
    <3> QED  BY <3>1, <3>2
  <2> QED  BY <2>1, <2>2, GoneKept
<1>r. CASE ReplayRewrite
  <2> PICK h \in todo : /\ \A s \in todo : h.hid <= s.hid
                        /\ Deliver(h.msg, got) /\ ReplayNext("replay", todo \ {h})
    BY <1>r DEF ReplayRewrite
  <2>1. UNCHANGED <<db, failed>> /\ Held(h.msg)
    BY <1>r DEF ReplayRewrite, Held, Head, ghost
  <2> QED  BY <1>4, <2>1 DEF Deliver
<1>s. CASE ReplayDownload
  <2> PICK h \in todo : /\ h.msg \in live /\ Deliver(h.msg, h.labels)
                        /\ ReplayNext("replay", todo) /\ UNCHANGED <<db, ghost>>
    BY <1>s DEF ReplayDownload
  <2> QED  BY <1>4 DEF Deliver, ghost
<1>t. CASE ReplayFails
  BY <1>1, <1>t DEF ReplayFails, ReplayNext, disk, db, ghost
<1> QED
  BY <1>a, <1>b, <1>c, <1>d, <1>e, <1>f, <1>g, <1>h, <1>i, <1>j, <1>k, <1>l, <1>m, <1>n,
     <1>o, <1>p, <1>q, <1>r, <1>s, <1>t DEF Next, Sync, Apply, Replay

-----------------------------------------------------------------------------
(* The journal is ready to be replayed: a message is accounted for at any  *)
(* row, a replay from the anchor being allowed to end at it, or it has a   *)
(* row beyond the anchor, which every replay from the anchor shows.        *)
RowAhead(m) == \E r \in journal : r.msg = m /\ r.hid > anchor

ReadyInv == ~overshot =>
    /\ \A m \in Followed, j \in journal : Owed(m, file, kw, j.hid) \/ RowAhead(m)
    /\ pc = "deliver" => \A j \in journal : OwedLabels(ev.msg, got, Labels, j.hid)

(* There is no row that a replay could end at.                             *)
LEMMA ReadyInit == Init => ReadyInv
  BY DEF Init, ReadyInv

(* A change of the mailbox is announced above every row.                   *)
LEMMA ReadyGmail ==
    ASSUME ResumeInv, JournalInv, ReadyInv, Gmail
    PROVE  ReadyInv'
<1> USE DEF ResumeInv
<1>1. MailboxNext /\ UNCHANGED <<disk, db, proc, ghost>> /\ MailboxTypeOK
  BY DEF Gmail, TypeInv, TypeOK
<1>2. /\ UNCHANGED <<file, kw, journal, got, pc, anchor, overshot>> /\ Followed' = Followed
      /\ pc = "deliver" => ev' = ev /\ ev.msg \in Msgs /\ Touched(ev.msg)
  <2>1. UNCHANGED <<file, kw, journal, got, pc, pos, anchor, overshot>> /\ Followed' = Followed
    BY <1>1 DEF disk, db, proc, ghost, Followed
  <2>2. pc = "deliver" => Working /\ pos <= maxSeen
    BY DEF Working, TypeInv, Positions
  <2>3. pc = "deliver" => ev' = ev /\ ev.msg \in Msgs /\ Touched(ev.msg)
    BY <1>1, <2>1, <2>2, EvType, RecordsStay DEF ev, MailboxInv, RecordHolds
  <2> QED  BY <2>1, <2>3
<1>3. \A j \in journal : j.hid \in Nat /\ j.hid <= top
  BY <1>1, MailboxAssumption DEF JournalInv, RowFact, MailboxTypeOK
<1>4. ASSUME ~overshot, NEW m \in Followed, NEW j \in journal, ~RowAhead(m)
      PROVE  Owed(m, file, kw, j.hid)'
  <2> PICK F, K, p : F = file /\ K = kw /\ p = j.hid
    OBVIOUS
  <2>1. Owed(m, F, K, p) /\ m \in Msgs /\ (m \in F => Touched(m)) /\ p \in Nat /\ p <= top
    BY <1>3, <1>4 DEF ReadyInv, Followed, AnchorInv
  <2>2. Owed(m, F, K, p)'
    BY <1>1, <2>1, OwedStep
  <2> QED  BY <1>2, <2>2
<1>5. ASSUME ~overshot, pc = "deliver", NEW j \in journal
      PROVE  OwedLabels(ev.msg, got, Labels, j.hid)'
  <2> PICK m, K, p : m = ev.msg /\ K = got /\ p = j.hid
    OBVIOUS
  <2>1. OwedLabels(m, K, Labels, p) /\ m \in Msgs /\ Touched(m) /\ p \in Nat /\ p <= top
    BY <1>2, <1>3, <1>5 DEF ReadyInv
  <2>2. OwedLabels(m, K, Labels, p)'
    BY <1>1, <2>1, OwedLabelsStep
  <2> QED  BY <1>2, <1>5, <2>2
<1> QED
  BY <1>2, <1>4, <1>5 DEF ReadyInv, RowAhead

(* Nothing but the files and labels of some messages has changed, and the  *)
(* anchor has not moved up.                                                *)
LEMMA ReadyKept ==
    ASSUME TypeInv, TypeInv', ReadyInv, UNCHANGED <<mailbox, journal>>,
           failed \subseteq failed', torn \subseteq torn', overshot => overshot',
           overshot' \/ anchor' <= anchor,
           \A m \in Followed' :
               \/ (m \in file <=> m \in file') /\ kw'[m] = kw[m]
               \/ \A j \in journal : ~overshot => Owed(m, file', kw', j.hid) \/ RowAhead(m),
           pc' = "deliver" => \A j \in journal : OwedLabels(ev'.msg, got', Labels, j.hid)
    PROVE  ReadyInv'
<1> SUFFICES ASSUME ~overshot', NEW j \in journal
             PROVE  /\ \A m \in Followed' : (Owed(m, file, kw, j.hid) \/ RowAhead(m))'
                    /\ pc' = "deliver" => OwedLabels(ev.msg, got, Labels, j.hid)'
  BY DEF ReadyInv
<1>1. Followed' \subseteq Followed /\ ~overshot /\ anchor' <= anchor
  BY DEF Followed
<1>2. ASSUME NEW m, RowAhead(m) PROVE RowAhead(m)'
  BY <1>1, <1>2 DEF RowAhead, TypeInv, TypeOK, Row
<1>3. ASSUME NEW m \in Followed', ~RowAhead(m) PROVE Owed(m, file, kw, j.hid)'
  <2> PICK F, K, p : F = file' /\ K = kw' /\ p = j.hid
    OBVIOUS
  <2>1. Owed(m, F, K, p)
    BY <1>1, <1>3, SameMirror DEF ReadyInv
  <2>2. Owed(m, F, K, p)'
    BY <2>1, StillOwed
  <2> QED  BY <2>2
<1>4. ASSUME pc' = "deliver" PROVE OwedLabels(ev.msg, got, Labels, j.hid)'
  <2> PICK m, K, p : m = ev'.msg /\ K = got' /\ p = j.hid
    OBVIOUS
  <2>1. OwedLabels(m, K, Labels, p)'
    BY <1>4, StillOwedLabels
  <2> QED  BY <2>1
<1> QED
  BY <1>2, <1>3, <1>4

(* A record of a message that is not its first, at or below a row: it has  *)
(* a row of its own, unless it changed the labels of a message now gone.   *)
LEMMA RecordHasRow ==
    ASSUME ResumeInv, JournalInv, LogInv, ~overshot, NEW m \in Kept, NEW j \in journal,
           NEW k \in DOMAIN log, log[k].msg = m,
           NEW n \in DOMAIN log, log[n].msg = m, k < n, n <= j.hid
    PROVE  \/ \E r \in journal : r.hid = n /\ r.msg = m
           \/ log[n].op = "labels" /\ m \notin live
<1>1. RowDue(n, journal)
  BY DEF LogInv, Reached
<1>2. log[n].op # "add"
  BY DEF ResumeInv, MailboxInv, RecordHolds
<1>3. \A r \in journal : log[r.hid].msg = r.msg
  BY DEF JournalInv, RowFact
<1> QED
  BY <1>1, <1>2, <1>3 DEF RowDue

(* What is owed at a record of the message is owed as far as the rows go,  *)
(* when none of them is of this message.                                   *)
LEMMA OwedBeyond ==
    ASSUME ResumeInv, JournalInv, LogInv, ~overshot, NEW m \in Kept, NEW j \in journal,
           NEW k \in DOMAIN log, log[k].msg = m, NEW p \in Nat, k <= p,
           \A r \in journal : r.msg = m => ~(p < r.hid /\ r.hid <= j.hid),
           NEW F, NEW K, Owed(m, F, K, p)
    PROVE  Owed(m, F, K, j.hid)
<1>0. DOMAIN log \subseteq Nat /\ j.hid \in Nat
  BY MailboxAssumption DEF ResumeInv, TypeInv, TypeOK, MailboxTypeOK, Row
<1>1. ASSUME NEW n \in Ahead(p), log[n].msg = m
      PROVE  n \in Ahead(j.hid) \/ (log[n].op = "labels" /\ m \notin live)
  <2>1. n \in DOMAIN log /\ p < n /\ k < n /\ n \in Nat
    BY <1>0, <1>1 DEF Ahead
  <2>2. CASE n > j.hid
    BY <2>1, <2>2 DEF Ahead
  <2>3. CASE n <= j.hid
    BY <1>1, <2>1, <2>3, RecordHasRow
  <2> QED  BY <1>0, <2>1, <2>2, <2>3
<1> QED
  BY <1>1 DEF Owed, OwedFile, OwedDelete, OwedLabels, Touches

(* The record being applied, seen from a row: it is beyond it, or, as the  *)
(* deletion of its message, has a row beyond the anchor.                   *)
LEMMA RecordReady ==
    ASSUME ResumeInv, JournalInv, LogInv, ~overshot, Working, pos <= maxSeen,
           ev.op # "delete", ev.msg \in Kept, NEW j \in journal, ~RowAhead(ev.msg)
    PROVE  /\ ev.op = "labels" /\ ev.msg \in live => pos > j.hid
           /\ ev.msg \notin live =>
                  \E d \in Ahead(j.hid) : log[d].msg = ev.msg /\ log[d].op = "delete"
<1> USE DEF ResumeInv
<1>0. DOMAIN log \subseteq Nat /\ j.hid \in Nat /\ pos \in Nat /\ anchor \in Nat /\ anchor < pos
      /\ pos \in DOMAIN log
  BY MailboxAssumption, AtRecord DEF TypeInv, TypeOK, MailboxTypeOK, Row, AnchorInv
<1>1. ASSUME NEW n \in DOMAIN log, pos <= n, n <= j.hid, log[n].msg = ev.msg
      PROVE  log[n].op = "add" \/ (log[n].op = "labels" /\ ev.msg \notin live)
  <2>1. RowDue(n, journal)
    BY <1>1 DEF LogInv, Reached
  <2>2. \A r \in journal : r.hid # n
    BY <1>0, <1>1 DEF JournalInv, RowFact, RowAhead
  <2> QED  BY <1>1, <2>1, <2>2 DEF RowDue
<1>2. ASSUME ev.op = "labels", ev.msg \in live PROVE pos > j.hid
  BY <1>0, <1>1, <1>2 DEF ev
<1>3. ASSUME ev.msg \notin live
      PROVE  \E d \in Ahead(j.hid) : log[d].msg = ev.msg /\ log[d].op = "delete"
  <2>1. PICK d \in Ahead(pos) : log[d].msg = ev.msg /\ log[d].op = "delete"
    BY <1>3, AtRecord DEF RecordHolds, ev
  <2>2. d \in DOMAIN log /\ pos <= d /\ d \in Nat
    BY <1>0, <2>1 DEF Ahead
  <2>3. d > j.hid
    BY <1>0, <1>1, <2>1, <2>2
  <2> QED  BY <2>1, <2>2, <2>3 DEF Ahead
<1> QED
  BY <1>2, <1>3

(* A file written for a record is accounted for at every row, or its       *)
(* message has a row beyond the anchor.                                    *)
LEMMA WrittenReady ==
    ASSUME ResumeInv, JournalInv, LogInv, ~overshot, Working, pos <= maxSeen,
           ev.op # "delete", ev.msg \in Kept, NEW j \in journal,
           NEW L, Deliver(ev.msg, L),
           OwedLabels(ev.msg, L, Labels, j.hid)
    PROVE  Owed(ev.msg, file', kw', j.hid) \/ RowAhead(ev.msg)
<1> SUFFICES ASSUME ~RowAhead(ev.msg) PROVE Owed(ev.msg, file', kw', j.hid)
  OBVIOUS
<1>1. ev.msg \in file' /\ kw'[ev.msg] = L
  BY AtRecord DEF Deliver, ResumeInv, TypeInv, TypeOK
<1> QED
  BY <1>1, RecordReady DEF Owed, OwedFile, OwedDelete

(* Every step on a record keeps the journal ready.                         *)
LEMMA ReadyApply ==
    ASSUME ResumeInv, TypeInv', CoverInv', JournalInv, LogInv, ReadyInv, Apply
    PROVE  ReadyInv'
<1> USE DEF ResumeInv
<1>0. /\ \A op \in {"add", "delete", "labels"} : Applying(op) =>
             Working /\ pos <= maxSeen /\ ev.op = op
      /\ pc \in {"meta", "deliver", "rewrite"} =>
             Working /\ pos <= maxSeen /\ ev.op # "delete"
      /\ pc = "rewrite" => ev.op = "labels"
      /\ anchor \in Nat /\ anchor <= anchor
  BY DEF Applying, Working, TypeInv, TypeOK, Positions
<1>1. ASSUME UNCHANGED <<mailbox, disk, journal, anchor, overshot, torn>>,
             failed \subseteq failed', pc' # "deliver"
      PROVE  ReadyInv'
  BY <1>0, <1>1, ReadyKept DEF disk
<1>2. ASSUME UNCHANGED <<mailbox, journal, anchor, overshot, torn>>,
             failed \subseteq failed', pc' # "deliver",
             \A x \in Msgs \ {ev.msg} : (x \in file <=> x \in file') /\ kw'[x] = kw[x],
             ev.msg \in Followed' => \A j \in journal :
                 ~overshot => Owed(ev.msg, file', kw', j.hid) \/ RowAhead(ev.msg)
      PROVE  ReadyInv'
  <2>1. \A m \in Followed' :
            \/ (m \in file <=> m \in file') /\ kw'[m] = kw[m]
            \/ \A j \in journal : ~overshot => Owed(m, file', kw', j.hid) \/ RowAhead(m)
    BY <1>2 DEF Followed
  <2> QED  BY <1>0, <1>2, <2>1, ReadyKept
<1>3. DOMAIN log \subseteq Nat /\ \A j \in journal : j.hid \in Nat
  <2>1. DOMAIN log \subseteq Nat
    BY MailboxAssumption DEF MailboxInv, MailboxTypeOK
  <2>2. \A j \in journal : j.hid \in Nat
    BY DEF TypeInv, TypeOK, Row
  <2> QED  BY <2>1, <2>2
<1>a. CASE AddPresent \/ BodyGone \/ FetchBody
  BY <1>1, <1>a DEF AddPresent, BodyGone, FetchBody, FinishRecord, Goto, db, ghost
<1>b. CASE FetchMeta
  <2>1. /\ UNCHANGED <<mailbox, disk, journal, ghost>> /\ ev' = ev /\ got' = lab[ev.msg]
    BY <1>b DEF FetchMeta, Goto, ev, mailbox, db
  <2>2. \A j \in journal : OwedLabels(ev'.msg, got', Labels, j.hid)
    BY <2>1 DEF OwedLabels
  <2> QED  BY <1>0, <2>1, <2>2, ReadyKept DEF disk, ghost
<1>c. CASE DownloadFails \/ RewriteFails
  <2>1. /\ UNCHANGED <<mailbox, disk, journal, anchor, overshot, torn>>
        /\ failed \subseteq failed' /\ pc' \in {"idle", "event"}
    BY <1>c DEF DownloadFails, RewriteFails, RecordFails, Stop, FinishRecord, db
  <2> QED  BY <1>1, <2>1
<1>d. CASE DeliverNew
  <2>1. /\ Working /\ pos <= maxSeen /\ ev.op # "delete" /\ Deliver(ev.msg, got)
        /\ UNCHANGED <<mailbox, db, ghost>> /\ pc = "deliver" /\ pc' = "event"
    BY <1>d, <1>0 DEF DeliverNew, FinishRecord, Goto
  <2>2. \A x \in Msgs \ {ev.msg} : (x \in file <=> x \in file') /\ kw'[x] = kw[x]
    BY <2>1, OthersKept DEF TypeInv
  <2>3. ASSUME ev.msg \in Followed', NEW j \in journal, ~overshot
        PROVE  Owed(ev.msg, file', kw', j.hid) \/ RowAhead(ev.msg)
    <3>1. OwedLabels(ev.msg, got, Labels, j.hid) /\ ev.msg \in Kept
      BY <2>1, <2>3 DEF ReadyInv, Followed, Kept, ghost
    <3> QED  BY <2>1, <2>3, <3>1, WrittenReady
  <2> QED  BY <1>2, <2>1, <2>2, <2>3 DEF db, ghost
<1>e. CASE ApplyDelete
  <2>1. /\ Working /\ pos <= maxSeen /\ ev.op = "delete" /\ failed \subseteq failed'
        /\ UNCHANGED <<mailbox, db, anchor, overshot, torn>> /\ pc' = "event"
    BY <1>e, <1>0 DEF ApplyDelete, FinishRecord
  <2>2. CASE Remove(ev.msg)
    <3>1. ev.msg \notin live /\ ev.msg \notin file'
      BY <2>1, <2>2, AtRecord DEF RecordHolds, ev, Remove
    <3>2. \A j \in journal : Owed(ev.msg, file', kw', j.hid)
      BY <3>1, NothingOwed
    <3> QED  BY <1>2, <2>1, <2>2, <3>2, OthersKept DEF TypeInv, db
  <2>3. CASE UNCHANGED disk
    BY <1>1, <2>1, <2>3 DEF db
  <2> QED  BY <1>e, <2>2, <2>3 DEF ApplyDelete
<1>f. CASE RewriteRemove
  <2>1. /\ Working /\ pos <= maxSeen /\ ev.op = "labels" /\ Remove(ev.msg)
        /\ UNCHANGED <<mailbox, db, ghost>> /\ pc' = "rewrite"
    BY <1>f, <1>0 DEF RewriteRemove, Goto
  <2>2. ASSUME ev.msg \in Followed', NEW j \in journal, ~overshot, ~RowAhead(ev.msg)
        PROVE  Owed(ev.msg, file', kw', j.hid)
    <3>1. ev.msg \in Kept /\ ev.msg \notin file' /\ pos \in DOMAIN log
      BY <2>1, <2>2, AtRecord DEF Followed, Kept, ghost, Remove
    <3>2. ev.msg \in live => pos \in Ahead(j.hid)
      BY <2>1, <2>2, <3>1, RecordReady DEF Ahead
    <3> QED  BY <2>1, <3>1, <3>2 DEF Owed, OwedFile, OwedDelete, ev
  <2> QED  BY <1>2, <2>1, <2>2, OthersKept DEF TypeInv, db, ghost
<1>g. CASE RewriteDeliver
  <2>1. /\ Working /\ pos <= maxSeen /\ ev.op = "labels" /\ Deliver(ev.msg, got)
        /\ UNCHANGED <<mailbox, db, anchor, overshot, torn>> /\ pc' = "event" /\ Working'
        /\ failed \subseteq failed' /\ (pos' = pos \/ pos' = pos + 1)
    BY <1>g, <1>0 DEF RewriteDeliver, FinishRecord, Working
  <2>2. ASSUME ev.msg \in Followed', NEW j \in journal, ~overshot, ~RowAhead(ev.msg)
        PROVE  Owed(ev.msg, file', kw', j.hid)
    <3>0. ev.msg \in Kept /\ pos \in Nat /\ ev.msg \in file' /\ kw'[ev.msg] = got
      BY <2>1, <2>2, AtRecord DEF Followed, Kept, Deliver, TypeInv, TypeOK
    <3>1. OwedLabels(ev.msg, got, Labels, j.hid)
      <4> SUFFICES ASSUME ev.msg \in live PROVE OwedLabels(ev.msg, got, Labels, j.hid)
        BY DEF OwedLabels
      <4>1. pos > j.hid
        BY <2>1, <2>2, <3>0, RecordReady
      <4>2. Owed(ev.msg, file', kw', pos' - 1)
        <5> PICK m, F, K, p : m = ev.msg /\ F = file' /\ K = kw' /\ p = pos' - 1
          OBVIOUS
        <5>1. Owed(m, F, K, p)'
          BY <2>1, <2>2 DEF CoverInv, Covered, Applied
        <5> QED  BY <2>1, <5>1 DEF Owed, OwedFile, OwedDelete, OwedLabels, Touches, Ahead, mailbox
      <4>3. \A n \in Ahead(pos' - 1) : n \in Ahead(j.hid)
        BY <1>3, <2>1, <3>0, <4>1 DEF Ahead
      <4> QED  BY <3>0, <4>2, <4>3 DEF Owed, OwedLabels
    <3> QED  BY <2>1, <2>2, <3>0, <3>1, WrittenReady
  <2> QED  BY <1>2, <2>1, <2>2, OthersKept DEF TypeInv, db
<1> QED
  BY <1>a, <1>b, <1>c, <1>d, <1>e, <1>f, <1>g DEF Apply

(* A page committed moves the anchor up to it; what is then owed to a      *)
(* message at a row beyond is what was owed before, or a later row is of   *)
(* this message.                                                           *)
LEMMA ReadyCommit ==
    ASSUME ResumeInv, JournalInv, LogInv, ReadyInv, CommitPage
    PROVE  ReadyInv'
<1> USE DEF ResumeInv
<1>0. /\ maxSeen \in Nat /\ anchor \in Nat /\ MailboxTypeOK
      /\ \A r \in journal \union rows : r.hid \in Nat
  BY DEF TypeInv, TypeOK, Row
<1>1. /\ UNCHANGED <<mailbox, disk, failed, torn, overshot>> /\ anchor' = maxSeen
      /\ journal' = Upsert(journal, rows) /\ pc' # "deliver" /\ Applied = maxSeen
      /\ Followed' = Followed
  <2>1. pos \in Nat /\ pos - 1 = maxSeen
    BY <1>0, MailboxAssumption DEF CommitPage, TypeInv, TypeOK, Positions, Working
  <2> QED  BY <2>1 DEF CommitPage, Applied, Working, Followed
<1>2. \A r \in rows : r.hid <= maxSeen
  BY <1>0, MailboxAssumption
  DEF CommitPage, JournalInv, RowPlace, AnchorInv, TypeInv, TypeOK, Positions
<1>3. \A r \in journal : r.hid > maxSeen => r \in journal'
  BY <1>0, <1>1, <1>2 DEF Upsert, SameKey
<1>4. ASSUME ~overshot, NEW m \in Followed, NEW j \in journal',
             \A r \in journal' : r.msg = m => ~(r.hid > maxSeen)
      PROVE  Owed(m, file, kw, j.hid)
  <2>1. Owed(m, file, kw, maxSeen) /\ m \in Kept
    BY <1>1, <1>4 DEF CoverInv, Covered, Followed, Kept
  <2>2. j \in journal \/ j \in rows
    BY <1>1, UpsertType
  <2>3. CASE j.hid <= maxSeen
    <3>1. Covered({m}, file, kw, maxSeen)
      BY <2>1 DEF Covered
    <3>2. Covered({m}, file, kw, j.hid)
      BY <1>0, <2>2, <2>3, <3>1, OwedEarlier
    <3> QED  BY <3>2 DEF Covered
  <2>4. CASE j.hid > maxSeen /\ RowAhead(m)
    <3>1. j \in journal
      BY <1>0, <1>2, <2>2, <2>4
    <3>2. PICK r \in journal : r.msg = m /\ r.hid > anchor
      BY <2>4 DEF RowAhead
    <3>3. r.hid <= maxSeen
      BY <1>0, <1>3, <1>4, <3>2
    <3>4. r.hid \in DOMAIN log /\ log[r.hid].msg = m
      BY <3>2 DEF JournalInv, RowFact
    <3>5. \A q \in journal : q.msg = m => ~(maxSeen < q.hid /\ q.hid <= j.hid)
      BY <1>0, <1>3, <1>4
    <3> QED  BY <1>0, <1>4, <2>1, <3>1, <3>3, <3>4, <3>5, OwedBeyond
  <2>5. CASE j.hid > maxSeen /\ ~RowAhead(m)
    <3>1. j \in journal
      BY <1>0, <1>2, <2>2, <2>5
    <3> QED  BY <1>4, <2>5, <3>1 DEF ReadyInv
  <2> QED  BY <1>0, <2>2, <2>3, <2>4, <2>5
<1>5. ASSUME ~overshot, NEW m \in Followed, NEW j \in journal', ~RowAhead(m)'
      PROVE  Owed(m, file, kw, j.hid)'
  <2> PICK F, K, p : F = file /\ K = kw /\ p = j.hid
    OBVIOUS
  <2>1. Owed(m, F, K, p)
    BY <1>1, <1>4, <1>5 DEF RowAhead
  <2>2. Owed(m, F, K, p)'
    BY <1>1, <2>1, StillOwed
  <2> QED  BY <1>1, <2>2 DEF disk
<1> QED
  BY <1>1, <1>5 DEF ReadyInv

(* A replay that ends accounts for the mirror at its last row: for a       *)
(* message with rows by the last of them, for another by the journal's     *)
(* readiness.                                                              *)
LEMMA ReplayCovers ==
    ASSUME ResumeInv, JournalInv, LogInv, GoneInv, ReadyInv, ReplayInv, ReplayDone, ~overshot
    PROVE  /\ Covered(Followed', file, kw, maxSeen)
           /\ \A j \in journal : j.hid <= maxSeen
<1> USE DEF ResumeInv
<1> DEFINE R == RowsFrom(cursor)
<1>0. /\ maxSeen \in Nat /\ anchor \in Nat /\ cursor \in Nat /\ cursor <= anchor
      /\ \A r \in journal : r.hid \in Nat
  BY DEF TypeInv, TypeOK, Row, AnchorInv, ReplayDone
<1>1. /\ pc = "replay" /\ todo = {} /\ torn' = torn \ Of(R) /\ failed' = failed
  BY DEF ReplayDone
<1>2. /\ Of(R) \subseteq torn /\ \A r \in R : r.hid <= maxSeen
      /\ \A m \in Of(Done) \intersect Kept : Shown(m)
  BY <1>1 DEF ReplayInv
<1>3. PICK last \in R : maxSeen = last.hid
  BY <1>1 DEF ReplayInv
<1>4. last \in journal /\ \A j \in journal : j.hid >= cursor => j \in R
  BY DEF RowsFrom
<1>5. \A j \in journal : j.hid <= maxSeen
  BY <1>0, <1>2, <1>3, <1>4 DEF RowsFrom
<1>6. ASSUME NEW m \in Kept, m \in Of(R) PROVE Owed(m, file, kw, maxSeen)
  <2>1. Done = R
    BY <1>1 DEF Done
  <2>2. PICK r \in R : /\ r.msg = m /\ \A s \in R : s.msg = m => s.hid <= r.hid
                       /\ r.exists => m \in file /\ kw[m] = r.labels
    BY <1>1, <1>2, <1>6, <2>1 DEF Shown
  <2>3. /\ r \in journal /\ r.hid >= cursor /\ RowFact(r) /\ RowOwed(r, Labels)
        /\ r.hid \in DOMAIN log /\ log[r.hid].msg = m
    BY <2>2 DEF RowsFrom, JournalInv, RowFact
  <2>4. CASE r.exists
    <3>1. Owed(m, file, kw, r.hid)
      BY <2>2, <2>3, <2>4, FileThere DEF RowFact, RowOwed
    <3>2. \A q \in journal : q.msg = m => ~(r.hid < q.hid /\ q.hid <= last.hid)
      BY <1>0, <1>4, <2>2, <2>3
    <3> QED  BY <1>0, <1>3, <1>4, <2>3, <3>1, <3>2, OwedBeyond
  <2>5. CASE ~r.exists
    <3>1. m \notin live /\ m \notin file
      BY <2>2, <2>3, <2>5 DEF RowFact, MailboxInv, RecordHolds, GoneInv
    <3> QED  BY <3>1, NothingOwed
  <2> QED  BY <2>4, <2>5
<1>7. ASSUME NEW m \in Followed, m \notin Of(R) PROVE Owed(m, file, kw, maxSeen)
  <2>1. ~RowAhead(m)
    BY <1>0, <1>4, <1>7 DEF RowAhead, Of
  <2> QED  BY <1>3, <1>4, <2>1 DEF ReadyInv
<1>8. ASSUME NEW m \in Followed' PROVE Owed(m, file, kw, maxSeen)
  <2>1. m \in Kept /\ (m \in Of(R) \/ m \in Followed)
    BY <1>1 DEF Followed, Kept
  <2> QED  BY <1>6, <1>7, <2>1
<1> QED
  BY <1>5, <1>8 DEF Covered

(* A step of a replay at a row touches the file of the row's message only, *)
(* which is not followed until the replay ends.                            *)
LEMMA ReplayRow ==
    ASSUME ResumeInv, JournalInv, ReplayInv, pc \in {"replay", "replayRewrite"},
           NEW h \in todo, NEW T, NEW p \in {"replay", "replayRewrite"}, ReplayNext(p, T),
           UNCHANGED <<mailbox, db, ghost>>,
           Remove(h.msg) \/ UNCHANGED disk \/ \E L : Deliver(h.msg, L)
    PROVE  /\ AnchorInv' /\ CoverInv'
           /\ \A m \in Followed' : (m \in file <=> m \in file') /\ kw'[m] = kw[m]
<1> USE DEF ResumeInv
<1>1. /\ h \in journal /\ h.msg \in torn
      /\ kw \in [Msgs -> SUBSET Labels]
  BY DEF ReplayInv, RowsFrom, Of, TypeInv, TypeOK
<1>2. Touched(h.msg)
  BY <1>1 DEF JournalInv, RowFact, Touched
<1>3. /\ UNCHANGED <<anchor, progress, ptoken, committed, overshot, cursor, half>> /\ pc' = p
      /\ Followed' = Followed /\ ~half /\ ~Working /\ ~Working'
      /\ Applied' = anchor /\ Applied = anchor
  BY DEF ReplayNext, db, ghost, Followed, Working, Applied, AnchorInv
<1>4. /\ \A x \in file' : x \in file \/ x = h.msg
      /\ \A x \in Msgs \ {h.msg} : (x \in file <=> x \in file') /\ kw'[x] = kw[x]
  BY <1>1 DEF Remove, Deliver, disk
<1>5. \A m \in Followed' : m \in Msgs /\ m # h.msg
  BY <1>1, <1>3 DEF Followed
<1>6. AnchorInv'
  BY <1>2, <1>3, <1>4, StillInv DEF AnchorInv
<1>7. ASSUME ~overshot PROVE Covered(Followed', file', kw', Applied')
  <2> SUFFICES ASSUME NEW m \in Followed' PROVE Owed(m, file', kw', Applied')
    BY DEF Covered
  <2>1. Owed(m, file, kw, Applied)
    BY <1>3, <1>7 DEF CoverInv, Covered
  <2> QED  BY <1>3, <1>4, <1>5, <2>1, SameMirror
<1>8. CoverInv'
  BY <1>3, <1>7, CoversNext DEF CoverInv
<1> QED
  BY <1>4, <1>5, <1>6, <1>8

(* The steps of a replay at its rows.                                      *)
ReplayAtRow == ReplayDelete \/ ReplayRemove \/ ReplayRewrite \/ ReplayDownload

(* Such a step writes at most the file of a row still to be replayed.      *)
LEMMA AtRow ==
    ASSUME ReplayAtRow
    PROVE  /\ pc \in {"replay", "replayRewrite"} /\ UNCHANGED <<mailbox, db, ghost>>
           /\ \E h \in todo, p \in {"replay", "replayRewrite"}, T \in SUBSET todo :
                  /\ ReplayNext(p, T)
                  /\ Remove(h.msg) \/ UNCHANGED disk \/ \E L : Deliver(h.msg, L)
<1>1. CASE ReplayDelete
  <2> PICK h \in todo : /\ Replaying(h) /\ (Remove(h.msg) \/ UNCHANGED disk)
                        /\ ReplayNext("replay", todo \ {h})
                        /\ UNCHANGED <<mailbox, db, ghost>>
    BY <1>1 DEF ReplayDelete
  <2>1. todo \ {h} \in SUBSET todo
    OBVIOUS
  <2> QED  BY <2>1 DEF Replaying
<1>2. CASE ReplayRemove
  BY <1>2 DEF ReplayRemove, Replaying
<1>3. CASE ReplayRewrite
  <2> PICK h \in todo : Deliver(h.msg, got) /\ ReplayNext("replay", todo \ {h})
    BY <1>3 DEF ReplayRewrite
  <2>1. todo \ {h} \in SUBSET todo
    OBVIOUS
  <2> QED  BY <1>3, <2>1 DEF ReplayRewrite
<1>4. CASE ReplayDownload
  BY <1>4 DEF ReplayDownload, Replaying
<1> QED
  BY <1>1, <1>2, <1>3, <1>4 DEF ReplayAtRow

(* Every step of a replay and of the fallback keeps the mirror accounted   *)
(* for.                                                                    *)
LEMMA ResumeReplay ==
    ASSUME ResumeInv, JournalInv, LogInv, GoneInv, ReadyInv, ReplayInv, Replay
    PROVE  AnchorInv' /\ CoverInv'
<1> USE DEF ResumeInv
<1>0. anchor \in Nat /\ maxSeen \in Nat /\ anchor <= Applied
  BY AnchorBehind DEF TypeInv, TypeOK
<1>1. CASE StartReplay \/ ReplayFails
  <2>1. /\ UNCHANGED <<mailbox, disk, db, anchor, overshot, failed, cursor, half>>
        /\ torn \subseteq torn' /\ pc' \in {"replay", "clear"} /\ ~half
        /\ cursor <= anchor
    BY <1>1
    DEF StartReplay, ReplayFails, ReplayNext, Replaying, ghost, AnchorInv, Working
  <2>2. ~Working' /\ Applied' = anchor' /\ (overshot => overshot') /\ ~half' /\ anchor' \in Nat
    BY <1>0, <2>1 DEF Working, Applied
  <2>3. AnchorInv'
    BY <2>1, <2>2, StillInv DEF AnchorInv, disk, db
  <2>4. CoverInv'
    BY <1>0, <2>1, <2>2, SettledCovers
  <2> QED  BY <2>3, <2>4
<1>2. CASE ReplayAtRow
  BY <1>2, AtRow, ReplayRow
<1>3. CASE ReplayDone
  <2>1. /\ UNCHANGED <<mailbox, disk, overshot>> /\ pc' = "idle" /\ ~half' /\ anchor' = maxSeen
        /\ committed' = anchor' /\ progress' = 0
    BY <1>3 DEF ReplayDone, CommitCursor, Stop
  <2>2. ~Working' /\ Applied' = maxSeen
    BY <2>1 DEF Working, Applied
  <2>3. AnchorInv'
    BY <2>1, <2>2, StillInv DEF AnchorInv, disk
  <2>4. ~overshot => Covered(Followed, file, kw, Applied)'
    BY <1>3, <2>1, <2>2, ReplayCovers, CoversNext DEF disk
  <2>5. CoverInv'
    BY <2>1, <2>4 DEF CoverInv
  <2> QED  BY <2>3, <2>5
<1>4. CASE Clear
  <2>1. /\ UNCHANGED <<mailbox, disk, overshot, anchor, failed, torn>> /\ pc' = "idle"
        /\ ~half' /\ committed' = 0 /\ progress' = 0
    BY <1>4 DEF Clear, Stop, ghost
  <2>2. ~Working' /\ Applied' = anchor'
    BY <2>1 DEF Working, Applied
  <2>3. AnchorInv'
    BY <2>1, <2>2, StillInv DEF AnchorInv, disk
  <2>4. CoverInv'
    BY <1>0, <2>1, <2>2, SettledCovers
  <2> QED  BY <2>3, <2>4
<1> QED
  BY <1>1, <1>2, <1>3, <1>4 DEF Replay, ReplayAtRow

(* A replay and the fallback add no row, and move the anchor to one.       *)
LEMMA RowsReplay ==
    ASSUME ResumeInv, JournalInv, LogInv, ReplayInv, TypeInv', Replay
    PROVE  JournalInv' /\ LogInv'
<1> USE DEF ResumeInv
<1>0. rows = {} /\ anchor \in Nat /\ anchor' \in Nat
  BY NoRows
  DEF Replay, StartReplay, ReplayDelete, ReplayRemove, ReplayRewrite, ReplayDownload,
      ReplayFails, ReplayDone, Clear, Replaying, Working, TypeInv, TypeOK
<1>1. /\ UNCHANGED <<mailbox, journal, failed, overshot>> /\ rows' = {} /\ ~Working'
  <2>1. CASE ReplayAtRow
    <3>1. UNCHANGED <<mailbox, journal, failed, overshot>>
      BY <2>1, AtRow DEF db, ghost
    <3>2. PICK p \in {"replay", "replayRewrite"}, T \in SUBSET todo : ReplayNext(p, T)
      BY <2>1, AtRow
    <3> QED  BY <1>0, <3>1, <3>2 DEF ReplayNext, Working
  <2>2. CASE StartReplay \/ ReplayFails \/ ReplayDone \/ Clear
    BY <1>0, <2>2
    DEF StartReplay, ReplayFails, ReplayNext, ReplayDone, CommitCursor, Clear, Stop, Working,
        db, ghost
  <2> QED  BY <2>1, <2>2 DEF Replay, ReplayAtRow
<1>2. anchor' <= anchor \/ \E j \in journal : anchor' <= j.hid
  <2>1. CASE ReplayDone
    <3>1. anchor' = maxSeen /\ \E r \in RowsFrom(cursor) : maxSeen = r.hid
      BY <2>1 DEF ReplayDone, CommitCursor, ReplayInv
    <3>2. PICK r \in journal : anchor' = r.hid
      BY <3>1 DEF RowsFrom
    <3> QED  BY <1>0, <3>2
  <2>2. CASE ~ReplayDone
    <3>1. anchor' = anchor
      BY <2>2, AtRow DEF Replay, ReplayAtRow, StartReplay, ReplayFails, Clear, ghost
    <3> QED  BY <1>0, <3>1
  <2> QED  BY <2>1, <2>2
<1> QED
  BY <1>0, <1>1, <1>2, JournalAlone, LogSettled

(* A replay keeps the journal ready for another one.                       *)
LEMMA ReadyReplay ==
    ASSUME ResumeInv, JournalInv, LogInv, GoneInv, ReadyInv, ReplayInv, TypeInv', Replay
    PROVE  ReadyInv'
<1> USE DEF ResumeInv
<1>0. anchor \in Nat /\ maxSeen \in Nat /\ MailboxTypeOK /\ \A j \in journal : j.hid \in Nat
  BY DEF TypeInv, TypeOK, Row
<1>1. CASE StartReplay \/ ReplayFails \/ Clear
  <2>1. /\ UNCHANGED <<mailbox, disk, journal, anchor, failed, overshot>>
        /\ torn \subseteq torn' /\ pc' # "deliver"
    BY <1>1 DEF StartReplay, ReplayFails, ReplayNext, Clear, Stop, db, ghost
  <2> QED  BY <1>0, <2>1, ReadyKept DEF disk
<1>2. CASE ReplayAtRow
  <2>1. UNCHANGED <<mailbox, journal, anchor, failed, torn, overshot>>
    BY <1>2, AtRow DEF db, ghost
  <2>2. /\ \A m \in Followed' : (m \in file <=> m \in file') /\ kw'[m] = kw[m]
        /\ pc' # "deliver"
    BY <1>2, AtRow, ReplayRow DEF ReplayNext
  <2> QED  BY <1>0, <2>1, <2>2, ReadyKept
<1>3. CASE ReplayDone
  <2>1. /\ UNCHANGED <<mailbox, disk, journal, overshot>> /\ pc' = "idle"
    BY <1>3 DEF ReplayDone, Stop
  <2>2. ASSUME ~overshot, NEW m \in Followed', NEW j \in journal
        PROVE  Owed(m, file, kw, j.hid)'
    <3> PICK F, K, p : F = file /\ K = kw /\ p = j.hid
      OBVIOUS
    <3>1. Covered(Followed', file, kw, j.hid)
      BY <1>0, <1>3, <2>2, ReplayCovers, OwedEarlier
    <3>2. Owed(m, F, K, p)
      BY <3>1 DEF Covered
    <3>3. Owed(m, F, K, p)'
      BY <2>1, <3>2, StillOwed
    <3> QED  BY <2>1, <3>3 DEF disk
  <2> QED  BY <2>1, <2>2 DEF ReadyInv
<1> QED
  BY <1>1, <1>2, <1>3 DEF Replay, ReplayAtRow

-----------------------------------------------------------------------------
(* The inductive invariant: the mirror is accounted for at the records     *)
(* applied, each journal row is right up to its own record, the journal is *)
(* complete and ready to be replayed, and so is a replay that is under     *)
(* way.                                                                    *)
HistInv ==
    /\ ResumeInv
    /\ JournalInv
    /\ LogInv
    /\ GoneInv
    /\ ReadyInv
    /\ ReplayInv

(* The first state: no journal, no process.                                *)
LEMMA HistInit == Init => HistInv
<1> SUFFICES ASSUME Init PROVE HistInv
  OBVIOUS
<1>1. ReplayInv
  BY DEF Init, ReplayInv
<1> QED
  BY <1>1, ResumeInit, JournalInit, LogInit, GoneInit, ReadyInit DEF HistInv

(* Nothing happens to the mirror, the database or the process.             *)
LEMMA HistStutter ==
    ASSUME HistInv, UNCHANGED vars
    PROVE  AnchorInv' /\ CoverInv' /\ JournalInv' /\ LogInv' /\ ReadyInv'
<1> USE DEF HistInv
<1>1. /\ UNCHANGED <<mailbox, disk, db, proc, ghost>> /\ Followed' = Followed
      /\ Kept' = Kept /\ Working' = Working /\ ev' = ev
  BY DEF vars, mailbox, proc, ghost, Followed, Kept, Working, ev
<1>2. AnchorInv' /\ CoverInv'
  BY <1>1
  DEF ResumeInv, Touched, Touches, Ahead, AnchorInv, CoverInv, Applied, Pending, Removing,
      After, Covered, Owed, OwedFile, OwedDelete, OwedLabels, mailbox, disk, db, proc, ghost
<1>3. ASSUME NEW r \in rows PROVE RowPlace(r)' /\ RowFact(r)' /\ RowOwed(r, Settled(r))'
  <2>1. RowFact(r) /\ RowPlace(r) /\ RowOwed(r, Settled(r))
    BY <1>3 DEF JournalInv
  <2> PICK LS : LS = Settled(r)
    OBVIOUS
  <2>2. RowFact(r)' /\ RowOwed(r, LS)'
    BY <1>1, <2>1, RowKept DEF ghost
  <2>3. Settled(r)' = LS /\ RowPlace(r)'
    BY <1>1, <2>1 DEF Settled, RowPlace, mailbox, disk, proc
  <2> QED  BY <2>2, <2>3
<1>4. JournalInv'
  BY <1>1, <1>3, RowKept DEF JournalInv, db, proc, ghost
<1>5. LogInv'
  BY <1>1 DEF LogInv, Reached, RowDue, mailbox, db, proc, ghost
<1>6. ReadyInv'
  <2>1. ASSUME ~overshot, NEW m \in Followed, NEW j \in journal, ~RowAhead(m)'
        PROVE  Owed(m, file, kw, j.hid)'
    <3> PICK F, K, p : F = file /\ K = kw /\ p = j.hid
      OBVIOUS
    <3>1. Owed(m, F, K, p)
      BY <1>1, <2>1 DEF ReadyInv, RowAhead, db, ghost
    <3> QED  BY <1>1, <3>1, StillOwed DEF disk
  <2>2. ASSUME ~overshot, pc = "deliver", NEW j \in journal
        PROVE  OwedLabels(ev.msg, got, Labels, j.hid)'
    <3> PICK m, K, p : m = ev.msg /\ K = got /\ p = j.hid
      OBVIOUS
    <3>1. OwedLabels(m, K, Labels, p)
      BY <2>2 DEF ReadyInv
    <3> QED  BY <1>1, <3>1 DEF OwedLabels, Touches, Ahead, mailbox, proc
  <2> QED  BY <1>1, <2>1, <2>2 DEF ReadyInv, db, proc, ghost
<1> QED
  BY <1>2, <1>4, <1>5, <1>6

(* A run that starts, the end of a sync and a kill: outside of a page.     *)
LEMMA HistAlone ==
    ASSUME HistInv, TypeInv', Run \/ Commit \/ Abort
    PROVE  LogInv' /\ ReadyInv'
<1> USE DEF HistInv, ResumeInv
<1>1. /\ UNCHANGED <<mailbox, disk, journal, failed, torn>> /\ (overshot => overshot')
      /\ pc' \in {"idle", "fetch"}
      /\ anchor' \in Nat /\ anchor \in Nat /\ (overshot' \/ anchor' <= anchor)
  <2>0. anchor \in Nat /\ anchor' \in Nat /\ (pc = "commit" => maxSeen = anchor)
    BY DEF TypeInv, TypeOK, AnchorInv
  <2>1. CASE StartResume \/ Abort
    BY <2>0, <2>1 DEF StartResume, Begin, Abort, Stop, ghost, db
  <2>2. CASE \E c \in Nat : BeginAt(c)
    <3> PICK c \in Nat : BeginAt(c)
      BY <2>2
    <3>1. overshot' = (overshot \/ c > anchor) /\ anchor' = c
      BY DEF BeginAt
    <3>2. c > anchor \/ c <= anchor
      BY <2>0
    <3>3. (overshot => overshot') /\ (overshot' \/ anchor' <= anchor)
      BY <3>1, <3>2, Zenon
    <3> QED  BY <2>0, <3>3 DEF BeginAt, Begin
  <2>3. CASE StartOverride
    BY <2>2, <2>3, HistoryAssumption DEF StartOverride
  <2>4. CASE StartBootstrap
    BY <2>2, <2>4, MailboxAssumption DEF StartBootstrap
  <2>5. CASE Commit
    BY <2>0, <2>5 DEF Commit, CommitCursor, Stop
  <2> QED  BY <2>1, <2>3, <2>4, <2>5 DEF Run
<1>2. ~Working' /\ pc' # "deliver"
  BY <1>1 DEF Working
<1> QED
  BY <1>1, <1>2, LogSettled, ReadyKept DEF disk

(* Every step of the specification keeps the invariant.                    *)
LEMMA HistStep ==
    ASSUME HistInv, [Next]_vars
    PROVE  HistInv'
<1> USE DEF HistInv
<1>1. /\ TypeInv' /\ ReplayInv' /\ GoneInv'
  BY TypeStep, ReplayStep, GoneStep DEF ResumeInv
<1>2. CASE Gmail
  BY <1>1, <1>2, ResumeGmail, JournalGmail, LogGmail, ReadyGmail
<1>3. CASE UNCHANGED mailbox
  <2>1. MailboxInv'
    BY <1>3, StillInv DEF ResumeInv
  <2>2. CASE UNCHANGED vars
    BY <1>1, <2>1, <2>2, HistStutter DEF ResumeInv
  <2>3. CASE Run \/ Commit \/ Abort
    BY <1>1, <2>1, <2>3, ResumeRun, ResumePages, JournalPages, HistAlone DEF ResumeInv
  <2>4. CASE FetchPage
    <3>1. ReadyInv'
      BY <1>1, <2>4, ReadyKept DEF FetchPage, ResumeInv, TypeInv, TypeOK, disk, db, ghost
    <3> QED  BY <1>1, <2>1, <2>4, <3>1, ResumePages, JournalPages, LogPages DEF ResumeInv
  <2>5. CASE CommitPage
    BY <1>1, <2>1, <2>5, ResumePages, JournalPages, LogPages, ReadyCommit DEF ResumeInv
  <2>6. CASE Apply
    <3>1. AnchorInv' /\ CoverInv'
      BY <2>6, ResumeApply
    <3> QED  BY <1>1, <2>1, <2>6, <3>1, JournalApply, LogApply, ReadyApply DEF ResumeInv
  <2>7. CASE Replay
    BY <1>1, <2>1, <2>7, ResumeReplay, RowsReplay, ReadyReplay DEF ResumeInv
  <2>8. CASE Gmail
    BY <1>2, <2>8
  <2> QED  BY <2>2, <2>3, <2>4, <2>5, <2>6, <2>7, <2>8 DEF Next, Sync
<1>4. Gmail \/ UNCHANGED mailbox
  BY AtRow
  DEF Next, Run, StartResume, StartOverride, StartBootstrap, BeginAt, Sync, FetchPage,
      CommitPage, Commit, Abort, Apply, AddPresent, FetchBody, BodyGone, FetchMeta,
      DownloadFails, DeliverNew, ApplyDelete, RewriteRemove, RewriteDeliver, RewriteFails,
      Replay, ReplayAtRow, StartReplay, ReplayFails, ReplayDone, Clear, vars
<1> QED
  BY <1>2, <1>3, <1>4

-----------------------------------------------------------------------------
(* Nothing that was not applied is left behind the durable cursor: at      *)
(* every kill, error or change of the mailbox, with a log that expires at  *)
(* any moment, the next run finds above the position it resumes from a     *)
(* record for each difference between mirror and mailbox.                  *)
THEOREM ResumeCoveredTheorem == Spec => []ResumeCovered
<1>1. HistInv => ResumeCovered
  <2> SUFFICES ASSUME ResumeInv, ~overshot PROVE Covered(Followed, file, kw, anchor)
    BY DEF ResumeCovered, HistInv
  <2>1. Covered(Followed, file, kw, Applied) /\ MailboxTypeOK /\ Applied \in Nat
    BY MailboxAssumption
    DEF ResumeInv, CoverInv, Applied, Working, TypeInv, TypeOK, Positions, Position,
        MailboxTypeOK
  <2> QED  BY <2>1, AnchorBehind, OwedEarlier
<1> QED
  BY <1>1, HistInit, HistStep, PTL DEF Spec

(* A sync that has committed the mailbox's current history id has made the *)
(* mirror the mailbox, be it by applying records or by replaying rows.     *)
THEOREM InSyncTheorem == Spec => []InSync
<1>1. HistInv => InSync
  <2> SUFFICES ASSUME ResumeInv, pc = "idle", progress = 0, committed = top, ~overshot
               PROVE  ExactMirror(Followed, file, kw)
    BY DEF InSync, HistInv
  <2> USE DEF ResumeInv
  <2>1. MailboxTypeOK /\ kw \in [Msgs -> SUBSET Labels] /\ Followed \in SUBSET Msgs
    BY DEF TypeInv, TypeOK, Followed
  <2>2. anchor = top
    BY <2>1, MailboxAssumption DEF AnchorInv, MailboxTypeOK
  <2>3. Covered(Followed, file, kw, top)
    BY <2>2 DEF CoverInv, Applied, Working
  <2>4. \A m \in Followed \intersect live : m \in file /\ kw[m] = lab[m]
    BY <2>1, <2>3, CoveredAtTop
  <2>5. Ahead(top) = {}
    BY <2>1, MailboxAssumption DEF Ahead, MailboxTypeOK
  <2>6. \A m \in Followed : m \in file => m \in live
    BY <2>3, <2>5 DEF Covered, Owed, OwedDelete
  <2> QED  BY <2>4, <2>6 DEF ExactMirror
<1> QED
  BY <1>1, HistInit, HistStep, PTL DEF Spec

(* A journal row never disagrees with the mailbox about a change at or     *)
(* before its own record, even when its labels were downloaded later than  *)
(* the record or after other records of the page.                          *)
THEOREM JournalCoveredTheorem == Spec => []JournalCovered
<1>1. HistInv => JournalCovered
  <2> SUFFICES ASSUME ResumeInv, JournalInv, NEW r \in journal, r.msg \in Followed, ~overshot
               PROVE  IF r.exists
                      THEN /\ OwedLabels(r.msg, r.labels, Labels, r.hid)
                           /\ OwedDelete(r.msg, {r.msg}, r.hid)
                      ELSE r.msg \notin live
    BY DEF JournalCovered, HistInv
  <2>1. RowFact(r) /\ RowOwed(r, Labels) /\ r.msg \in Kept
    BY DEF JournalInv, Followed, Kept
  <2>2. RecordHolds(r.hid)
    BY <2>1 DEF RowFact, ResumeInv, MailboxInv
  <2> QED  BY <2>1, <2>2 DEF RowFact, RowOwed, RecordHolds, OwedDelete
<1> QED
  BY <1>1, HistInit, HistStep, PTL DEF Spec

(* A replay that ends accounts for the mirror at the cursor it commits,    *)
(* the last row's, whatever earlier runs left of the files it rewrote, and *)
(* for the messages without a row as well.                                 *)
THEOREM ReplayConvergesTheorem == Spec => ReplayConverges
<1>1. ASSUME HistInv PROVE ReplayDone /\ ~overshot => Covered(Followed', file, kw, maxSeen)
  BY <1>1, ReplayCovers DEF HistInv
<1>2. HistInv => [ReplayDone /\ ~overshot => Covered(Followed', file, kw, maxSeen)]_vars
  BY <1>1
<1> QED
  BY <1>2, HistInit, HistStep, PTL DEF Spec, ReplayConverges
=============================================================================
