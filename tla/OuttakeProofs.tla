--------------------------- MODULE OuttakeProofs ---------------------------
(***************************************************************************)
(* What the three stages leave to each other: from an empty maildir on,    *)
(* also when the log expires, rows are replayed and the history state is   *)
(* cleared, the mirror is accounted for by the cursor of the next run.     *)
(***************************************************************************)
EXTENDS Outtake, MailboxProofs, FiniteSetTheorems, WellFoundedInduction

TypeInv ==
    /\ rows \in Seq(Msgs) /\ below \in 0 .. Beyond
    /\ ckpt \in 0 .. Len(rows)
    /\ pc = "archive" => at \in ckpt .. Len(rows)
    /\ file \subseteq Msgs /\ kw \in [Msgs -> SUBSET Labels]
    /\ {progress, committed, cursor, last, listedAt} \subseteq 0 .. top
    /\ at \in Nat /\ late \in BOOLEAN

(* The last row of its message, and what a replay of it leaves.            *)
IsLast(n) == \A k \in Rows : journal[k].msg = journal[n].msg => k <= n

Shown(n) ==
    IF journal[n].exists
    THEN journal[n].msg \in file /\ kw[journal[n].msg] = journal[n].labels
    ELSE journal[n].msg \notin file

(* A replay goes through the rows in order; a message whose last row it    *)
(* has passed is as that row says.                                         *)
Replayed ==
    /\ todo \subseteq Rows /\ Rows # {}
    /\ \A n \in Rows : journal[n].msg \in torn
    /\ \A n \in Rows \ todo : (\A k \in todo : n < k) /\ (IsLast(n) => Shown(n))
    /\ pc = "rewrite" => \A n \in todo : NextRow(n) => journal[n].exists

(* A run of History is at the durable position, and its page has rows of   *)
(* records it has gone through.                                            *)
PlaceInv ==
    /\ pc \in {"fetch", "apply", "replay", "rewrite", "clear"} =>
           Resumable /\ cursor = Position
    /\ pc \in {"replay", "rewrite"} => Replayed
    /\ pc = "apply" => cursor <= at /\ at <= last
    /\ pc = "apply" => \A n \in DOMAIN jrows : cursor < n /\ n <= at
    /\ pc = "commit" => progress = last /\ last # 0
    /\ pc \notin {"apply", "commit"} => DOMAIN jrows = {}
    /\ Resumable => Position >= Base
    /\ \A m \in file : Touched(m)

(* A message that exists is listed, comes on a later page, or arrived      *)
(* after the first one.                                                    *)
ListedOrLater(m) ==
    \/ \E i \in DOMAIN rows : rows[i] = m
    \/ m < below
    \/ \E n \in Ahead(listedAt) : log[n].msg = m /\ log[n].op = "add"

ListingInv ==
    /\ below = Beyond => rows = <<>> /\ file = {}
    /\ \A m \in live : ListedOrLater(m)
    /\ \A i \in DOMAIN rows : Touched(rows[i])
    /\ pc \notin {"idle", "list"} \/ Resumable => below = 0
    /\ Resumable \/ pc \in {"history", "fetch", "apply", "commit"} => ckpt = Len(rows)

(* A row says of what kind its record was; its labels are right up to      *)
(* later records.                                                          *)
RowFact(n, r) ==
    /\ n \in DOMAIN log /\ r.msg = log[n].msg /\ r.labels \subseteq Labels
    /\ r.exists <=> log[n].op # "delete"
    /\ r.exists /\ ~late /\ r.msg \notin Unparseable => OwedLabels(r.msg, r.labels, Labels, n)

(* Each record has a row unless it added its message, or changed the       *)
(* labels of one that is gone or does not parse.                           *)
RowDue(n, D) ==
    \/ log[n].op = "add"
    \/ log[n].op = "labels" /\ log[n].msg \notin Readable
    \/ n \in D

JournalInv ==
    /\ \A n \in DOMAIN journal : RowFact(n, journal[n])
    /\ \A n \in DOMAIN jrows : RowFact(n, jrows[n])
    /\ pc = "apply" =>
           \A n \in DOMAIN log : cursor < n /\ n <= at => RowDue(n, DOMAIN jrows)

(* The rows that Downloading-Archived has gone through.                    *)
Behind == IF pc = "archive" THEN at ELSE ckpt

(* Before the first bootstrap the files are those of the rows gone         *)
(* through, and right up to changes made after the first page.             *)
FreshInv ==
    /\ ~Resumable /\ DOMAIN journal = {} /\ torn = {}
    /\ \A i \in 1 .. Behind : rows[i] \in file \/ rows[i] \notin Readable
    /\ \A m \in file : /\ OwedLabels(m, kw[m], Labels, listedAt)
                       /\ OwedDelete(m, file, listedAt)

(* The records up to here have been applied to the files.                  *)
Applied == IF pc = "apply" THEN at ELSE Position

(* A bootstrap that is in time finds c, whenever it is done.               *)
Origin(c) ==
    /\ rows # <<>>
    /\ \A k \in Base .. top : HistoryIdOf(rows[1], k) /\ k <= listedAt => k = c

(* The records up to these have been journaled.                            *)
Reached(n) == n <= Position \/ \E j \in DOMAIN journal : n <= j

RowAhead(m) == \E r \in DOMAIN journal : journal[r].msg = m /\ r > Position

(* Where History stands or, when its state was cleared, will start again.  *)
From(c) == IF Resumable THEN Applied ELSE c

(* A replay that was cut off leaves the cursor where it was, below what    *)
(* the log still has: nothing but another replay, of all these messages,   *)
(* brings the cursor up again.                                             *)
TornInv(c) ==
    /\ torn # {} => /\ c < floor /\ (Resumable => Position < floor)
                   /\ pc \notin {"apply", "commit"}
    /\ \A m \in torn :
          \E n \in DOMAIN journal : journal[n].msg = m /\ (Resumable => Position <= n)

(* Once c was bootstrapped: every record above it that was reached has a   *)
(* row if it needs one, each row is a place to replay up to, and the       *)
(* mirror is accounted for.                                                *)
BootedInv(c) ==
    /\ Origin(c) /\ below = 0 /\ ckpt = Len(rows)
    /\ Resumable => c <= Position
    /\ \A n \in DOMAIN journal : c < n
    /\ \A n \in DOMAIN log : c < n /\ Reached(n) => RowDue(n, DOMAIN journal)
    /\ \A m \in Followed, j \in DOMAIN journal : Owed(m, file, kw, j) \/ RowAhead(m)
    /\ Covered(Followed, file, kw, From(c))
    /\ TornInv(c)

BootInv == ~late => FreshInv \/ \E c \in Base .. top : BootedInv(c)

OuttakeInv ==
    MailboxInv /\ TypeInv /\ PlaceInv /\ ListingInv /\ JournalInv /\ BootInv

(* The messages are the numbers up to N.                                   *)
LEMMA Numbers ==
    \E N \in Nat : Msgs = 1 .. N /\ Beyond = N + 1 /\ IsFiniteSet(Msgs)
<1>1. Cardinality(Msgs) \in Nat
  BY OuttakeAssumption, FS_CardinalityType
<1> QED
  BY <1>1, OuttakeAssumption DEF Beyond

(* What the types say in plain terms.                                      *)
LEMMA Typed ==
    ASSUME MailboxTypeOK, TypeInv
    PROVE  /\ top \in Nat /\ Base \in Nat /\ Base # 0 /\ top >= Base
           /\ DOMAIN log = Base + 1 .. top
           /\ ckpt \in Nat /\ Len(rows) \in Nat /\ ckpt <= Len(rows)
           /\ DOMAIN rows = 1 .. Len(rows)
           /\ \A i \in 1 .. Len(rows) : rows[i] \in Msgs
           /\ progress \in Nat /\ committed \in Nat /\ cursor \in Nat /\ last \in Nat
           /\ listedAt \in Nat /\ at \in Nat
           /\ progress <= top /\ committed <= top /\ cursor <= top /\ last <= top
           /\ listedAt <= top
           /\ Position \in Nat /\ Position <= top
  BY MailboxAssumption DEF MailboxTypeOK, TypeInv, Position

(* Nothing is there at the start.                                          *)
LEMMA InitInv == Init => OuttakeInv
<1> SUFFICES ASSUME Init PROVE OuttakeInv
  OBVIOUS
<1>1. MailboxInv /\ MailboxTypeOK
  BY MailboxInitInv DEF Init, MailboxInv
<1> PICK N \in Nat : Msgs = 1 .. N /\ Beyond = N + 1
  BY Numbers
<1>2. top \in Nat /\ Base \in Nat
  BY <1>1, MailboxAssumption DEF MailboxTypeOK
<1>3. TypeInv
  <2>1. rows = <<>> /\ rows \in Seq(Msgs) /\ Len(rows) = 0
    BY DEF Init
  <2>2. kw \in [Msgs -> SUBSET Labels] /\ file \subseteq Msgs
    BY DEF Init
  <2>3. below \in 0 .. Beyond /\ ckpt = 0 /\ pc = "idle" /\ at = 0 /\ late = FALSE
    BY DEF Init
  <2>4. progress = 0 /\ committed = 0 /\ cursor = 0 /\ last = 0 /\ listedAt = 0
    BY DEF Init
  <2>5. {progress, committed, cursor, last, listedAt} \subseteq 0 .. top
    BY <1>2, <2>4
  <2>6. ckpt \in 0 .. Len(rows) /\ (pc = "archive" => at \in ckpt .. Len(rows))
    BY <2>1, <2>3
  <2>7. at \in Nat /\ late \in BOOLEAN
    BY <2>3
  <2> QED  BY <2>1, <2>2, <2>3, <2>5, <2>6, <2>7 DEF TypeInv
<1>4. ~Resumable
  BY DEF Init, Resumable
<1>5. DOMAIN journal = {} /\ DOMAIN jrows = {}
  BY DEF Init, NoRows
<1>6. PlaceInv
  BY <1>4, <1>5 DEF Init, PlaceInv
<1>7. ListingInv
  <2>1. \A m \in live : m < below
    BY <1>1 DEF Init, MailboxTypeOK
  <2> QED  BY <1>4, <2>1 DEF Init, ListingInv, ListedOrLater
<1>8. JournalInv
  BY <1>5 DEF Init, JournalInv
<1>9. BootInv
  BY <1>4, <1>5 DEF Init, BootInv, FreshInv, Behind, Readable
<1> QED
  BY <1>1, <1>3, <1>6, <1>7, <1>8, <1>9 DEF OuttakeInv

-----------------------------------------------------------------------------
(* A record of a message that is not its first has a row, or changed the   *)
(* labels of a message now gone; so what is owed at one record is owed as  *)
(* far as the journal goes, if it has no row of this message on the way.   *)
LEMMA OwedBeyond ==
    ASSUME MailboxInv, NEW D, NEW p \in Nat, NEW q \in Nat, p <= q,
           \A n \in DOMAIN log : p < n /\ n <= q => RowDue(n, D),
           NEW m, NEW k \in DOMAIN log, log[k].msg = m, k <= p,
           \A n \in D : p < n /\ n <= q => log[n].msg # m, m \notin Unparseable,
           NEW F, NEW K, Owed(m, F, K, p)
    PROVE  Owed(m, F, K, q)
<1>0. DOMAIN log \subseteq Nat
  BY MailboxAssumption DEF MailboxInv, MailboxTypeOK
<1>1. ASSUME NEW n \in Ahead(p), log[n].msg = m
      PROVE  n \in Ahead(q) \/ (log[n].op = "labels" /\ m \notin live)
  <2>1. n \in DOMAIN log /\ p < n /\ k < n /\ n \in Nat
    BY <1>0, <1>1 DEF Ahead
  <2>2. CASE n > q
    BY <2>1, <2>2 DEF Ahead
  <2>3. CASE n <= q
    <3>1. RowDue(n, D) /\ n \notin D
      BY <1>1, <2>1, <2>3
    <3>2. log[n].op # "add"
      BY <1>1, <2>1 DEF MailboxInv, RecordHolds
    <3> QED  BY <1>1, <3>1, <3>2 DEF RowDue, Readable
  <2> QED  BY <2>1, <2>2, <2>3
<1> QED
  BY <1>1 DEF Owed, OwedFile, OwedDelete, OwedLabels, Touches

(* There is one history id of a message.                                   *)
LEMMA OneHistoryId ==
    ASSUME MailboxTypeOK, NEW m, NEW c \in Base .. top, NEW k \in Base .. top,
           HistoryIdOf(m, c), HistoryIdOf(m, k)
    PROVE  c = k
  BY MailboxAssumption DEF HistoryIdOf, Ahead, MailboxTypeOK

-----------------------------------------------------------------------------
(* A change of the mailbox leaves what was done so far as it is.           *)
LEMMA GmailFrame ==
    ASSUME OuttakeInv, Gmail
    PROVE  /\ MailboxTypeOK /\ MailboxTypeOK' /\ MailboxNext /\ MailboxInv'
           /\ \A n \in DOMAIN log : n \in DOMAIN log' /\ log'[n] = log[n] /\ n <= top
           /\ \A n \in DOMAIN log' \ DOMAIN log : n > top
           /\ \A n \in DOMAIN log : log[n].msg \notin live => log[n].msg \notin live'
           /\ top' >= top
           /\ \A m : Touched(m) => Touched(m)'
           /\ UNCHANGED <<rows, below, listedAt, ckpt, file, kw, progress, committed, journal,
                          pc, fallback, at, cursor, last, jrows, todo, late, torn>>
           /\ floor' >= floor
           /\ (Resumable' <=> Resumable) /\ Position' = Position /\ Applied' = Applied
           /\ Behind' = Behind
           /\ Position \in Nat /\ Position <= top /\ Applied \in Nat /\ Applied <= top
<1> USE DEF OuttakeInv
<1>1. MailboxNext /\ MailboxTypeOK
      /\ UNCHANGED <<listing, ckpt, disk, db, pc, run, late, owed, torn>>
  BY DEF Gmail, Arrive, MailboxNext, MailboxInv
<1>2. MailboxInv' /\ MailboxTypeOK'
  BY <1>1, MailboxInvStep DEF MailboxInv
<1>3. /\ \A n \in DOMAIN log : n \in DOMAIN log' /\ log'[n] = log[n]
      /\ \A n \in DOMAIN log' \ DOMAIN log : n > top
      /\ \A n \in DOMAIN log : log[n].msg \notin live => log[n].msg \notin live'
  BY <1>1, RecordsStay
<1>4. top' >= top /\ floor' >= floor
  <2>1. top \in Nat /\ floor \in Nat
    BY <1>1, Typed DEF MailboxTypeOK
  <2> QED
    BY <1>1, <2>1
    DEF MailboxNext, NewMessage, DeleteMessage, ModifyLabels, Expire, LogRecord
<1>5. \A m : Touched(m) => Touched(m)'
  BY <1>3 DEF Touched
<1>6. \A n \in DOMAIN log : n <= top
  BY <1>1, Typed
<1>7. UNCHANGED <<rows, below, listedAt, ckpt, file, kw, progress, committed, journal,
                  pc, fallback, at, cursor, last, jrows, todo, late, torn>>
  BY <1>1 DEF listing, disk, db, run
<1>8. (Resumable' <=> Resumable) /\ Position' = Position /\ Applied' = Applied
      /\ Behind' = Behind
  BY <1>7 DEF Resumable, Position, Applied, Behind
<1>9. Position \in Nat /\ Position <= top /\ Applied \in Nat /\ Applied <= top
  BY <1>1, Typed DEF Applied, PlaceInv
<1> QED
  BY <1>1, <1>2, <1>3, <1>4, <1>5, <1>6, <1>7, <1>8, <1>9

(* The listing is as complete as before: a message that arrives now has a  *)
(* record above listedAt.                                                  *)
LEMMA GmailListing ==
    ASSUME OuttakeInv, Gmail
    PROVE  ListingInv'
<1> USE DEF OuttakeInv
<1>1. ASSUME NEW m \in live' PROVE ListedOrLater(m)'
  <2>1. CASE m \in live
    <3>1. ListedOrLater(m)
      BY <2>1 DEF ListingInv
    <3>2. \A n \in Ahead(listedAt) : n \in Ahead(listedAt)' /\ log'[n] = log[n]
      BY GmailFrame DEF Ahead
    <3> QED  BY GmailFrame, <3>1, <3>2 DEF ListedOrLater
  <2>2. CASE m \notin live
    <3>1. PICK L \in SUBSET Labels : NewMessage(m, L) /\ m \in Msgs
      <4>1. MailboxNext
        BY GmailFrame
      <4> QED
        BY <4>1, <2>2 DEF MailboxNext, NewMessage, DeleteMessage, ModifyLabels, Expire
    <3> DEFINE r == [op |-> "add", msg |-> m, ladd |-> {}, lrem |-> {}]
    <3>2. r \in Records /\ LogRecord(r)
      BY <3>1 DEF NewMessage, Records
    <3> PICK t \in Nat : t = top + 1
      BY GmailFrame, Typed
    <3>3. t \in DOMAIN log' /\ log'[t] = r /\ t > listedAt
      BY GmailFrame, <3>2, AppendExtends, Typed
    <3>4. t \in Ahead(listedAt)'
      BY GmailFrame, <3>3 DEF Ahead
    <3> QED  BY <3>3, <3>4 DEF ListedOrLater
  <2> QED  BY <2>1, <2>2
<1> QED
  BY <1>1, GmailFrame DEF ListingInv

(* A row stays right up to later records.                                  *)
LEMMA GmailRow ==
    ASSUME OuttakeInv, Gmail, NEW n, NEW r, RowFact(n, r)
    PROVE  RowFact(n, r)'
<1> USE DEF OuttakeInv
<1>1. n \in DOMAIN log' /\ log'[n] = log[n] /\ late' = late /\ file' = file
  BY GmailFrame DEF RowFact
<1>2. ASSUME r.exists, ~late, r.msg \notin Unparseable
      PROVE  OwedLabels(r.msg, r.labels, Labels, n)'
  <2> PICK m, L : m = r.msg /\ L = r.labels
    OBVIOUS
  <2>1. n \in Nat /\ n <= top /\ m \in Msgs /\ Touched(m) /\ MailboxNext
    <3>1. log[n] \in Records /\ n \in Nat
      BY GmailFrame, Typed DEF RowFact, MailboxTypeOK
    <3> QED  BY <3>1, GmailFrame DEF RowFact, Touched, Records
  <2>2. OwedLabels(m, L, Labels, n)
    BY <1>2 DEF RowFact
  <2>3. OwedLabels(m, L, Labels, n)'
    BY <2>1, <2>2, OwedLabelsStep
  <2> QED  BY <2>3
<1> QED
  BY <1>1, <1>2 DEF RowFact

(* The journal stays true and complete: the new record is above all that   *)
(* was reached.                                                            *)
LEMMA GmailDue ==
    ASSUME OuttakeInv, Gmail, NEW n \in DOMAIN log', NEW q \in Nat, q <= top, n <= q
    PROVE  n \in DOMAIN log /\ \A D : RowDue(n, D) => RowDue(n, D)'
<1>1. n \in DOMAIN log
  <2>1. DOMAIN log' \subseteq Nat /\ top \in Nat
    BY GmailFrame, MailboxAssumption DEF MailboxTypeOK
  <2> QED  BY <2>1, GmailFrame
<1> QED
  BY <1>1, GmailFrame DEF RowDue, Readable

(* All rows together, and those that the page still has to note.           *)
LEMMA GmailJournal ==
    ASSUME OuttakeInv, Gmail
    PROVE  JournalInv'
<1> USE DEF OuttakeInv
<1>1. \A n \in DOMAIN journal' : RowFact(n, journal[n])'
  <2> SUFFICES ASSUME NEW n \in DOMAIN journal' PROVE RowFact(n, journal[n])'
    OBVIOUS
  <2> PICK r : r = journal[n]
    OBVIOUS
  <2>1. n \in DOMAIN journal /\ journal'[n] = r
    BY GmailFrame
  <2>2. RowFact(n, r)'
    BY <2>1, GmailRow DEF JournalInv
  <2> QED  BY <2>1, <2>2
<1>2. \A n \in DOMAIN jrows' : RowFact(n, jrows[n])'
  <2> SUFFICES ASSUME NEW n \in DOMAIN jrows' PROVE RowFact(n, jrows[n])'
    OBVIOUS
  <2> PICK r : r = jrows[n]
    OBVIOUS
  <2>1. n \in DOMAIN jrows /\ jrows'[n] = r
    BY GmailFrame
  <2>2. RowFact(n, r)'
    BY <2>1, GmailRow DEF JournalInv
  <2> QED  BY <2>1, <2>2
<1>3. ASSUME pc' = "apply", NEW n \in DOMAIN log', cursor < n, n <= at
      PROVE  RowDue(n, DOMAIN jrows)'
  <2> PICK D : D = DOMAIN jrows
    OBVIOUS
  <2>1. pc = "apply" /\ at \in Nat /\ at <= top
    BY GmailFrame, <1>3, Typed DEF PlaceInv
  <2>2. n \in DOMAIN log /\ RowDue(n, D)
    BY <1>3, <2>1, GmailDue DEF JournalInv
  <2>3. RowDue(n, D)'
    BY <1>3, <2>1, <2>2, GmailDue
  <2>4. DOMAIN jrows' = D
    BY GmailFrame
  <2> QED  BY <2>3, <2>4
<1> QED
  BY <1>1, <1>2, <1>3, GmailFrame DEF JournalInv

(* A change of the mailbox is announced by a record above every position,  *)
(* also above listedAt: it is in time for any stage.                       *)
LEMMA GmailFresh ==
    ASSUME OuttakeInv, Gmail, FreshInv
    PROVE  FreshInv'
<1> USE DEF OuttakeInv
<1>1. ASSUME NEW i \in 1 .. Behind, rows[i] \notin Readable PROVE rows[i] \notin Readable'
  <2>1. Touched(rows[i])
    <3>1. i \in DOMAIN rows
      BY GmailFrame, Typed DEF Behind, TypeInv
    <3> QED  BY <3>1 DEF ListingInv
  <2>2. MailboxNext
    BY GmailFrame
  <2> QED
    BY <1>1, <2>1, <2>2
    DEF Readable, MailboxNext, NewMessage, DeleteMessage, ModifyLabels, Expire
<1>2. ASSUME NEW m \in file
      PROVE  OwedLabels(m, kw[m], Labels, listedAt)' /\ OwedDelete(m, file, listedAt)'
  <2>1. /\ OwedLabels(m, kw[m], Labels, listedAt) /\ OwedDelete(m, file, listedAt)
        /\ Touched(m) /\ m \in Msgs
    BY DEF FreshInv, PlaceInv, TypeInv
  <2> PICK p \in Nat : p = listedAt /\ p <= top
    BY GmailFrame, Typed
  <2> PICK K, F : K = kw[m] /\ F = file
    OBVIOUS
  <2>2. OwedLabels(m, K, Labels, p)' /\ OwedDelete(m, F, p)'
    BY GmailFrame, <2>1, OwedLabelsStep, OwedDeleteStep
  <2>3. kw'[m] = K /\ file' = F /\ listedAt' = p
    BY GmailFrame
  <2> QED  BY <2>2, <2>3
<1> QED
  BY GmailFrame, <1>1, <1>2 DEF FreshInv

(* What was owed to a message at a position stays so.                      *)
LEMMA GmailOwed ==
    ASSUME OuttakeInv, Gmail, NEW p \in Nat, p <= top, NEW m \in Msgs, Owed(m, file, kw, p)
    PROVE  Owed(m, file, kw, p)'
<1> PICK K, F : K = kw /\ F = file
  OBVIOUS
<1>1. Owed(m, F, K, p) /\ (m \in F => Touched(m)) /\ MailboxInv
  BY DEF OuttakeInv, PlaceInv
<1>2. Owed(m, F, K, p)'
  BY GmailFrame, <1>1, OwedStep
<1>3. file' = F /\ kw' = K
  BY GmailFrame
<1> QED
  BY <1>2, <1>3

(* The same from the bootstrap on: what was owed stays owed, and a         *)
(* bootstrap in time would find the same cursor as before.                 *)
LEMMA GmailBooted ==
    ASSUME OuttakeInv, Gmail, NEW c \in Base .. top, BootedInv(c)
    PROVE  BootedInv(c)'
<1> USE DEF OuttakeInv
<1>0. Base \in Nat /\ top \in Nat /\ c \in Nat /\ listedAt \in Nat /\ listedAt <= top
      /\ top' \in Nat
  BY GmailFrame, Typed DEF MailboxTypeOK
<1>1. Origin(c)'
  <2> SUFFICES ASSUME NEW k \in Base .. top', HistoryIdOf(rows[1], k)', k <= listedAt
               PROVE  k = c
    BY GmailFrame DEF BootedInv, Origin
  <2>1. k \in Base .. top
    BY <1>0
  <2>2. HistoryIdOf(rows[1], k)
    <3> PICK m : m = rows[1]
      OBVIOUS
    <3>1. HistoryIdOf(m, k)' /\ k <= top
      BY <1>0, GmailFrame
    <3>2. \A n \in Ahead(k) : n \in Ahead(k)' /\ log'[n] = log[n]
      BY GmailFrame DEF Ahead
    <3>3. k \in DOMAIN log' => k \in DOMAIN log /\ log'[k] = log[k]
      BY <3>1, <1>0, GmailFrame
    <3> QED  BY <3>1, <3>2, <3>3 DEF HistoryIdOf
  <2> QED  BY <2>1, <2>2 DEF BootedInv, Origin
<1>2. \A j \in DOMAIN journal : j \in Nat /\ j <= top
  BY GmailFrame, Typed DEF JournalInv, RowFact
<1>3. ASSUME NEW n \in DOMAIN log', c < n, Reached(n)'
      PROVE  RowDue(n, DOMAIN journal)'
  <2> PICK D : D = DOMAIN journal
    OBVIOUS
  <2>1. Reached(n) /\ DOMAIN journal' = D
    BY <1>3, GmailFrame DEF Reached
  <2>2. PICK q \in Nat : q <= top /\ n <= q
    BY <2>1, <1>2, GmailFrame DEF Reached
  <2>3. n \in DOMAIN log
    BY <2>2, GmailDue
  <2>4. RowDue(n, D)
    BY <1>3, <2>1, <2>3 DEF BootedInv
  <2>5. RowDue(n, D)'
    BY <2>2, <2>4, GmailDue
  <2> QED  BY <2>1, <2>5
<1>4. ASSUME NEW m \in Followed, NEW j \in DOMAIN journal'
      PROVE  Owed(m, file, kw, j)' \/ RowAhead(m)'
  <2>1. j \in DOMAIN journal /\ m \in Msgs
    BY GmailFrame DEF Followed
  <2>2. CASE RowAhead(m)
    BY <2>2, GmailFrame DEF RowAhead
  <2>3. CASE Owed(m, file, kw, j)
    BY <1>2, <2>1, <2>3, GmailOwed
  <2> QED  BY <2>1, <2>2, <2>3 DEF BootedInv
<1>5. Covered(Followed, file, kw, From(c))'
  <2> PICK p \in Nat : p = From(c) /\ p <= top
    BY <1>0, GmailFrame DEF From
  <2>1. \A m \in Followed : Owed(m, file, kw, p)'
    BY GmailOwed DEF BootedInv, Covered, Followed
  <2>2. From(c)' = p /\ Followed' = Followed
    BY GmailFrame DEF From, Followed
  <2> QED  BY <2>1, <2>2 DEF Covered
<1>6. TornInv(c)'
  <2>1. floor \in Nat /\ floor' \in Nat /\ Position \in Nat
    BY GmailFrame, Typed DEF MailboxTypeOK
  <2> QED  BY <1>0, <2>1, GmailFrame DEF BootedInv, TornInv
<1>7. Followed' = Followed
  BY GmailFrame DEF Followed
<1> QED
  BY <1>1, <1>3, <1>4, <1>5, <1>6, <1>7, GmailFrame DEF BootedInv

(* A change of the mailbox keeps the invariant.                            *)
LEMMA GmailStep ==
    ASSUME OuttakeInv, Gmail
    PROVE  OuttakeInv'
<1> USE DEF OuttakeInv
<1>1. TypeInv'
  <2>1. {progress, committed, cursor, last, listedAt} \subseteq 0 .. top'
    BY GmailFrame, Typed DEF MailboxTypeOK
  <2> QED  BY <2>1, GmailFrame DEF TypeInv
<1>2. PlaceInv'
  <2>1. Replayed' <=> Replayed
    BY GmailFrame DEF Replayed, Rows, IsLast, Shown, NextRow
  <2> QED  BY <2>1, GmailFrame DEF PlaceInv
<1>3. BootInv'
  <2> SUFFICES ASSUME ~late PROVE BootInv'
    BY GmailFrame DEF BootInv
  <2>1. \A c \in Base .. top : c \in Base .. top'
    BY GmailFrame, Typed DEF MailboxTypeOK
  <2> QED  BY <2>1, GmailFresh, GmailBooted DEF BootInv
<1> QED
  BY GmailFrame, GmailListing, GmailJournal, <1>1, <1>2, <1>3

-----------------------------------------------------------------------------
(* A step that leaves the listing, the files and the journal alone, and    *)
(* keeps its position or goes back to where it was bootstrapped.           *)
LEMMA BootedStill ==
    ASSUME OuttakeInv, UNCHANGED <<mailbox, rows, below, listedAt, file, kw, journal>>,
           torn \subseteq torn', ckpt' = Len(rows), NEW c \in Base .. top, BootedInv(c),
           Position' \in Nat, Position' = Position \/ Position' <= c,
           Resumable' => c <= Position', From(c)' \in Nat, From(c)' <= From(c), TornInv(c)'
    PROVE  BootedInv(c)'
<1> USE DEF OuttakeInv
<1>0. /\ UNCHANGED <<top, log, live, lab>> /\ MailboxTypeOK /\ Position \in Nat /\ c \in Nat
      /\ DOMAIN log \subseteq Nat /\ \A n \in DOMAIN journal : n \in DOMAIN log
      /\ From(c) \in Nat
  <2>1. MailboxTypeOK
    BY DEF MailboxInv
  <2>2. Position \in Nat /\ Base \in Nat /\ top \in Nat /\ DOMAIN log \subseteq Nat
    BY <2>1, Typed
  <2>3. \A n \in DOMAIN journal : n \in DOMAIN log
    BY DEF JournalInv, RowFact
  <2>4. From(c) \in Nat
    BY <2>1, <2>2, Typed DEF From, Applied
  <2> QED  BY <2>1, <2>2, <2>3, <2>4 DEF mailbox
<1>1. Origin(c)'
  BY <1>0 DEF BootedInv, Origin, HistoryIdOf, Ahead
<1>2. ASSUME NEW n \in DOMAIN log, c < n, Reached(n)' PROVE RowDue(n, DOMAIN journal)'
  <2>1. Reached(n)
    BY <1>0, <1>2 DEF Reached
  <2> QED  BY <1>0, <1>2, <2>1 DEF BootedInv, RowDue, Readable
<1>3. ASSUME NEW m, RowAhead(m) PROVE RowAhead(m)'
  <2>1. \A r \in DOMAIN journal : c < r /\ r \in Nat
    BY <1>0 DEF BootedInv
  <2> QED  BY <1>0, <1>3, <2>1 DEF RowAhead
<1>a. Followed' \subseteq Followed
  BY DEF Followed
<1>4. ASSUME NEW m \in Followed, NEW j \in DOMAIN journal
      PROVE  Owed(m, file, kw, j)' \/ RowAhead(m)'
  <2>1. CASE Owed(m, file, kw, j)
    <3> PICK F, K : F = file /\ K = kw
      OBVIOUS
    <3>1. Owed(m, F, K, j)'
      BY <2>1, StillOwed
    <3> QED  BY <3>1
  <2> QED  BY <1>3, <2>1 DEF BootedInv
<1>5. Covered(Followed, file, kw, From(c))'
  <2> PICK F, K, p, q : F = file /\ K = kw /\ p = From(c) /\ q = From(c)'
    OBVIOUS
  <2>1. Covered(Followed, F, K, q)
    BY <1>0, OwedEarlier DEF BootedInv
  <2>2. \A m \in Followed : Owed(m, F, K, q)'
    BY <2>1, StillOwed DEF Covered
  <2>3. F = file' /\ K = kw' /\ q = From(c)'
    OBVIOUS
  <2> QED  BY <1>a, <2>2, <2>3 DEF Covered
<1> QED
  BY <1>0, <1>1, <1>2, <1>a, <1>4, <1>5 DEF BootedInv

(* The rows of the journal stay true whatever becomes of the files.        *)
LEMMA RowsKept ==
    ASSUME OuttakeInv, UNCHANGED <<mailbox, journal>>, late => late',
           DOMAIN jrows' = {}, cursor' \in Nat, pc' = "apply" => at' = cursor'
    PROVE  JournalInv'
<1> USE DEF OuttakeInv
<1>1. ASSUME NEW n \in DOMAIN journal PROVE RowFact(n, journal[n])'
  <2> PICK r : r = journal[n]
    OBVIOUS
  <2>1. RowFact(n, r)
    BY DEF JournalInv
  <2>2. OwedLabels(r.msg, r.labels, Labels, n) => OwedLabels(r.msg, r.labels, Labels, n)'
    BY DEF OwedLabels, Ahead, Touches, mailbox
  <2>3. RowFact(n, r)'
    BY <2>1, <2>2 DEF RowFact, mailbox
  <2> QED  BY <2>3
<1>2. pc' = "apply" => \A n \in DOMAIN log' : ~(cursor' < n /\ n <= at')
  <2>1. DOMAIN log' \subseteq Nat
    BY MailboxAssumption DEF MailboxInv, MailboxTypeOK, mailbox
  <2> QED  BY <2>1
<1> QED
  BY <1>1, <1>2 DEF JournalInv

(* A step that leaves the listing, the files, the journal and the position *)
(* alone, and goes back to records already applied or stays.               *)
LEMMA QuietStep ==
    ASSUME OuttakeInv, UNCHANGED <<mailbox, listing, disk, journal, late, torn>>,
           Resumable' <=> Resumable, Position' = Position,
           pc' \notin {"replay", "rewrite"}, pc' = "apply" => ~(Position < floor),
           Resumable => Applied' \in Nat /\ Applied' <= Applied,
           ~Resumable => Behind' <= Behind,
           pc' \notin {"idle", "list"} => below = 0,
           Resumable \/ pc' \in {"history", "fetch", "apply", "commit"} => ckpt' = Len(rows),
           ckpt' \in 0 .. Len(rows), ckpt' >= ckpt,
           pc' = "archive" => at' \in ckpt' .. Len(rows),
           {progress', committed', cursor', last'} \subseteq 0 .. top, at' \in Nat,
           pc' \in {"fetch", "apply", "clear"} => Resumable /\ cursor' = Position,
           pc' = "apply" => at' = cursor' /\ at' <= last',
           pc' # "commit", DOMAIN jrows' = {}
    PROVE  OuttakeInv'
<1> USE DEF OuttakeInv
<1>0. MailboxTypeOK
  BY DEF MailboxInv
<1>1. MailboxInv' /\ \A m : Touched(m)' <=> Touched(m)
  BY StillInv
<1>2. /\ UNCHANGED <<rows, below, listedAt, file, kw, late, journal>>
      /\ UNCHANGED <<top, log, live, lab>>
  BY DEF listing, disk, mailbox
<1>3. TypeInv'
  <2>1. {progress', committed', cursor', last', listedAt'} \subseteq 0 .. top'
    BY <1>2 DEF TypeInv
  <2> QED  BY <1>2, <2>1 DEF TypeInv
<1>4. PlaceInv'
  <2>1. pc' = "apply" => cursor' <= at'
    BY DEF TypeInv
  <2> QED  BY <1>1, <1>2, <2>1 DEF PlaceInv
<1>5. ListingInv'
  BY <1>1, <1>2 DEF ListingInv, ListedOrLater, Ahead
<1>6. JournalInv'
  <2>1. cursor' \in Nat
    BY <1>0, Typed
  <2> QED  BY <1>2, <2>1, RowsKept
<1>7. ASSUME FreshInv PROVE FreshInv'
  <2>1. ASSUME NEW i \in 1 .. Behind' PROVE rows[i] \in file \/ rows[i] \notin Readable
    <3>1. Behind \in Nat /\ Behind' <= Behind
      BY <1>0, <1>7, Typed DEF Behind, FreshInv
    <3>3. Behind' \in Nat
      BY DEF Behind
    <3>2. i \in 1 .. Behind
      BY <2>1, <3>1, <3>3
    <3> QED  BY <1>7, <3>2 DEF FreshInv
  <2>2. ASSUME NEW m \in file
        PROVE  OwedLabels(m, kw[m], Labels, listedAt)' /\ OwedDelete(m, file, listedAt)'
    BY <1>2, <1>7, <2>2 DEF FreshInv, OwedLabels, OwedDelete, Ahead, Touches
  <2> QED  BY <1>2, <1>7, <2>1, <2>2 DEF FreshInv, Readable
<1>8. ASSUME NEW c \in Base .. top, BootedInv(c) PROVE BootedInv(c)'
  <2>1. Position \in Nat /\ c \in Nat /\ ckpt' = Len(rows)
    BY <1>0, <1>8, Typed DEF BootedInv
  <2>2. From(c)' \in Nat /\ From(c)' <= From(c)
    BY <2>1 DEF From
  <2>3. Resumable' => c <= Position'
    BY <1>8 DEF BootedInv
  <2>4. TornInv(c)'
    BY <1>8 DEF BootedInv, TornInv, mailbox
  <2> QED  BY <1>2, <1>8, <2>1, <2>2, <2>3, <2>4, BootedStill
<1>9. BootInv'
  BY <1>2, <1>7, <1>8 DEF BootInv
<1> QED
  BY <1>1, <1>3, <1>4, <1>5, <1>6, <1>9

(* The process ends by itself or is killed: the position of the next run   *)
(* is not beyond what has been applied.                                    *)
LEMMA EndStep ==
    ASSUME OuttakeInv, Stop, UNCHANGED <<mailbox, listing, disk, db, late, torn>>,
           ckpt' \in ckpt .. Behind
    PROVE  OuttakeInv'
<1> USE DEF OuttakeInv
<1>0. MailboxTypeOK
  BY DEF MailboxInv
<1>1. /\ pc' = "idle" /\ at' = 0 /\ cursor' = 0 /\ last' = 0 /\ DOMAIN jrows' = {}
      /\ UNCHANGED <<progress, committed, journal, rows>>
  BY DEF Stop, db, listing, NoRows
<1>2. (Resumable' <=> Resumable) /\ Position' = Position /\ Applied' = Position
  BY <1>1 DEF Resumable, Position, Applied
<1>3. Resumable => Applied' \in Nat /\ Applied' <= Applied
  BY <1>0, <1>2, Typed DEF Applied, PlaceInv
<1>4. {progress', committed', cursor', last'} \subseteq 0 .. top
  BY <1>0, <1>1, Typed
<1>5. /\ ckpt' \in 0 .. Len(rows) /\ ckpt' >= ckpt /\ Behind' <= Behind
      /\ ckpt = Len(rows) => ckpt' = Len(rows)
  <2>1. ckpt \in Nat /\ at \in Nat /\ Len(rows) \in Nat /\ Behind \in ckpt .. Len(rows)
    BY <1>0, Typed DEF Behind, TypeInv
  <2>2. Behind' = ckpt'
    BY <1>1 DEF Behind
  <2> QED  BY <2>1, <2>2
<1>6. Resumable => ckpt' = Len(rows)
  BY <1>5 DEF ListingInv
<1> QED
  BY <1>0, <1>1, <1>2, <1>3, <1>4, <1>5, <1>6, QuietStep

(* The steps that move the process on from one stage to the next, with the *)
(* checkpoint.                                                             *)
LEMMA StageStep ==
    ASSUME OuttakeInv,
           Start \/ ListDone \/ Flush \/ ArchiveDone \/ Resume \/ FetchHistory \/ ReplayFails
    PROVE  OuttakeInv'
<1> USE DEF OuttakeInv
<1>0. MailboxTypeOK
  BY DEF MailboxInv
<1>1. UNCHANGED <<mailbox, listing, disk, db, late, torn>> /\ UNCHANGED journal
  BY DEF Start, ListDone, Flush, ArchiveDone, Resume, FetchHistory, ReplayFails, ReplayNext, db
<1>2. (Resumable' <=> Resumable) /\ Position' = Position
  BY <1>1 DEF Resumable, Position, db
<1>3. /\ UNCHANGED <<progress, committed, rows, below>> /\ Position \in Nat
      /\ {progress, committed, cursor, last, top} \subseteq 0 .. top
  BY <1>0, <1>1, Typed DEF db, listing
<1>4. ckpt \in Nat /\ at \in Nat /\ Len(rows) \in Nat /\ ckpt <= Len(rows)
  BY <1>0, Typed
<1>a. CASE Start
  <2>1. pc = "idle" /\ pc' = "list" /\ UNCHANGED <<ckpt, at, cursor, last, jrows>>
    BY <1>a DEF Start, run
  <2>2. Applied' = Applied /\ Applied = Position /\ Behind' = ckpt /\ Behind = ckpt
    BY <1>2, <2>1 DEF Applied, Behind
  <2>3. DOMAIN jrows' = {}
    BY <2>1 DEF PlaceInv
  <2> QED
    BY <1>1, <1>2, <1>3, <1>4, <2>1, <2>2, <2>3, QuietStep DEF ListingInv
<1>b. CASE ListDone
  <2>1. /\ pc = "list" /\ pc' = "archive" /\ at' = ckpt /\ below = 0
        /\ UNCHANGED <<ckpt, cursor, last, jrows>>
    BY <1>b DEF ListDone
  <2>2. Applied' = Applied /\ Applied = Position /\ Behind' = ckpt /\ Behind = ckpt
    BY <1>2, <2>1 DEF Applied, Behind
  <2>3. DOMAIN jrows' = {}
    BY <2>1 DEF PlaceInv
  <2> QED
    BY <1>1, <1>2, <1>3, <1>4, <2>1, <2>2, <2>3, QuietStep DEF ListingInv
<1>c. CASE Flush
  <2>1. pc = "archive" /\ pc' = pc /\ ckpt' = at /\ UNCHANGED <<at, cursor, last, jrows>>
        /\ ckpt < at
    BY <1>c DEF Flush, run
  <2>2. at \in ckpt .. Len(rows) /\ below = 0 /\ DOMAIN jrows' = {}
    BY <2>1 DEF TypeInv, ListingInv, PlaceInv
  <2>3. Applied' = Applied /\ Behind' = Behind /\ Applied = Position /\ Behind = at
    BY <1>2, <2>1 DEF Applied, Behind
  <2>4. Resumable => ckpt' = Len(rows)
    BY <1>4, <2>1, <2>2 DEF ListingInv
  <2> QED
    BY <1>1, <1>2, <1>3, <1>4, <2>1, <2>2, <2>3, <2>4, QuietStep
<1>d. CASE ArchiveDone
  <2>1. /\ pc = "archive" /\ at = Len(rows) /\ ckpt' = at
        /\ Stop \/ (pc' = "history" /\ UNCHANGED <<at, cursor, last, jrows>>)
    BY <1>d DEF ArchiveDone, run
  <2>2. below = 0 /\ DOMAIN jrows = {} /\ Behind = at
    BY <2>1 DEF ListingInv, PlaceInv, Behind
  <2>3. CASE Stop
    BY <1>1, <1>4, <2>1, <2>2, <2>3, EndStep
  <2>4. CASE pc' = "history" /\ UNCHANGED <<at, cursor, last, jrows>>
    <3>1. Applied' = Applied /\ Behind' = Behind /\ Applied = Position
      BY <1>2, <2>1, <2>2, <2>4 DEF Applied, Behind
    <3> QED
      BY <1>1, <1>2, <1>3, <1>4, <2>1, <2>2, <2>4, <3>1, QuietStep
  <2> QED  BY <2>1, <2>3, <2>4
<1>e. CASE Resume
  <2>1. /\ pc = "history" /\ pc' = "fetch" /\ cursor' = Position /\ Resumable
        /\ UNCHANGED <<ckpt, at, last, jrows>>
    BY <1>e DEF Resume, Fetch
  <2>2. Applied' = Applied /\ Applied = Position /\ ckpt = Len(rows) /\ below = 0
        /\ DOMAIN jrows' = {}
    BY <1>2, <2>1 DEF Applied, ListingInv, PlaceInv
  <2>3. Position \in 0 .. top
    BY <1>0, Typed
  <2> QED
    BY <1>1, <1>2, <1>3, <1>4, <2>1, <2>2, <2>3, QuietStep
<1>f. CASE FetchHistory
  <2>1. /\ pc = "fetch" /\ pc' = "apply" /\ at' = cursor /\ last' = top
        /\ UNCHANGED <<ckpt, cursor, jrows>>
    BY <1>f DEF FetchHistory
  <2>2. Resumable /\ cursor = Position /\ ckpt = Len(rows) /\ below = 0
        /\ DOMAIN jrows' = {} /\ Position <= top
    BY <1>0, <2>1, Typed DEF PlaceInv, ListingInv
  <2>3. Applied' = Position /\ Applied = Position
    BY <2>1, <2>2 DEF Applied
  <2>4. top \in 0 .. top /\ ~(Position < floor)
    BY <1>3, <1>f, <2>2 DEF FetchHistory, Expired
  <2> QED
    BY <1>1, <1>2, <1>3, <1>4, <2>1, <2>2, <2>3, <2>4, QuietStep
<1>g. CASE ReplayFails
  <2>1. /\ pc = "replay" /\ pc' = "clear" /\ UNCHANGED <<ckpt, at, cursor, last, jrows>>
    BY <1>g DEF ReplayFails, ReplayNext, Replaying
  <2>2. Resumable /\ cursor = Position /\ ckpt = Len(rows) /\ below = 0
        /\ DOMAIN jrows' = {}
    BY <2>1 DEF PlaceInv, ListingInv
  <2>3. Applied' = Applied /\ Applied = Position
    BY <1>2, <2>1 DEF Applied
  <2> QED
    BY <1>1, <1>2, <1>3, <1>4, <2>1, <2>2, <2>3, QuietStep
<1> QED
  BY <1>a, <1>b, <1>c, <1>d, <1>e, <1>f, <1>g

(* The position that the page has made durable is committed.               *)
LEMMA CommitStep ==
    ASSUME OuttakeInv, Commit
    PROVE  OuttakeInv'
<1> USE DEF OuttakeInv
<1>0. MailboxTypeOK
  BY DEF MailboxInv
<1>1. /\ pc = "commit" /\ committed' = last /\ progress' = 0 /\ pc' = "idle"
      /\ at' = 0 /\ cursor' = 0 /\ last' = 0 /\ DOMAIN jrows' = {}
      /\ UNCHANGED <<mailbox, listing, ckpt, disk, journal, late, torn>>
  BY DEF Commit, Stop, NoRows
<1>2. progress = last /\ last # 0 /\ Resumable /\ ckpt = Len(rows)
  BY <1>1 DEF PlaceInv, ListingInv, Resumable
<1>3. Resumable' /\ Position' = last /\ Applied' = last /\ Applied = last /\ Position = last
  BY <1>1, <1>2 DEF Resumable, Position, Applied
<1>4. {progress', committed', cursor', last'} \subseteq 0 .. top /\ last \in Nat
  BY <1>0, <1>1, Typed
<1>5. ckpt \in Nat /\ at' \in Nat /\ Len(rows) \in Nat
  BY <1>0, <1>1, Typed
<1> QED
  BY <1>1, <1>2, <1>3, <1>4, <1>5, QuietStep

(* Without a cursor the next run will start again where this one was       *)
(* bootstrapped, and the mirror is accounted for there too.                *)
LEMMA ClearStep ==
    ASSUME OuttakeInv, ClearHistory
    PROVE  OuttakeInv'
<1> USE DEF OuttakeInv
<1>0. MailboxTypeOK
  BY DEF MailboxInv
<1>1. /\ pc = "clear" /\ pc' = "list" /\ progress' = 0 /\ committed' = 0
      /\ UNCHANGED <<mailbox, rows, below, listedAt, ckpt, file, kw, journal, at, cursor, last,
                     jrows, late, torn>>
  BY DEF ClearHistory, listing, disk
<1>2. Resumable /\ ckpt = Len(rows) /\ DOMAIN jrows' = {} /\ Applied = Position
  BY <1>1 DEF PlaceInv, ListingInv, Applied
<1>3. ~Resumable' /\ Position' = 0
  BY <1>1 DEF Resumable, Position
<1>4. MailboxInv' /\ (\A m : Touched(m)' <=> Touched(m)) /\ UNCHANGED <<top, log, live>>
  BY <1>1, StillInv DEF mailbox
<1>5. TypeInv'
  <2>1. {progress', committed', cursor', last', listedAt'} \subseteq 0 .. top'
    BY <1>0, <1>1, <1>4, Typed
  <2> QED  BY <1>1, <2>1 DEF TypeInv
<1>6. PlaceInv'
  BY <1>1, <1>2, <1>3, <1>4 DEF PlaceInv
<1>7. ListingInv'
  BY <1>1, <1>2, <1>3, <1>4 DEF ListingInv, ListedOrLater, Ahead
<1>8. JournalInv'
  <2>1. cursor' \in Nat
    BY <1>0, <1>1, Typed
  <2> QED  BY <1>1, <1>2, <2>1, RowsKept
<1>9. ASSUME NEW c \in Base .. top, BootedInv(c) PROVE BootedInv(c)'
  <2>1. c \in Nat /\ Position \in Nat /\ c <= Position
    BY <1>0, <1>2, <1>9, Typed DEF BootedInv
  <2>2. From(c)' = c /\ From(c) = Position
    BY <1>2, <1>3 DEF From
  <2>3. TornInv(c)'
    BY <1>1, <1>3, <1>9 DEF BootedInv, TornInv, mailbox
  <2> QED  BY <1>1, <1>2, <1>3, <1>9, <2>1, <2>2, <2>3, BootedStill
<1>10. BootInv'
  BY <1>1, <1>2, <1>4, <1>9 DEF BootInv, FreshInv
<1> QED
  BY <1>4, <1>5, <1>6, <1>7, <1>8, <1>10

(* The oldest message of a page.                                           *)
LEMMA OldestOf ==
    ASSUME NEW P \in SUBSET Nat, P # {}
    PROVE  \E x \in P : \A k \in P : x <= k
<1> DEFINE Less == {ss \in Nat \X Nat : ss[1] < ss[2]}
<1>1. IsWellFoundedOn(Less, Nat)
  BY NatLessThanWellFounded DEF OpToRel
<1>2. ASSUME NEW y \in Nat, NEW x \in Nat, <<y, x>> \notin Less PROVE x <= y
  BY <1>2
<1> HIDE DEF Less
<1>3. PICK x \in P : \A y \in P : ~(<<y, x>> \in Less)
  BY <1>1, WFMin
<1> QED  BY <1>2, <1>3

(* A page leaves out only what later pages have: it is complete down to    *)
(* its oldest message, whose number the next token has.                    *)
LEMMA PageSplit ==
    ASSUME OuttakeInv, NEW P \in SUBSET live, IsPage(P),
           below' = IF P = Older THEN 0 ELSE CHOOSE m \in P : \A k \in P : m <= k
    PROVE  /\ below' \in 0 .. Beyond /\ below' # Beyond
           /\ \A m \in live : m < below => m \in P \/ m < below'
<1> PICK N \in Nat : Msgs = 1 .. N /\ Beyond = N + 1 /\ IsFiniteSet(Msgs)
  BY Numbers
<1>1. live \subseteq Msgs
  BY DEF OuttakeInv, MailboxInv, MailboxTypeOK
<1>2. CASE P = Older
  BY <1>2 DEF Older
<1>3. CASE P # Older
  <2>1. P # {}
    BY <1>3, FS_EmptySet, OuttakeAssumption DEF IsPage
  <2>2. P \in SUBSET Nat
    BY <1>1
  <2>3. below' \in P
    BY <1>3, <2>1, <2>2, OldestOf
  <2>4. ASSUME NEW m \in live, m < below PROVE m \in P \/ m < below'
    <3>1. m \in Older
      BY <2>4 DEF Older
    <3>2. CASE m \in Older \ P
      BY <2>3, <3>2, <1>1 DEF IsPage
    <3> QED  BY <3>1, <3>2
  <2>5. below' \in 1 .. N
    BY <1>1, <2>3
  <2>6. below' \in 0 .. Beyond /\ below' # Beyond
    BY <2>5
  <2> QED  BY <2>4, <2>6
<1> QED
  BY <1>2, <1>3

(* The rows of a page are its messages.                                    *)
LEMMA PageRows ==
    ASSUME OuttakeInv, NEW P \in SUBSET live, NEW s \in Orders(P), rows' = rows \o s
    PROVE  /\ rows' \in Seq(Msgs) /\ Len(rows) <= Len(rows')
           /\ \A i \in DOMAIN rows : i \in DOMAIN rows' /\ rows'[i] = rows[i]
           /\ \A m \in P : \E i \in DOMAIN rows' : rows'[i] = m
           /\ \A i \in DOMAIN rows' : (\E k \in DOMAIN rows : rows'[i] = rows[k])
                                      \/ rows'[i] \in P
<1>1. live \subseteq Msgs /\ rows \in Seq(Msgs)
  BY DEF OuttakeInv, MailboxInv, MailboxTypeOK, TypeInv
<1>2. IsFiniteSet(P) /\ Cardinality(P) \in Nat
  BY <1>1, OuttakeAssumption, FS_Subset, FS_CardinalityType
<1>3. s \in [1 .. Cardinality(P) -> P] /\ {s[i] : i \in DOMAIN s} = P
  BY DEF Orders
<1> PICK c \in Nat : c = Cardinality(P)
  BY <1>2
<1>4. s \in Seq(Msgs) /\ Len(s) = c
  <2>1. s \in [1 .. c -> Msgs]
    BY <1>1, <1>3
  <2> QED  BY <2>1
<1>5. rows' \in Seq(Msgs) /\ Len(rows') = Len(rows) + c
  BY <1>1, <1>4
<1>6. \A i \in 1 .. Len(rows) + c :
          rows'[i] = IF i <= Len(rows) THEN rows[i] ELSE s[i - Len(rows)]
  BY <1>1, <1>4
<1>7. ASSUME NEW m \in P PROVE \E i \in DOMAIN rows' : rows'[i] = m
  <2> PICK j \in 1 .. c : s[j] = m
    BY <1>3
  <2> PICK k \in Nat : k = Len(rows)
    BY <1>1
  <2>1. k + j \in 1 .. Len(rows) + c /\ ~(k + j <= k) /\ (k + j) - k = j
    OBVIOUS
  <2>2. rows'[k + j] = m
    BY <1>6, <2>1
  <2>3. k + j \in DOMAIN rows'
    BY <1>5, <2>1
  <2> QED  BY <2>2, <2>3
<1>8. ASSUME NEW i \in DOMAIN rows'
      PROVE  (\E k \in DOMAIN rows : rows'[i] = rows[k]) \/ rows'[i] \in P
  <2>1. i \in 1 .. Len(rows) + c /\ Len(rows) \in Nat /\ DOMAIN rows = 1 .. Len(rows)
    BY <1>1, <1>5
  <2>2. CASE i <= Len(rows)
    BY <1>6, <2>1, <2>2
  <2>3. CASE ~(i <= Len(rows))
    <3>1. i - Len(rows) \in 1 .. c
      BY <2>1, <2>3
    <3>2. rows'[i] = s[i - Len(rows)]
      BY <1>6, <2>1, <2>3
    <3> QED  BY <1>3, <3>1, <3>2
  <2> QED  BY <2>2, <2>3
<1>9. Len(rows) \in Nat /\ DOMAIN rows = 1 .. Len(rows) /\ DOMAIN rows' = 1 .. Len(rows) + c
  BY <1>1, <1>5
<1>10. ASSUME NEW i \in DOMAIN rows PROVE i \in DOMAIN rows' /\ rows'[i] = rows[i]
  BY <1>6, <1>9
<1>11. Len(rows) <= Len(rows')
  BY <1>5, <1>9
<1> QED
  BY <1>5, <1>7, <1>8, <1>10, <1>11

(* A page of the listing, from where the last one ended.                   *)
LEMMA ListPageStep ==
    ASSUME OuttakeInv, ListPage
    PROVE  OuttakeInv'
<1> USE DEF OuttakeInv
<1>0. MailboxTypeOK
  BY DEF MailboxInv
<1>1. /\ pc = "list" /\ below # 0 /\ listedAt' = IF below = Beyond THEN top ELSE listedAt
      /\ UNCHANGED <<mailbox, ckpt, disk, db, pc, run, late, torn>>
  BY DEF ListPage
<1> PICK P \in SUBSET live :
      /\ IsPage(P) /\ \E s \in Orders(P) : rows' = rows \o s
      /\ below' = IF P = Older THEN 0 ELSE CHOOSE m \in P : \A k \in P : m <= k
  BY DEF ListPage
<1>2. /\ below' \in 0 .. Beyond /\ below' # Beyond
      /\ \A m \in live : m < below => m \in P \/ m < below'
  BY PageSplit
<1>3. /\ rows' \in Seq(Msgs) /\ Len(rows) <= Len(rows')
      /\ \A i \in DOMAIN rows : i \in DOMAIN rows' /\ rows'[i] = rows[i]
      /\ \A m \in P : \E i \in DOMAIN rows' : rows'[i] = m
      /\ \A i \in DOMAIN rows' : (\E k \in DOMAIN rows : rows'[i] = rows[k])
                                 \/ rows'[i] \in P
  BY PageRows
<1>4. MailboxInv' /\ \A m : Touched(m)' <=> Touched(m)
  BY <1>1, StillInv
<1>5. ~Resumable /\ ~Resumable' /\ Behind = ckpt /\ Behind' = ckpt
  BY <1>1 DEF ListingInv, Resumable, Behind, db
<1>6. TypeInv'
  <2>1. {progress', committed', cursor', last', listedAt'} \subseteq 0 .. top'
    BY <1>0, <1>1, Typed DEF db, run, mailbox
  <2>2. ckpt' \in 0 .. Len(rows')
    BY <1>0, <1>1, <1>3, Typed
  <2> QED  BY <1>1, <1>2, <1>3, <2>1, <2>2 DEF TypeInv, disk, run
<1>7. PlaceInv'
  BY <1>1, <1>4, <1>5 DEF PlaceInv, mailbox, disk, run
<1>8. ASSUME NEW m \in live PROVE ListedOrLater(m)'
  <2>1. CASE m < below
    BY <1>2, <1>3, <2>1 DEF ListedOrLater
  <2>2. CASE ~(m < below)
    <3>1. below # Beyond
      <4> PICK N \in Nat : Msgs = 1 .. N /\ Beyond = N + 1
        BY Numbers
      <4>1. m \in 1 .. N
        BY <1>0 DEF MailboxTypeOK
      <4> QED  BY <2>2, <4>1
    <3>2. listedAt' = listedAt /\ log' = log
      BY <1>1, <3>1 DEF mailbox
    <3>3. \/ \E i \in DOMAIN rows : rows[i] = m
          \/ \E n \in Ahead(listedAt) : log[n].msg = m /\ log[n].op = "add"
      BY <2>2 DEF ListingInv, ListedOrLater
    <3> QED  BY <1>3, <3>2, <3>3 DEF ListedOrLater, Ahead
  <2> QED  BY <2>1, <2>2
<1>9. ListingInv'
  <2>1. \A i \in DOMAIN rows' : Touched(rows'[i])
    BY <1>3 DEF ListingInv, MailboxInv
  <2> QED  BY <1>1, <1>2, <1>4, <1>5, <1>8, <2>1 DEF ListingInv, mailbox
<1>10. JournalInv'
  <2>1. cursor' \in Nat /\ DOMAIN jrows' = {} /\ pc' # "apply"
    BY <1>0, <1>1, Typed DEF PlaceInv, run
  <2> QED  BY <1>1, <2>1, RowsKept DEF disk, db
<1>11. ASSUME FreshInv PROVE FreshInv'
  <2>1. ASSUME NEW i \in 1 .. ckpt PROVE rows'[i] \in file \/ rows'[i] \notin Readable
    <3>1. i \in DOMAIN rows
      BY <1>0, Typed
    <3> QED  BY <1>3, <1>5, <1>11, <2>1, <3>1 DEF FreshInv
  <2>2. ASSUME NEW m \in file
        PROVE  OwedLabels(m, kw[m], Labels, listedAt)' /\ OwedDelete(m, file, listedAt)'
    <3>1. listedAt' = listedAt
      BY <1>1, <2>2 DEF ListingInv
    <3> QED
      BY <1>1, <1>11, <2>2, <3>1
      DEF FreshInv, OwedLabels, OwedDelete, Ahead, Touches, mailbox, disk
  <2> QED  BY <1>1, <1>5, <1>11, <2>1, <2>2 DEF FreshInv, Readable, mailbox, disk, db
<1>12. BootInv'
  BY <1>1, <1>11 DEF BootInv, BootedInv
<1> QED
  BY <1>4, <1>6, <1>7, <1>9, <1>10, <1>12

-----------------------------------------------------------------------------
(* A row of the archive: its message gets its file with the labels it has  *)
(* now, or has one, or is gone.                                            *)
LEMMA ArchiveRowStep ==
    ASSUME OuttakeInv, ArchiveRow
    PROVE  OuttakeInv'
<1> USE DEF OuttakeInv
<1>0. MailboxTypeOK
  BY DEF MailboxInv
<1>1. /\ pc = "archive" /\ at < Len(rows) /\ at' = at + 1
      /\ UNCHANGED <<mailbox, listing, ckpt, db, pc, fallback, cursor, last, jrows, late, torn>>
  BY DEF ArchiveRow
<1> DEFINE m == rows[at + 1]
<1>2. at \in ckpt .. Len(rows) /\ at \in Nat /\ ckpt \in Nat /\ Len(rows) \in Nat
  BY <1>0, <1>1, Typed DEF TypeInv
<1>3. at + 1 \in DOMAIN rows /\ m \in Msgs /\ Touched(m)
  <2>1. at + 1 \in 1 .. Len(rows)
    BY <1>1, <1>2
  <2>2. DOMAIN rows = 1 .. Len(rows) /\ \A i \in 1 .. Len(rows) : rows[i] \in Msgs
    BY <1>0, Typed
  <2> QED  BY <2>1, <2>2 DEF ListingInv
<1>4. ~Resumable /\ ~Resumable' /\ ckpt # Len(rows)
  BY <1>1, <1>2 DEF ListingInv, Resumable, db
<1>5. Behind = at /\ Behind' = at + 1
  BY <1>1 DEF Behind
<1>6. MailboxInv' /\ \A x : Touched(x)' <=> Touched(x)
  BY <1>1, StillInv
<1>7. /\ file \subseteq file' /\ file' \subseteq Msgs /\ kw' \in [Msgs -> SUBSET Labels]
      /\ m \in file' \/ m \notin Readable
      /\ \A x \in file' : (x \in file /\ kw'[x] = kw[x]) \/ (x = m /\ x \in live /\ kw'[x] = lab[x])
  <2>1. CASE m \in Readable \ file /\ Deliver(m)
    BY <1>0, <1>3, <2>1 DEF Deliver, Readable, TypeInv, MailboxTypeOK
  <2>2. CASE m \notin Readable \ file /\ UNCHANGED disk
    BY <2>2 DEF disk, TypeInv
  <2> QED  BY <2>1, <2>2 DEF ArchiveRow
<1>8. TypeInv'
  <2>1. {progress', committed', cursor', last', listedAt'} \subseteq 0 .. top'
    BY <1>0, <1>1, Typed DEF db, listing, mailbox
  <2>2. at' \in ckpt .. Len(rows) /\ at' \in Nat
    BY <1>1, <1>2
  <2> QED  BY <1>1, <1>7, <2>1, <2>2 DEF TypeInv, listing
<1>9. PlaceInv'
  BY <1>1, <1>3, <1>4, <1>6, <1>7 DEF PlaceInv, mailbox
<1>10. ListingInv'
  <2>1. below # Beyond
    <3> PICK N \in Nat : Beyond = N + 1
      BY Numbers
    <3> QED  BY <1>1 DEF ListingInv
  <2> QED
    BY <1>1, <1>4, <1>6, <2>1 DEF ListingInv, ListedOrLater, Ahead, listing, mailbox
<1>11. JournalInv'
  <2>1. DOMAIN jrows' = {} /\ pc' # "apply"
    BY <1>1 DEF PlaceInv
  <2>2. cursor' \in Nat
    BY <1>0, <1>1, Typed
  <2> QED  BY <1>1, <2>1, <2>2, RowsKept DEF db
<1>12. ASSUME FreshInv PROVE FreshInv'
  <2>1. ASSUME NEW i \in 1 .. at + 1 PROVE rows[i] \in file' \/ rows[i] \notin Readable
    <3>1. i \in 1 .. at \/ i = at + 1
      BY <1>2
    <3> QED  BY <1>5, <1>7, <1>12, <3>1 DEF FreshInv
  <2>2. ASSUME NEW x \in file'
        PROVE  /\ OwedLabels(x, kw'[x], Labels, listedAt)
               /\ OwedDelete(x, file', listedAt)
    <3>1. CASE x \in file /\ kw'[x] = kw[x]
      BY <1>12, <3>1 DEF FreshInv, OwedDelete
    <3>2. CASE x = m /\ x \in live /\ kw'[x] = lab[x]
      BY <3>2 DEF OwedLabels, OwedDelete
    <3> QED  BY <1>7, <2>2, <3>1, <3>2
  <2>3. \A x \in file' : OwedLabels(x, kw[x], Labels, listedAt)' /\ OwedDelete(x, file, listedAt)'
    BY <1>1, <2>2 DEF OwedLabels, OwedDelete, Ahead, Touches, mailbox, listing
  <2> QED  BY <1>1, <1>4, <1>5, <1>12, <2>1, <2>3 DEF FreshInv, Readable, listing,
    mailbox, db
<1>13. BootInv'
  BY <1>1, <1>4, <1>12 DEF BootInv, BootedInv
<1> QED
  BY <1>6, <1>8, <1>9, <1>10, <1>11, <1>13

(* When the archive is complete, the mirror is accounted for at the        *)
(* history id of the first page, and so at every earlier cursor.           *)
LEMMA ArchiveCovers ==
    ASSUME OuttakeInv, FreshInv, pc = "history", NEW c \in Nat, c <= listedAt
    PROVE  Covered(Msgs \ Unparseable, file, kw, c)
<1> USE DEF OuttakeInv
<1>0. MailboxTypeOK
  BY DEF MailboxInv
<1>1. Behind = Len(rows) /\ below = 0 /\ DOMAIN rows = 1 .. Len(rows) /\ listedAt \in Nat
  BY <1>0, Typed DEF Behind, ListingInv
<1>2. ASSUME NEW m \in Msgs \ Unparseable PROVE Owed(m, file, kw, listedAt)
  <2>1. ASSUME m \in live \ file
        PROVE  \E n \in Ahead(listedAt) : log[n].msg = m /\ log[n].op # "delete"
    <3>1. ~(m < below)
      BY <1>1, Numbers
    <3>2. ~\E i \in DOMAIN rows : rows[i] = m
      BY <1>1, <2>1 DEF FreshInv, Readable
    <3> QED  BY <2>1, <3>1, <3>2 DEF ListingInv, ListedOrLater
  <2>2. OwedDelete(m, file, listedAt)
    BY DEF FreshInv, OwedDelete
  <2> QED  BY <2>1, <2>2 DEF Owed, OwedFile, FreshInv
<1> QED
  BY <1>0, <1>1, <1>2, OwedEarlier DEF Covered

(* The first cursor: the mirror is accounted for by it unless it is above  *)
(* the history id of the first page.                                       *)
LEMMA FirstBoot ==
    ASSUME OuttakeInv, Bootstrap, FreshInv, NEW c \in Base .. top, progress' = c,
           HistoryIdOf(rows[1], c), c <= listedAt
    PROVE  BootedInv(c)'
<1> USE DEF OuttakeInv
<1>0. MailboxTypeOK
  BY DEF MailboxInv
<1>1. /\ pc = "history" /\ pc' = "fetch" /\ rows # <<>>
      /\ UNCHANGED <<mailbox, rows, below, listedAt, ckpt, file, kw, journal, torn>>
  BY DEF Bootstrap, Fetch, FirstThere, listing, disk
<1>2. c \in Nat /\ c # 0 /\ below = 0 /\ ckpt = Len(rows) /\ DOMAIN journal = {}
      /\ UNCHANGED <<top, log, live>>
  BY <1>0, <1>1, Typed DEF ListingInv, FreshInv, mailbox
<1>3. Resumable' /\ Position' = c /\ Applied' = c
  BY <1>1, <1>2 DEF Resumable, Position, Applied
<1>4. Origin(c)'
  <2>1. \A k \in Base .. top : HistoryIdOf(rows[1], k) => k = c
    BY <1>0, OneHistoryId
  <2>2. \A k : HistoryIdOf(rows[1], k)' <=> HistoryIdOf(rows[1], k)
    BY <1>1, <1>2 DEF HistoryIdOf, Ahead
  <2> QED  BY <1>1, <1>2, <2>1, <2>2 DEF Origin
<1>5. Covered(Followed, file, kw, From(c))'
  <2> PICK F, K : F = file /\ K = kw
    OBVIOUS
  <2>1. Covered(Msgs \ Unparseable, F, K, c)
    BY <1>1, <1>2, ArchiveCovers
  <2>2. \A m \in Msgs \ Unparseable : Owed(m, F, K, c)'
    BY <1>1, <2>1, StillOwed DEF Covered
  <2>3. file' = F /\ kw' = K /\ From(c)' = c /\ Followed' \subseteq Msgs \ Unparseable
    BY <1>1, <1>3 DEF From, Followed
  <2> QED  BY <2>2, <2>3 DEF Covered
<1>6. \A n \in DOMAIN log' : ~(c < n /\ Reached(n)')
  <2>1. DOMAIN log' \subseteq Nat
    BY <1>0, <1>2, MailboxAssumption DEF MailboxTypeOK
  <2> QED  BY <1>1, <1>2, <1>3, <2>1 DEF Reached
<1>7. TornInv(c)'
  BY <1>1 DEF FreshInv, TornInv
<1> QED
  BY <1>1, <1>2, <1>3, <1>4, <1>5, <1>6, <1>7 DEF BootedInv

(* A later bootstrap that is in time finds the same cursor again.          *)
LEMMA BootstrapStep ==
    ASSUME OuttakeInv, Bootstrap
    PROVE  OuttakeInv'
<1> USE DEF OuttakeInv
<1>0. MailboxTypeOK
  BY DEF MailboxInv
<1>1. PICK c \in Base .. top : /\ HistoryIdOf(rows[1], c) /\ progress' = c /\ Fetch(c)
                               /\ late' = (late \/ c > listedAt)
  BY DEF Bootstrap
<1>2. /\ pc = "history" /\ ~Resumable /\ pc' = "fetch" /\ cursor' = c
      /\ UNCHANGED <<mailbox, rows, below, listedAt, ckpt, file, kw, committed, journal, at,
                     last, jrows, torn>>
  BY <1>1 DEF Bootstrap, Fetch, listing, disk
<1>3. c \in Nat /\ c # 0 /\ c >= Base /\ c <= top /\ listedAt \in Nat
  BY <1>0, Typed
<1>4. Resumable' /\ Position' = c /\ Applied' = c
  BY <1>1, <1>2, <1>3 DEF Resumable, Position, Applied
<1>5. MailboxInv' /\ (\A m : Touched(m)' <=> Touched(m)) /\ UNCHANGED <<top, log, live, lab>>
  BY <1>2, StillInv DEF mailbox
<1>6. TypeInv'
  <2>1. {progress', committed', cursor', last', listedAt'} \subseteq 0 .. top'
    BY <1>0, <1>1, <1>2, <1>3, <1>5, Typed
  <2>2. late' \in BOOLEAN
    BY DEF Bootstrap, TypeInv
  <2> QED  BY <1>2, <2>1, <2>2 DEF TypeInv
<1>7. below = 0 /\ ckpt = Len(rows) /\ DOMAIN jrows' = {}
  BY <1>2 DEF ListingInv, PlaceInv
<1>8. PlaceInv'
  BY <1>2, <1>3, <1>4, <1>5, <1>7 DEF PlaceInv
<1>9. ListingInv'
  BY <1>2, <1>5, <1>7 DEF ListingInv, ListedOrLater, Ahead
<1>10. late => late'
  BY <1>1
<1>11. JournalInv'
  <2>1. cursor' \in Nat
    BY <1>2, <1>3
  <2> QED  BY <1>2, <1>7, <1>10, <2>1, RowsKept
<1>12. ASSUME ~late' PROVE \E d \in Base .. top : BootedInv(d)'
  <2>0. ~late /\ ~(c > listedAt)
    BY <1>1, <1>12
  <2>1. ~late /\ c <= listedAt
    BY <1>3, <2>0
  <2>2. CASE FreshInv
    BY <1>1, <2>1, <2>2, FirstBoot
  <2>3. ASSUME NEW d \in Base .. top, BootedInv(d) PROVE BootedInv(d)'
    <3>1. d = c
      BY <1>1, <2>1, <2>3 DEF BootedInv, Origin
    <3>2. From(d) = d /\ From(d)' = d
      BY <1>2, <1>4, <3>1 DEF From
    <3>3. TornInv(d)'
      <4>1. \A n \in DOMAIN journal : d <= n
        <5>1. \A n \in DOMAIN journal : n \in Nat /\ d < n
          BY <1>0, <2>3, Typed DEF BootedInv, JournalInv, RowFact
        <5> QED  BY <1>3, <3>1, <5>1
      <4> QED  BY <1>2, <1>4, <2>3, <3>1, <4>1 DEF BootedInv, TornInv, mailbox
    <3> QED  BY <1>2, <1>3, <1>4, <1>7, <2>3, <3>1, <3>2, <3>3, BootedStill
  <2> QED  BY <2>1, <2>2, <2>3 DEF BootInv
<1>13. BootInv'
  BY <1>5, <1>12 DEF BootInv
<1> QED
  BY <1>5, <1>6, <1>8, <1>9, <1>11, <1>13

-----------------------------------------------------------------------------
(* What a history record is, and what the files owe to it.                 *)
LEMMA AtRecord ==
    ASSUME OuttakeInv, ApplyRecord
    PROVE  LET n == at + 1
               m == log[n].msg
           IN  /\ n \in Nat /\ n \in DOMAIN log /\ log[n] \in Records /\ m \in Msgs
               /\ RecordHolds(n) /\ n <= last
               /\ \A k \in Ahead(at) : k = n \/ k \in Ahead(n)
               /\ ~late => /\ torn = {}
                           /\ \A x \in Msgs \ Unparseable : Owed(x, file, kw, n - 1)
<1> USE DEF OuttakeInv
<1>0. MailboxTypeOK
  BY DEF MailboxInv
<1>1. pc = "apply" /\ at < last /\ Resumable /\ cursor = Position /\ Position >= Base
      /\ cursor <= at
  BY DEF ApplyRecord, PlaceInv
<1> PICK n : n = at + 1
  OBVIOUS
<1>2. n \in Nat /\ n \in DOMAIN log /\ n <= last /\ n - 1 = at
  BY <1>0, <1>1, Typed
<1>3. log[n] \in Records /\ log[n].msg \in Msgs
  BY <1>0, <1>2 DEF MailboxTypeOK, Records
<1>4. RecordHolds(n)
  BY <1>2 DEF MailboxInv
<1>5. \A k \in Ahead(at) : k = n \/ k \in Ahead(n)
  BY <1>0, <1>2, Typed DEF Ahead
<1>6. ASSUME ~late PROVE torn = {} /\ \A x \in Msgs \ Unparseable : Owed(x, file, kw, at)
  <2>1. PICK c \in Base .. top : BootedInv(c)
    BY <1>1, <1>6 DEF BootInv, FreshInv
  <2>2. torn = {}
    BY <1>1, <2>1 DEF BootedInv, TornInv
  <2> QED  BY <1>1, <2>1, <2>2 DEF BootedInv, Covered, Followed, From, Applied
<1> QED
  BY <1>2, <1>3, <1>4, <1>5, <1>6

(* Whatever the record is, its message owes nothing to it any more, and    *)
(* the files of the others are as they were.                               *)
LEMMA RecordApplied ==
    ASSUME OuttakeInv, ApplyRecord, NEW n, n = at + 1
    PROVE  /\ file' \subseteq Msgs /\ kw' \in [Msgs -> SUBSET Labels]
           /\ \A x \in file' : x \in file \/ (x = log[n].msg /\ x \in live)
           /\ \A x \in Msgs : x # log[n].msg => (x \in file <=> x \in file') /\ kw'[x] = kw[x]
           /\ ~late /\ log[n].msg \notin Unparseable => Owed(log[n].msg, file', kw', n)
<1> USE DEF OuttakeInv
<1> PICK m : m = log[n].msg
  OBVIOUS
<1>1. /\ n \in Nat /\ n \in DOMAIN log /\ log[n] \in Records /\ m \in Msgs
      /\ RecordHolds(n)
      /\ \A k \in Ahead(n - 1) : k = n \/ k \in Ahead(n)
      /\ ~late /\ m \notin Unparseable => Owed(m, file, kw, n - 1)
  <2>1. n - 1 = at
    BY DEF TypeInv
  <2> QED  BY <2>1, AtRecord
<1>2. /\ file \subseteq Msgs /\ kw \in [Msgs -> SUBSET Labels]
      /\ lab \in [Msgs -> SUBSET Labels]
      /\ log[n].ladd \subseteq Labels /\ log[n].lrem \subseteq Labels
  BY <1>1 DEF TypeInv, MailboxInv, MailboxTypeOK, Records
<1>a. CASE ApplyAdd(n)
  <2>1. log[n].op = "add"
    BY <1>a DEF ApplyAdd
  <2>2. CASE m \in Readable \ file /\ Deliver(m)
    <3>1. file' = file \union {m} /\ kw' = [kw EXCEPT ![m] = lab[m]]
      BY <2>2 DEF Deliver
    <3>2. m \in file' /\ kw'[m] = lab[m]
      BY <1>1, <1>2, <3>1
    <3>3. OwedLabels(m, kw'[m], Labels, n)
      BY <3>2 DEF OwedLabels
    <3>4. Owed(m, file', kw', n)
      BY <1>1, <2>1, <3>2, <3>3, FileThere
    <3> QED  BY <1>1, <1>2, <2>2, <3>1, <3>4 DEF Readable
  <2>3. CASE m \notin Readable \ file /\ UNCHANGED <<disk, jrows>>
    <3>1. file' = file /\ kw' = kw
      BY <2>3 DEF disk
    <3>2. CASE m \notin file
      <4>1. m \notin Unparseable => Owed(m, file', kw', n)
        BY <2>3, <3>1, <3>2, NothingOwed DEF Readable
      <4> QED  BY <1>2, <3>1, <4>1
    <3>3. CASE m \in file
      <4>1. ASSUME ~late, m \notin Unparseable PROVE OwedLabels(m, kw'[m], Labels, n)
        <5>1. OwedLabels(m, kw[m], Labels, n - 1)
          BY <1>1, <3>3, <4>1 DEF Owed
        <5> QED  BY <1>1, <2>1, <3>1, <5>1 DEF OwedLabels, Touches
      <4>2. ~late /\ m \notin Unparseable => Owed(m, file', kw', n)
        BY <1>1, <2>1, <3>1, <3>3, <4>1, FileThere
      <4> QED  BY <1>2, <3>1, <4>2
    <3> QED  BY <3>2, <3>3
  <2> QED  BY <1>a, <2>2, <2>3 DEF ApplyAdd
<1>b. CASE ApplyDelete(n)
  <2>1. /\ log[n].op = "delete" /\ file' = file \ {m} /\ kw' = [kw EXCEPT ![m] = {}]
    BY <1>b DEF ApplyDelete
  <2>2. m \notin live
    BY <1>1, <2>1 DEF RecordHolds
  <2>3. Owed(m, file', kw', n)
    BY <2>1, <2>2, NothingOwed
  <2> QED  BY <1>1, <1>2, <2>1, <2>3
<1>c. CASE ApplyLabels(n)
  <2> DEFINE old == IF m \in file THEN kw[m] ELSE lab[m]
             L == (old \union log[n].ladd) \ log[n].lrem
  <2>1. log[n].op = "labels"
    BY <1>c DEF ApplyLabels
  <2>2. CASE /\ m \in Readable \union file
             /\ file' = file \union {m} /\ kw' = [kw EXCEPT ![m] = L]
    <3>1. m \in file' /\ kw'[m] = L /\ L \subseteq Labels
      BY <1>1, <1>2, <2>2
    <3>2. ASSUME ~late, m \notin Unparseable, m \in live, NEW l \in Labels,
                 ~(l \in lab[m] <=> l \in L)
          PROVE  \E k \in Ahead(n) : Touches(k, m, l)
      <4>1. CASE l \in log[n].ladd \union log[n].lrem
        <5>1. \/ l \in lab[m] <=> l \in log[n].ladd
              \/ \E k \in Ahead(n) : Touches(k, m, l)
          BY <1>1, <2>1, <3>2, <4>1 DEF RecordHolds
        <5>2. l \in L <=> l \in log[n].ladd
          BY <1>1, <4>1 DEF RecordHolds
        <5> QED  BY <3>2, <5>1, <5>2
      <4>2. CASE l \notin log[n].ladd \union log[n].lrem
        <5>1. m \in file /\ ~(l \in lab[m] <=> l \in kw[m])
          BY <3>2, <4>2
        <5>2. PICK k \in Ahead(n - 1) : Touches(k, m, l)
          BY <1>1, <3>2, <5>1 DEF Owed, OwedLabels
        <5>3. k # n
          BY <4>2, <5>2 DEF Touches
        <5> QED  BY <1>1, <5>2, <5>3
      <4> QED  BY <4>1, <4>2
    <3>3. ~late /\ m \notin Unparseable => OwedLabels(m, kw'[m], Labels, n)
      BY <3>1, <3>2 DEF OwedLabels
    <3>4. ~late /\ m \notin Unparseable => Owed(m, file', kw', n)
      BY <1>1, <2>1, <3>1, <3>3, FileThere
    <3>5. \A x \in file' : x \in file \/ (x = m /\ x \in live)
      BY <2>2 DEF Readable
    <3> QED  BY <1>1, <1>2, <2>2, <3>1, <3>4, <3>5
  <2>3. CASE m \notin Readable \union file /\ UNCHANGED <<disk, jrows>>
    <3>1. file' = file /\ kw' = kw
      BY <2>3 DEF disk
    <3>2. m \notin Unparseable => Owed(m, file', kw', n)
      BY <2>3, <3>1, NothingOwed DEF Readable
    <3> QED  BY <1>2, <3>1, <3>2
  <2> QED  BY <1>c, <2>2, <2>3 DEF ApplyLabels
<1> QED
  BY <1>a, <1>b, <1>c DEF ApplyRecord

(* It has a row, unless it needs none, and the row says what was left of   *)
(* the message.                                                            *)
LEMMA RecordNoted ==
    ASSUME OuttakeInv, ApplyRecord, NEW n, n = at + 1
    PROVE  /\ n \notin DOMAIN jrows /\ DOMAIN jrows \subseteq DOMAIN jrows'
           /\ DOMAIN jrows' \subseteq DOMAIN jrows \union {n}
           /\ \A i \in DOMAIN jrows : jrows'[i] = jrows[i]
           /\ RowDue(n, DOMAIN jrows')
           /\ n \in DOMAIN jrows' =>
                  LET r == jrows'[n]
                  IN  /\ r.msg = log[n].msg /\ r.labels \subseteq Labels
                      /\ r.exists <=> log[n].op # "delete"
                      /\ r.exists => r.msg \in file' /\ kw'[r.msg] = r.labels
<1> USE DEF OuttakeInv
<1> PICK m : m = log[n].msg
  OBVIOUS
<1>1. /\ n \in Nat /\ n \in DOMAIN log /\ log[n] \in Records /\ m \in Msgs
  BY AtRecord
<1>2. /\ file \subseteq Msgs /\ kw \in [Msgs -> SUBSET Labels]
      /\ lab \in [Msgs -> SUBSET Labels]
      /\ log[n].ladd \subseteq Labels /\ log[n].lrem \subseteq Labels
  BY <1>1 DEF TypeInv, MailboxInv, MailboxTypeOK, Records
<1>3. n \notin DOMAIN jrows
  <2>1. pc = "apply" /\ at \in Nat
    BY DEF ApplyRecord, TypeInv
  <2>2. ~(n <= at)
    BY <2>1
  <2> QED  BY <2>1, <2>2 DEF PlaceInv
<1>4. ASSUME NEW e \in BOOLEAN, NEW L \in SUBSET Labels, Note(n, m, e, L)
      PROVE  /\ DOMAIN jrows' = DOMAIN jrows \union {n}
             /\ \A i \in DOMAIN jrows : jrows'[i] = jrows[i]
             /\ jrows'[n] = [msg |-> m, exists |-> e, labels |-> L]
  BY <1>3, <1>4 DEF Note
<1>5. ASSUME NEW e \in BOOLEAN, NEW L \in SUBSET Labels, Note(n, m, e, L),
             e <=> log[n].op # "delete",
             e => m \in file' /\ kw'[m] = L
      PROVE  /\ DOMAIN jrows' = DOMAIN jrows \union {n}
             /\ \A i \in DOMAIN jrows : jrows'[i] = jrows[i]
             /\ RowDue(n, DOMAIN jrows')
             /\ jrows'[n].msg = m /\ jrows'[n].labels \subseteq Labels
             /\ jrows'[n].exists <=> log[n].op # "delete"
             /\ jrows'[n].exists => m \in file' /\ kw'[m] = jrows'[n].labels
  <2>1. /\ DOMAIN jrows' = DOMAIN jrows \union {n}
        /\ \A i \in DOMAIN jrows : jrows'[i] = jrows[i]
        /\ jrows'[n] = [msg |-> m, exists |-> e, labels |-> L]
    BY <1>4, <1>5
  <2>2. jrows'[n].msg = m /\ jrows'[n].exists = e /\ jrows'[n].labels = L
    BY <2>1
  <2>3. RowDue(n, DOMAIN jrows')
    BY <2>1 DEF RowDue
  <2> QED  BY <1>5, <2>1, <2>2, <2>3
<1>a. CASE ApplyAdd(n)
  <2>1. log[n].op = "add"
    BY <1>a DEF ApplyAdd
  <2>2. CASE Deliver(m) /\ Note(n, m, TRUE, lab[m])
    <3>1. m \in file' /\ kw'[m] = lab[m] /\ lab[m] \in SUBSET Labels
      BY <1>1, <1>2, <2>2 DEF Deliver
    <3> QED  BY <1>3, <1>5, <2>1, <2>2, <3>1
  <2>3. CASE UNCHANGED <<disk, jrows>>
    BY <1>3, <2>1, <2>3 DEF RowDue
  <2> QED  BY <1>a, <2>2, <2>3 DEF ApplyAdd
<1>b. CASE ApplyDelete(n)
  <2>1. log[n].op = "delete" /\ Note(n, m, FALSE, {})
    BY <1>b DEF ApplyDelete
  <2>2. {} \in SUBSET Labels
    OBVIOUS
  <2> QED  BY <1>3, <1>5, <2>1, <2>2
<1>c. CASE ApplyLabels(n)
  <2> DEFINE old == IF m \in file THEN kw[m] ELSE lab[m]
             L == (old \union log[n].ladd) \ log[n].lrem
  <2>1. log[n].op = "labels"
    BY <1>c DEF ApplyLabels
  <2>2. CASE file' = file \union {m} /\ kw' = [kw EXCEPT ![m] = L] /\ Note(n, m, TRUE, L)
    <3>1. m \in file' /\ kw'[m] = L /\ L \in SUBSET Labels
      BY <1>1, <1>2, <2>2
    <3> HIDE DEF L
    <3> QED  BY <1>3, <1>5, <2>1, <2>2, <3>1
  <2>3. CASE m \notin Readable \union file /\ UNCHANGED <<disk, jrows>>
    BY <1>3, <2>1, <2>3 DEF RowDue
  <2> QED  BY <1>c, <2>2, <2>3 DEF ApplyLabels
<1> QED
  BY <1>a, <1>b, <1>c DEF ApplyRecord

(* The rows, old and new.                                                  *)
LEMMA RecordRows ==
    ASSUME OuttakeInv, ApplyRecord
    PROVE  JournalInv'
<1> USE DEF OuttakeInv
<1>1. pc = "apply" /\ at' = at + 1 /\ UNCHANGED <<mailbox, journal, pc, cursor, late>>
  BY DEF ApplyRecord, db
<1> PICK n : n = at + 1
  OBVIOUS
<1>2. /\ n \in Nat /\ n \in DOMAIN log /\ log[n].msg \in Msgs
      /\ (~late /\ log[n].msg \notin Unparseable => Owed(log[n].msg, file', kw', n))
  BY AtRecord, RecordApplied
<1>3. ASSUME NEW i, NEW r, RowFact(i, r) PROVE RowFact(i, r)'
  <2>1. OwedLabels(r.msg, r.labels, Labels, i) => OwedLabels(r.msg, r.labels, Labels, i)'
    BY <1>1 DEF OwedLabels, Ahead, Touches, mailbox
  <2> QED  BY <1>1, <1>3, <2>1 DEF RowFact, mailbox
<1>4. ASSUME NEW i \in DOMAIN journal' PROVE RowFact(i, journal[i])'
  <2> PICK r : r = journal[i]
    OBVIOUS
  <2>1. RowFact(i, r)'
    BY <1>1, <1>3, <1>4 DEF JournalInv
  <2> QED  BY <1>1, <2>1
<1>5. ASSUME NEW i \in DOMAIN jrows' PROVE RowFact(i, jrows[i])'
  <2> PICK r : r = jrows'[i]
    OBVIOUS
  <2>1. CASE i \in DOMAIN jrows
    <3>1. r = jrows[i] /\ RowFact(i, r)
      BY <2>1, RecordNoted DEF JournalInv
    <3>2. RowFact(i, r)'
      BY <3>1, <1>3
    <3> QED  BY <3>2
  <2>2. CASE i \notin DOMAIN jrows
    <3>1. i = n /\ n \in DOMAIN jrows'
      BY <1>5, <2>2, RecordNoted
    <3>2. /\ r.msg = log[n].msg /\ r.labels \subseteq Labels
          /\ r.exists <=> log[n].op # "delete"
          /\ r.exists => r.msg \in file' /\ kw'[r.msg] = r.labels
      BY <3>1, RecordNoted
    <3>3. ASSUME r.exists, ~late, r.msg \notin Unparseable
          PROVE  OwedLabels(r.msg, r.labels, Labels, n)
      BY <1>2, <3>2, <3>3 DEF Owed
    <3>4. OwedLabels(r.msg, r.labels, Labels, n) => OwedLabels(r.msg, r.labels, Labels, n)'
      BY <1>1 DEF OwedLabels, Ahead, Touches, mailbox
    <3>5. RowFact(n, r)'
      BY <1>1, <1>2, <3>2, <3>3, <3>4 DEF RowFact, mailbox
    <3> QED  BY <3>1, <3>5
  <2> QED  BY <2>1, <2>2
<1>6. ASSUME NEW i \in DOMAIN log', cursor' < i, i <= at'
      PROVE  RowDue(i, DOMAIN jrows)'
  <2> PICK D : D = DOMAIN jrows'
    OBVIOUS
  <2>1. log' = log /\ live' = live /\ i \in Nat /\ at \in Nat /\ at' = n /\ cursor' = cursor
    BY <1>1, <1>6, MailboxAssumption DEF mailbox, MailboxInv, MailboxTypeOK, TypeInv
  <2>2. CASE i = n
    BY <2>1, <2>2, RecordNoted DEF RowDue, Readable
  <2>3. CASE i # n
    <3>1. i <= at /\ i \in DOMAIN log
      BY <1>6, <2>1, <2>3
    <3>2. RowDue(i, DOMAIN jrows)
      BY <1>1, <1>6, <2>1, <3>1 DEF JournalInv
    <3> QED  BY <2>1, <3>2, RecordNoted DEF RowDue, Readable
  <2> QED  BY <2>2, <2>3
<1> QED
  BY <1>4, <1>5, <1>6 DEF JournalInv

(* The mirror has moved on by one record; and at each row, also one that   *)
(* is further on, it is still accounted for.                               *)
LEMMA RecordBooted ==
    ASSUME OuttakeInv, ApplyRecord, ~late, NEW c \in Base .. top, BootedInv(c)
    PROVE  BootedInv(c)'
<1> USE DEF OuttakeInv
<1>0. MailboxTypeOK
  BY DEF MailboxInv
<1>1. /\ pc = "apply" /\ at' = at + 1 /\ Resumable /\ cursor = Position /\ cursor <= at
      /\ UNCHANGED <<mailbox, rows, below, listedAt, ckpt, progress, committed, journal, pc,
                     torn>>
      /\ UNCHANGED <<top, log, live, lab>>
  BY DEF ApplyRecord, PlaceInv, db, listing, mailbox
<1> PICK n : n = at + 1
  OBVIOUS
<1> PICK m : m = log[n].msg
  OBVIOUS
<1>2. n \in Nat /\ n \in DOMAIN log /\ m \in Msgs /\ torn = {}
      /\ \A x \in Msgs \ Unparseable : Owed(x, file, kw, n - 1)
  BY AtRecord
<1>a. Followed = Msgs \ Unparseable /\ Followed' = Followed
  BY <1>1, <1>2 DEF Followed
<1>3. /\ \A x \in Msgs : x # m => (x \in file <=> x \in file') /\ kw'[x] = kw[x]
      /\ m \notin Unparseable => Owed(m, file', kw', n)
  BY RecordApplied
<1>4. (Resumable' <=> Resumable) /\ Position' = Position /\ Applied' = n
  BY <1>1 DEF Resumable, Position, Applied
<1>5. Position \in Nat /\ c \in Nat /\ at \in Nat /\ DOMAIN log \subseteq Nat /\ c <= Position
      /\ \A j \in DOMAIN journal : j \in DOMAIN log
  BY <1>0, <1>1, Typed DEF BootedInv, JournalInv, RowFact
<1>6. ASSUME NEW x \in Followed PROVE Owed(x, file', kw', n)
  <2>0. x \in Msgs \ Unparseable
    BY <1>a
  <2>1. CASE x = m
    BY <1>3, <2>0, <2>1
  <2>2. CASE x # m
    <3>1. Owed(x, file', kw', n - 1)
      BY <1>2, <1>3, <2>0, <2>2, SameMirror
    <3> QED  BY <1>0, <1>2, <2>2, <3>1, OtherRecord
  <2> QED  BY <2>1, <2>2
<1>7. ASSUME NEW j \in DOMAIN journal, m \in Followed, ~RowAhead(m)
      PROVE  Owed(m, file', kw', j)
  <2>0. Owed(m, file', kw', n)
    BY <1>6, <1>7
  <2>1. CASE j <= n
    <3>1. Covered({m}, file', kw', n)
      BY <2>0 DEF Covered
    <3>2. Covered({m}, file', kw', j)
      BY <1>0, <1>2, <1>5, <2>1, <3>1, OwedEarlier
    <3> QED  BY <3>2 DEF Covered
  <2>2. CASE n <= j
    <3>1. \A i \in DOMAIN log : n < i /\ i <= j => RowDue(i, DOMAIN journal)
      <4>1. ASSUME NEW i \in DOMAIN log, n < i, i <= j PROVE Reached(i) /\ c < i
        <5>1. i \in Nat /\ c < n
          BY <1>1, <1>5
        <5> QED  BY <1>2, <1>5, <4>1, <5>1 DEF Reached
      <4> QED  BY <4>1 DEF BootedInv
    <3>2. ASSUME NEW i \in DOMAIN journal, n < i PROVE log[i].msg # m
      <4>1. journal[i].msg = log[i].msg /\ i \in Nat
        BY <1>5 DEF JournalInv, RowFact
      <4>2. i > Position
        BY <1>1, <1>5, <3>2, <4>1
      <4> QED  BY <1>7, <4>1, <4>2 DEF RowAhead
    <3>3. j \in Nat /\ n <= n /\ MailboxInv /\ n \in DOMAIN log /\ log[n].msg = m
      BY <1>2, <1>5
    <3> PICK F, K : F = file' /\ K = kw'
      OBVIOUS
    <3>4. Owed(m, F, K, n)
      BY <2>0
    <3>5. Owed(m, F, K, j)
      BY <1>2, <1>7, <1>a, <2>2, <3>1, <3>2, <3>3, <3>4, OwedBeyond
    <3> QED  BY <3>5
  <2> QED  BY <1>2, <1>5, <2>1, <2>2
<1>8. ASSUME NEW x \in Followed, NEW j \in DOMAIN journal
      PROVE  Owed(x, file, kw, j)' \/ RowAhead(x)'
  <2>1. CASE RowAhead(x)
    BY <1>1, <1>4, <2>1 DEF RowAhead
  <2>2. CASE ~RowAhead(x)
    <3> PICK F, K : F = file' /\ K = kw'
      OBVIOUS
    <3>1. Owed(x, F, K, j)
      <4>1. CASE x = m
        BY <1>7, <2>2, <4>1
      <4>2. CASE x # m
        BY <1>3, <1>a, <2>2, <4>2, SameMirror DEF BootedInv
      <4> QED  BY <4>1, <4>2
    <3>2. Owed(x, F, K, j)'
      BY <1>1, <3>1, StillOwed
    <3> QED  BY <3>2
  <2> QED  BY <2>1, <2>2
<1>9. Covered(Followed, file, kw, From(c))'
  <2> PICK F, K : F = file' /\ K = kw'
    OBVIOUS
  <2>1. \A x \in Followed : Owed(x, F, K, n)'
    BY <1>1, <1>6, StillOwed
  <2>2. From(c)' = n
    BY <1>1, <1>4 DEF From
  <2> QED  BY <1>a, <2>1, <2>2 DEF Covered
<1>10. Origin(c)'
  BY <1>1 DEF BootedInv, Origin, HistoryIdOf, Ahead
<1>11. \A i \in DOMAIN log' : c < i /\ Reached(i)' => RowDue(i, DOMAIN journal)'
  BY <1>1, <1>4 DEF BootedInv, Reached, RowDue, Readable
<1>12. TornInv(c)'
  BY <1>1, <1>2 DEF TornInv
<1> QED
  BY <1>1, <1>4, <1>8, <1>9, <1>10, <1>11, <1>12, <1>a DEF BootedInv

(* A record of the log.                                                    *)
LEMMA ApplyRecordStep ==
    ASSUME OuttakeInv, ApplyRecord
    PROVE  OuttakeInv'
<1> USE DEF OuttakeInv
<1>0. MailboxTypeOK
  BY DEF MailboxInv
<1>1. /\ pc = "apply" /\ at < last /\ at' = at + 1 /\ Resumable
      /\ UNCHANGED <<mailbox, listing, ckpt, db, pc, fallback, cursor, last, late, torn>>
  BY DEF ApplyRecord, PlaceInv
<1> PICK n : n = at + 1
  OBVIOUS
<1>2. n \in Nat /\ n \in DOMAIN log /\ n <= last /\ at \in Nat /\ last \in Nat
  BY <1>0, AtRecord, Typed
<1>3. /\ file' \subseteq Msgs /\ kw' \in [Msgs -> SUBSET Labels]
      /\ \A x \in file' : x \in file \/ (x = log[n].msg /\ x \in live)
  BY RecordApplied
<1>4. Resumable' /\ Position' = Position
  BY <1>1 DEF Resumable, Position, db
<1>5. MailboxInv' /\ \A x : Touched(x)' <=> Touched(x)
  BY <1>1, StillInv
<1>6. TypeInv'
  <2>1. {progress', committed', cursor', last', listedAt'} \subseteq 0 .. top'
    BY <1>0, <1>1, Typed DEF db, listing, mailbox
  <2> QED  BY <1>1, <1>2, <1>3, <2>1 DEF TypeInv, listing
<1>7. PlaceInv'
  <2>1. \A x \in file' : Touched(x)
    BY <1>3 DEF PlaceInv, MailboxInv
  <2>2. cursor' <= at' /\ at' <= last'
    BY <1>0, <1>1, <1>2, Typed DEF PlaceInv
  <2>3. ASSUME NEW i \in DOMAIN jrows' PROVE cursor' < i /\ i <= at'
    <3>1. cursor \in Nat /\ cursor <= at
      BY <1>0, <1>1, Typed DEF PlaceInv
    <3>2. i = n \/ i \in DOMAIN jrows
      BY <2>3, RecordNoted
    <3>3. CASE i = n
      BY <1>1, <1>2, <3>1, <3>3
    <3>4. CASE i \in DOMAIN jrows
      <4>1. cursor < i /\ i <= at
        BY <1>1, <3>4 DEF PlaceInv
      <4>2. i \in Nat
        BY <1>0, <3>4, Typed DEF JournalInv, RowFact
      <4> QED  BY <1>1, <1>2, <4>1, <4>2
    <3> QED  BY <3>2, <3>3, <3>4
  <2> QED  BY <1>1, <1>4, <1>5, <2>1, <2>2, <2>3 DEF PlaceInv, mailbox
<1>8. below = 0 /\ ckpt = Len(rows)
  BY <1>1 DEF ListingInv
<1>9. ListingInv'
  <2>1. below # Beyond
    BY <1>8, Numbers
  <2> QED
    BY <1>1, <1>5, <1>8, <2>1 DEF ListingInv, ListedOrLater, Ahead, listing, mailbox
<1>10. JournalInv'
  BY RecordRows
<1>11. BootInv'
  BY <1>1, RecordBooted DEF BootInv, FreshInv, mailbox
<1> QED
  BY <1>5, <1>6, <1>7, <1>9, <1>10, <1>11

-----------------------------------------------------------------------------
(* The rows of the page are added to the journal; its last record is the   *)
(* position.                                                               *)
LEMMA PageFrame ==
    ASSUME OuttakeInv, CommitPage
    PROVE  /\ pc = "apply" /\ at = last /\ pc' = "commit" /\ Resumable /\ cursor = Position
           /\ cursor <= at /\ ckpt = Len(rows) /\ below = 0
           /\ UNCHANGED <<mailbox, rows, below, listedAt, ckpt, file, kw, at, cursor, last,
                          jrows, late, torn>>
           /\ UNCHANGED <<top, log, live, lab>>
           /\ at \in Nat /\ at # 0 /\ at <= top /\ at >= Base /\ cursor \in Nat
           /\ progress' = at /\ Resumable' /\ Position' = at /\ Applied' = at /\ Applied = at
           /\ DOMAIN journal' = DOMAIN journal \union DOMAIN jrows
           /\ \A n \in DOMAIN jrows : journal'[n] = jrows[n] /\ cursor < n /\ n <= at
           /\ \A n \in DOMAIN journal \ DOMAIN jrows : journal'[n] = journal[n]
           /\ \A n \in DOMAIN journal' : n \in DOMAIN log /\ n \in Nat
           /\ \A n \in DOMAIN journal' : RowFact(n, journal'[n])
<1> USE DEF OuttakeInv
<1>0. MailboxTypeOK
  BY DEF MailboxInv
<1>1. /\ pc = "apply" /\ at = last /\ progress' = last /\ pc' = "commit"
      /\ journal' = [n \in DOMAIN journal \union DOMAIN jrows |->
                       IF n \in DOMAIN jrows THEN jrows[n] ELSE journal[n]]
      /\ UNCHANGED <<mailbox, rows, below, listedAt, ckpt, file, kw, at, cursor, last, jrows,
                     late, torn>>
      /\ UNCHANGED <<top, log, live, lab>>
  BY DEF CommitPage, listing, disk, run, mailbox
<1>2. Resumable /\ ckpt = Len(rows) /\ below = 0 /\ Position >= Base /\ cursor = Position
      /\ cursor <= at
  BY <1>1 DEF PlaceInv, ListingInv
<1>3. at \in Nat /\ at <= top /\ at >= Base /\ at # 0 /\ cursor \in Nat
  BY <1>0, <1>1, <1>2, Typed
<1>4. Resumable' /\ Position' = at /\ Applied' = at /\ Applied = at
  BY <1>1, <1>3 DEF Resumable, Position, Applied
<1>5. \A n \in DOMAIN jrows : cursor < n /\ n <= at
  BY <1>1 DEF PlaceInv
<1>6. \A n \in DOMAIN journal' : RowFact(n, journal'[n])
  BY <1>1 DEF JournalInv
<1>7. \A n \in DOMAIN journal' : n \in DOMAIN log /\ n \in Nat
  BY <1>0, <1>6, Typed DEF RowFact
<1> QED
  BY <1>1, <1>2, <1>3, <1>4, <1>5, <1>6, <1>7

(* The journal is complete up to the new position, and each of its rows is *)
(* as good a place to replay up to as before.                              *)
LEMMA PageBooted ==
    ASSUME OuttakeInv, CommitPage, ~late, NEW c \in Base .. top, BootedInv(c)
    PROVE  BootedInv(c)'
<1> USE DEF OuttakeInv
<1>0. MailboxTypeOK /\ c \in Nat /\ DOMAIN log \subseteq Nat
  BY Typed DEF MailboxInv
<1>1. c <= cursor
  BY PageFrame DEF BootedInv
<1>2. \A n \in DOMAIN journal' : c < n
  BY <1>0, <1>1, PageFrame DEF BootedInv
<1>a. torn = {} /\ torn' = {} /\ Followed' = Followed /\ Followed \subseteq Msgs \ Unparseable
  BY PageFrame DEF BootedInv, TornInv, Followed
<1>3. ASSUME NEW n \in DOMAIN log, c < n, Reached(n)' PROVE RowDue(n, DOMAIN journal')
  <2>1. CASE Reached(n)
    BY <1>3, <2>1, PageFrame DEF BootedInv, RowDue, Readable
  <2>2. CASE ~Reached(n)
    <3>1. n \in Nat /\ cursor < n /\ \A j \in DOMAIN journal : ~(n <= j)
      BY <1>0, <2>2, PageFrame DEF Reached
    <3>2. n <= at
      BY <1>0, <1>3, <3>1, PageFrame DEF Reached
    <3>3. RowDue(n, DOMAIN jrows)
      BY <3>1, <3>2, PageFrame DEF JournalInv
    <3> QED  BY <3>3, PageFrame DEF RowDue, Readable
  <2> QED  BY <2>1, <2>2
<1>4. \A x \in Followed : Owed(x, file, kw, at)
  BY PageFrame DEF BootedInv, From, Covered
<1>5. ASSUME NEW m \in Followed, NEW j \in DOMAIN journal', j <= at PROVE Owed(m, file, kw, j)
  <2>1. Covered({m}, file, kw, at)
    BY <1>4 DEF Covered
  <2>2. at \in Nat /\ j \in Nat
    BY PageFrame
  <2>3. Covered({m}, file, kw, j)
    BY <1>0, <1>5, <2>1, <2>2, OwedEarlier
  <2> QED  BY <2>3 DEF Covered
<1>6. ASSUME NEW m \in Followed, NEW j \in DOMAIN journal', ~(j <= at), ~RowAhead(m)'
      PROVE  Owed(m, file, kw, j)
  <2>1. j \in DOMAIN journal /\ j \in Nat /\ at < j
    BY <1>6, PageFrame
  <2>2. CASE Owed(m, file, kw, j)
    BY <2>2
  <2>3. CASE RowAhead(m)
    <3>1. PICK k \in DOMAIN journal : journal[k].msg = m
      BY <2>3 DEF RowAhead
    <3>2. \A r \in DOMAIN journal' : RowFact(r, journal'[r]) /\ r \in Nat
      BY PageFrame
    <3>3. ASSUME NEW r \in DOMAIN journal', at < r PROVE log[r].msg # m
      <4>1. log[r].msg = journal'[r].msg /\ r > Position'
        BY <3>2, <3>3, PageFrame DEF RowFact
      <4> QED  BY <1>6, <3>3, <4>1 DEF RowAhead
    <3>4. k \in DOMAIN log /\ log[k].msg = m /\ k \in DOMAIN journal' /\ k \in Nat
      BY <3>1, <3>2, PageFrame DEF JournalInv, RowFact
    <3>5. k <= at /\ at \in Nat
      BY <3>3, <3>4, PageFrame
    <3>6. \A i \in DOMAIN log : at < i /\ i <= j => RowDue(i, DOMAIN journal')
      <4>1. ASSUME NEW i \in DOMAIN log, at < i, i <= j PROVE Reached(i)' /\ c < i
        <5>1. i \in Nat /\ cursor \in Nat /\ cursor <= at /\ at \in Nat
          BY <1>0, PageFrame
        <5> QED  BY <1>0, <1>1, <1>6, <4>1, <5>1 DEF Reached
      <4> QED  BY <1>3, <4>1
    <3>7. Owed(m, file, kw, at) /\ at <= j
      BY <1>4, <2>1, <3>5
    <3> QED  BY <1>a, <2>1, <3>3, <3>4, <3>5, <3>6, <3>7, OwedBeyond
  <2> QED  BY <2>1, <2>2, <2>3 DEF BootedInv
<1>7. ASSUME NEW m \in Followed, NEW j \in DOMAIN journal'
      PROVE  Owed(m, file, kw, j)' \/ RowAhead(m)'
  <2> SUFFICES ASSUME ~RowAhead(m)' PROVE Owed(m, file, kw, j)'
    OBVIOUS
  <2> PICK F, K : F = file /\ K = kw
    OBVIOUS
  <2>1. Owed(m, F, K, j)
    BY <1>5, <1>6
  <2>2. Owed(m, F, K, j)'
    BY <2>1, PageFrame, StillOwed
  <2> QED  BY <2>2, PageFrame
<1>8. Covered(Followed, file, kw, From(c))'
  <2> PICK F, K, p : F = file /\ K = kw /\ p = at
    OBVIOUS
  <2>1. \A m \in Followed : Owed(m, F, K, p)'
    BY <1>4, PageFrame, StillOwed
  <2>2. file' = F /\ kw' = K /\ From(c)' = p
    BY PageFrame DEF From
  <2> QED  BY <1>a, <2>1, <2>2 DEF Covered
<1>9. Origin(c)'
  BY PageFrame DEF BootedInv, Origin, HistoryIdOf, Ahead
<1>10. \A n \in DOMAIN log' : c < n /\ Reached(n)' => RowDue(n, DOMAIN journal)'
  BY <1>3, PageFrame DEF RowDue, Readable
<1>11. c <= Position'
  BY <1>0, <1>1, PageFrame
<1>12. TornInv(c)'
  BY <1>a DEF TornInv
<1> QED
  BY <1>2, <1>7, <1>8, <1>9, <1>10, <1>11, <1>12, <1>a, PageFrame DEF BootedInv

(* The end of a page keeps the invariant.                                  *)
LEMMA CommitPageStep ==
    ASSUME OuttakeInv, CommitPage
    PROVE  OuttakeInv'
<1> USE DEF OuttakeInv
<1>0. MailboxTypeOK
  BY DEF MailboxInv
<1>1. UNCHANGED committed /\ last \in Nat
  BY <1>0, Typed DEF CommitPage
<1>2. MailboxInv' /\ \A m : Touched(m)' <=> Touched(m)
  BY PageFrame, StillInv
<1>3. TypeInv'
  <2>1. {progress', committed', cursor', last', listedAt'} \subseteq 0 .. top'
    BY <1>0, <1>1, PageFrame, Typed
  <2> QED  BY <2>1, PageFrame DEF TypeInv
<1>4. PlaceInv'
  <2>1. last # 0 /\ progress' = last
    BY PageFrame
  <2> QED  BY <1>2, <2>1, PageFrame DEF PlaceInv
<1>5. ListingInv'
  BY <1>2, PageFrame DEF ListingInv, ListedOrLater, Ahead
<1>6. JournalInv'
  <2>1. ASSUME NEW n, NEW r, RowFact(n, r) PROVE RowFact(n, r)'
    BY <2>1, PageFrame DEF RowFact, OwedLabels, Ahead, Touches
  <2>2. ASSUME NEW n \in DOMAIN journal' PROVE RowFact(n, journal[n])'
    <3> PICK r : r = journal'[n]
      OBVIOUS
    <3>1. RowFact(n, r)'
      BY <2>1, <2>2, PageFrame
    <3> QED  BY <3>1
  <2>3. ASSUME NEW n \in DOMAIN jrows' PROVE RowFact(n, jrows[n])'
    <3> PICK r : r = jrows[n]
      OBVIOUS
    <3>1. n \in DOMAIN jrows /\ jrows' = jrows
      BY <2>3, PageFrame
    <3>2. RowFact(n, r)'
      BY <2>1, <3>1 DEF JournalInv
    <3> QED  BY <3>1, <3>2
  <2> QED  BY <2>2, <2>3, PageFrame DEF JournalInv
<1>7. BootInv'
  BY PageBooted, PageFrame DEF BootInv, FreshInv
<1> QED
  BY <1>2, <1>3, <1>4, <1>5, <1>6, <1>7

-----------------------------------------------------------------------------
(* The rows from the cursor on are to be replayed: their messages are torn *)
(* until the replay has come to its end.                                   *)
LEMMA StartReplayStep ==
    ASSUME OuttakeInv, StartReplay
    PROVE  OuttakeInv'
<1> USE DEF OuttakeInv
<1>0. MailboxTypeOK
  BY DEF MailboxInv
<1>1. /\ pc = "fetch" /\ cursor < floor
      /\ UNCHANGED <<mailbox, listing, ckpt, disk, db, at, cursor, last, jrows, late>>
      /\ UNCHANGED <<rows, below, listedAt, file, kw, progress, committed, journal>>
      /\ UNCHANGED <<top, log, live, lab, floor>>
  BY DEF StartReplay, Expired, listing, disk, db, mailbox
<1>2. Resumable /\ cursor = Position /\ ckpt = Len(rows) /\ below = 0 /\ DOMAIN jrows' = {}
  BY <1>1 DEF PlaceInv, ListingInv
<1>3. Resumable' /\ Position' = Position /\ Position \in Nat /\ floor \in Nat /\ Applied = Position
  BY <1>0, <1>1, <1>2, Typed DEF Resumable, Position, Applied, MailboxTypeOK
<1>4. CASE ~Replayable
  <2>1. pc' = "clear" /\ torn' = torn
    BY <1>4 DEF StartReplay
  <2>2. Applied' = Position
    BY <1>3, <2>1 DEF Applied
  <2>3. {progress', committed', cursor', last'} \subseteq 0 .. top /\ at' \in Nat /\ ckpt' \in Nat
    BY <1>0, <1>1, Typed
  <2> QED
    BY <1>1, <1>2, <1>3, <2>1, <2>2, <2>3, QuietStep
<1>5. CASE Replayable
  <2>1. /\ pc' = "replay" /\ todo' = Rows /\ torn' = torn \union MessagesOf(Rows)
        /\ Rows # {} /\ Rows' = Rows
    BY <1>1, <1>5 DEF StartReplay, Replayable, Rows
  <2>2. MailboxInv' /\ \A m : Touched(m)' <=> Touched(m)
    BY <1>1, StillInv
  <2>3. TypeInv'
    <3>1. {progress', committed', cursor', last', listedAt'} \subseteq 0 .. top'
      BY <1>0, <1>1, Typed
    <3> QED  BY <1>1, <2>1, <3>1 DEF TypeInv
  <2>4. Replayed'
    BY <1>1, <2>1 DEF Replayed, MessagesOf
  <2>5. PlaceInv'
    BY <1>1, <1>2, <1>3, <2>1, <2>2, <2>4 DEF PlaceInv
  <2>6. ListingInv'
    BY <1>1, <1>2, <1>3, <2>1, <2>2 DEF ListingInv, ListedOrLater, Ahead
  <2>7. JournalInv'
    <3>1. cursor' \in Nat
      BY <1>1, <1>2, <1>3
    <3> QED  BY <1>1, <1>2, <2>1, <3>1, RowsKept
  <2>8. ASSUME NEW c \in Base .. top, BootedInv(c) PROVE BootedInv(c)'
    <3>1. c \in Nat /\ c <= Position
      BY <1>0, <1>2, <2>8, Typed DEF BootedInv
    <3>2. From(c)' = Position /\ From(c) = Position
      BY <1>2, <1>3, <2>1 DEF From, Applied
    <3>3. ASSUME NEW m \in torn'
          PROVE  \E n \in DOMAIN journal : journal[n].msg = m /\ Position <= n
      <4>1. CASE m \in torn
        BY <1>2, <2>8, <4>1 DEF BootedInv, TornInv
      <4>2. CASE m \in MessagesOf(Rows)
        <5>1. PICK n \in Rows : journal[n].msg = m
          BY <4>2 DEF MessagesOf
        <5>2. n \in DOMAIN journal /\ n \in Nat /\ n >= Position
          BY <1>0, <1>2, <5>1, Typed DEF Rows, JournalInv, RowFact
        <5> QED  BY <1>3, <5>1, <5>2
      <4> QED  BY <2>1, <4>1, <4>2
    <3>4. TornInv(c)'
      <4>1. c < floor /\ Position < floor
        BY <1>1, <1>2, <1>3, <3>1
      <4> QED  BY <1>1, <1>3, <2>1, <3>3, <4>1 DEF TornInv
    <3> QED
      BY <1>1, <1>2, <1>3, <2>1, <2>8, <3>1, <3>2, <3>4, BootedStill
  <2>9. BootInv'
    BY <1>1, <1>2, <2>8 DEF BootInv, FreshInv
  <2> QED  BY <2>2, <2>3, <2>5, <2>6, <2>7, <2>9
<1> QED
  BY <1>4, <1>5

(* A row that is replayed changes the file of its own message only.        *)
LEMMA RowFrame ==
    ASSUME OuttakeInv, ReplayDelete \/ ReplayRemove \/ ReplayRewrite \/ ReplayDownload
    PROVE  /\ pc \in {"replay", "rewrite"} /\ pc' \in {"replay", "rewrite"}
           /\ UNCHANGED <<mailbox, rows, below, listedAt, ckpt, progress, committed, journal, at,
                          cursor, last, jrows, late, torn>>
           /\ \E n \in todo :
                LET m == journal[n].msg
                IN  /\ NextRow(n) /\ m \in Msgs
                    /\ n \in DOMAIN journal /\ RowFact(n, journal[n]) /\ Touched(m)
                    /\ file' \subseteq file \union {m} /\ file' \subseteq Msgs
                    /\ kw' \in [Msgs -> SUBSET Labels]
                    /\ \A x \in Msgs \ {m} : (x \in file <=> x \in file') /\ kw'[x] = kw[x]
                    /\ \/ todo' = todo /\ (pc' = "rewrite" => journal[n].exists)
                       \/ todo' = todo \ {n} /\ pc' = "replay" /\ Shown(n)'
<1> USE DEF OuttakeInv
<1>0. MailboxTypeOK /\ file \subseteq Msgs /\ kw \in [Msgs -> SUBSET Labels]
  BY DEF MailboxInv, TypeInv
<1>1. /\ pc \in {"replay", "rewrite"} /\ pc' \in {"replay", "rewrite"}
      /\ UNCHANGED <<mailbox, rows, below, listedAt, ckpt, progress, committed, journal, at,
                     cursor, last, jrows, late, torn>>
  BY DEF ReplayDelete, ReplayRemove, ReplayRewrite, ReplayDownload, Replaying, ReplayNext, listing,
     db
<1>2. Replayed
  BY <1>1 DEF PlaceInv
<1>3. ASSUME NEW n \in todo
      PROVE  /\ n \in DOMAIN journal /\ RowFact(n, journal[n])
             /\ journal[n].msg \in Msgs /\ journal[n].labels \subseteq Labels
             /\ Touched(journal[n].msg)
  <2>1. n \in DOMAIN journal /\ RowFact(n, journal[n])
    BY <1>2 DEF Replayed, Rows, JournalInv
  <2>2. n \in DOMAIN log /\ log[n] \in Records
    BY <1>0, <2>1 DEF RowFact, MailboxTypeOK
  <2> QED  BY <2>1, <2>2 DEF RowFact, Records, Touched
<1>4. CASE ReplayDelete
  <2> PICK n \in todo : Replaying(n) /\ ~journal[n].exists /\ Remove(journal[n].msg)
                        /\ ReplayNext("replay", todo \ {n})
    BY <1>4 DEF ReplayDelete
  <2>1. PICK m \in Msgs : m = journal[n].msg
    BY <1>3
  <2>2. /\ file' = file \ {m} /\ kw' = [kw EXCEPT ![m] = {}] /\ NextRow(n)
        /\ pc' = "replay" /\ todo' = todo \ {n} /\ Shown(n)'
    BY <1>1, <2>1 DEF Remove, Replaying, ReplayNext, Shown
  <2>3. kw' \in [Msgs -> SUBSET Labels] /\ \A x \in Msgs \ {m} : kw'[x] = kw[x]
    BY <1>0, <2>2
  <2> QED  BY <1>0, <1>1, <1>3, <2>1, <2>2, <2>3
<1>5. CASE ReplayRemove
  <2> PICK n \in todo : Replaying(n) /\ journal[n].exists /\ Remove(journal[n].msg)
                        /\ ReplayNext("rewrite", todo)
    BY <1>5 DEF ReplayRemove
  <2>1. PICK m \in Msgs : m = journal[n].msg
    BY <1>3
  <2>2. /\ file' = file \ {m} /\ kw' = [kw EXCEPT ![m] = {}] /\ NextRow(n) /\ todo' = todo
    BY <2>1 DEF Remove, Replaying, ReplayNext
  <2>3. kw' \in [Msgs -> SUBSET Labels] /\ \A x \in Msgs \ {m} : kw'[x] = kw[x]
    BY <1>0, <2>2
  <2> QED  BY <1>0, <1>1, <1>3, <2>1, <2>2, <2>3
<1>6. ASSUME NEW n \in todo, Rewrite(n)
      PROVE  LET m == journal[n].msg
             IN  /\ file' \subseteq file \union {m} /\ file' \subseteq Msgs
                 /\ kw' \in [Msgs -> SUBSET Labels]
                 /\ \A x \in Msgs \ {m} : (x \in file <=> x \in file') /\ kw'[x] = kw[x]
                 /\ journal[n].exists => Shown(n)'
  <2>1. PICK m \in Msgs : m = journal[n].msg
    BY <1>3
  <2>2. PICK L \in SUBSET Labels : L = journal[n].labels
    BY <1>3
  <2>3. file' = file \union {m} /\ kw' = [kw EXCEPT ![m] = L]
    BY <1>6, <2>1, <2>2 DEF Rewrite
  <2>4. kw' \in [Msgs -> SUBSET Labels] /\ kw'[m] = L /\ \A x \in Msgs \ {m} : kw'[x] = kw[x]
    BY <1>0, <2>3
  <2>5. journal[n].exists => Shown(n)'
    BY <1>1, <2>1, <2>2, <2>3, <2>4 DEF Shown
  <2> QED  BY <1>0, <2>1, <2>3, <2>4, <2>5
<1>7. CASE ReplayRewrite
  <2> PICK n \in todo : NextRow(n) /\ Rewrite(n) /\ ReplayNext("replay", todo \ {n})
    BY <1>7 DEF ReplayRewrite
  <2>1. journal[n].exists
    BY <1>2, <1>7 DEF ReplayRewrite, Replayed
  <2>2. pc' = "replay" /\ todo' = todo \ {n}
    BY DEF ReplayNext
  <2> QED  BY <1>1, <1>3, <1>6, <2>1, <2>2
<1>8. CASE ReplayDownload
  <2> PICK n \in todo : Replaying(n) /\ Rewrite(n) /\ ReplayNext("replay", todo)
    BY <1>8 DEF ReplayDownload
  <2>1. pc' = "replay" /\ todo' = todo /\ NextRow(n)
    BY DEF ReplayNext, Replaying
  <2> QED  BY <1>1, <1>3, <1>6, <2>1
<1> QED
  BY <1>4, <1>5, <1>7, <1>8

(* The messages that are not torn keep their files; a row that was passed  *)
(* and is the last of its message stays as it was replayed.                *)
LEMMA ReplayRowStep ==
    ASSUME OuttakeInv, ReplayDelete \/ ReplayRemove \/ ReplayRewrite \/ ReplayDownload
    PROVE  OuttakeInv'
<1> USE DEF OuttakeInv
<1>0. MailboxTypeOK
  BY DEF MailboxInv
<1>1. /\ pc \in {"replay", "rewrite"} /\ pc' \in {"replay", "rewrite"}
      /\ UNCHANGED <<mailbox, rows, below, listedAt, ckpt, progress, committed, journal, at,
                     cursor, last, jrows, late, torn>>
      /\ UNCHANGED <<top, log, live, lab, floor>>
  BY RowFrame DEF mailbox
<1> PICK n \in todo :
           LET m == journal[n].msg
           IN  /\ NextRow(n) /\ m \in Msgs
               /\ n \in DOMAIN journal /\ RowFact(n, journal[n]) /\ Touched(m)
               /\ file' \subseteq file \union {m} /\ file' \subseteq Msgs
               /\ kw' \in [Msgs -> SUBSET Labels]
               /\ \A x \in Msgs \ {m} : (x \in file <=> x \in file') /\ kw'[x] = kw[x]
               /\ \/ todo' = todo /\ (pc' = "rewrite" => journal[n].exists)
                  \/ todo' = todo \ {n} /\ pc' = "replay" /\ Shown(n)'
  BY RowFrame
<1> PICK m \in Msgs : m = journal[n].msg
  OBVIOUS
<1>2. Resumable /\ cursor = Position /\ ckpt = Len(rows) /\ below = 0 /\ DOMAIN jrows = {}
      /\ Replayed
  BY <1>1 DEF PlaceInv, ListingInv
<1>3. Resumable' /\ Position' = Position /\ Applied' = Position /\ Applied = Position
  BY <1>1, <1>2 DEF Resumable, Position, Applied
<1>4. MailboxInv' /\ \A x : Touched(x)' <=> Touched(x)
  BY <1>1, StillInv
<1>5. Rows' = Rows /\ Rows \subseteq Nat /\ todo \subseteq Rows
  BY <1>0, <1>1, <1>2, Typed DEF Rows, Replayed, JournalInv, RowFact
<1>6. TypeInv'
  <2>1. {progress', committed', cursor', last', listedAt'} \subseteq 0 .. top'
    BY <1>0, <1>1, Typed
  <2> QED  BY <1>1, <2>1 DEF TypeInv
<1>7. Replayed'
  <2>1. \A k \in todo : n <= k
    BY DEF NextRow
  <2>2. todo' \subseteq Rows /\ Rows # {} /\ \A k \in Rows : journal[k].msg \in torn
    BY <1>2, <1>5 DEF Replayed
  <2>3. ASSUME NEW k \in Rows \ todo
        PROVE  (\A j \in todo : k < j) /\ (IsLast(k) => Shown(k)')
    <3>1. (\A j \in todo : k < j) /\ (IsLast(k) => Shown(k)) /\ k < n
      BY <1>2, <2>3 DEF Replayed
    <3>2. ASSUME IsLast(k) PROVE Shown(k)'
      <4>1. journal[k].msg # m
        <5>1. journal[n].msg = journal[k].msg => n <= k
          BY <1>5, <3>2 DEF IsLast
        <5> QED  BY <1>5, <2>3, <3>1, <5>1
      <4>2. journal[k].msg \in Msgs
        <5>1. k \in DOMAIN journal /\ RowFact(k, journal[k])
          BY <2>3 DEF Rows, JournalInv
        <5>2. k \in DOMAIN log /\ log[k] \in Records
          BY <1>0, <5>1 DEF RowFact, MailboxTypeOK
        <5> QED  BY <5>1, <5>2 DEF RowFact, Records
      <4> QED  BY <1>1, <3>1, <3>2, <4>1, <4>2 DEF Shown
    <3> QED  BY <3>1, <3>2
  <2>4. ASSUME NEW k \in Rows \ todo'
        PROVE  (\A j \in todo' : k < j) /\ (IsLast(k) => Shown(k)')
    <3>1. CASE k \in todo
      <4>1. k = n /\ todo' = todo \ {n} /\ Shown(n)'
        BY <2>4, <3>1
      <4>2. \A j \in todo' : n < j
        <5>1. ASSUME NEW j \in todo' PROVE n < j
          <6>1. j \in todo /\ j # n /\ n <= j /\ j \in Nat /\ n \in Nat
            BY <1>5, <2>1, <4>1
          <6> QED  BY <6>1
        <5> QED  BY <5>1
      <4> QED  BY <4>1, <4>2
    <3>2. CASE k \notin todo
      BY <2>3, <3>2
    <3> QED  BY <3>1, <3>2
  <2>5. ASSUME pc' = "rewrite", NEW k \in todo', NextRow(k)' PROVE journal[k].exists
    <3>1. todo' = todo /\ journal[n].exists
      BY <2>5
    <3>2. k <= n /\ n <= k /\ k \in Nat /\ n \in Nat
      BY <1>5, <2>1, <2>5, <3>1 DEF NextRow
    <3>3. k = n
      BY <3>2
    <3> QED  BY <3>1, <3>3
  <2>6. \A k \in Rows : IsLast(k)' <=> IsLast(k)
    BY <1>1, <1>5 DEF IsLast
  <2> QED  BY <1>1, <1>5, <2>2, <2>4, <2>5, <2>6 DEF Replayed
<1>8. PlaceInv'
  <2>1. \A x \in file' : Touched(x)
    BY DEF PlaceInv
  <2> QED  BY <1>1, <1>2, <1>3, <1>4, <1>7, <2>1 DEF PlaceInv
<1>9. ListingInv'
  <2>1. below # Beyond
    BY <1>2, Numbers
  <2> QED
    BY <1>1, <1>2, <1>3, <1>4, <2>1 DEF ListingInv, ListedOrLater, Ahead
<1>10. JournalInv'
  <2>1. cursor' \in Nat /\ pc' # "apply"
    BY <1>0, <1>1, Typed
  <2> QED  BY <1>1, <1>2, <2>1, RowsKept
<1>11. ASSUME NEW c \in Base .. top, BootedInv(c) PROVE BootedInv(c)'
  <2>1. m \in torn /\ Followed' = Followed
    BY <1>1, <1>2, <1>5 DEF Replayed, Followed
  <2>2. ASSUME NEW x \in Followed, NEW p, Owed(x, file, kw, p) PROVE Owed(x, file, kw, p)'
    <3> PICK F, K : F = file' /\ K = kw'
      OBVIOUS
    <3>1. x \in Msgs \ {m}
      BY <2>1 DEF Followed
    <3>2. Owed(x, F, K, p)
      BY <2>2, <3>1, SameMirror
    <3>3. Owed(x, F, K, p)'
      BY <1>1, <3>2, StillOwed
    <3> QED  BY <3>3
  <2>3. ASSUME NEW x \in Followed, NEW j \in DOMAIN journal
        PROVE  Owed(x, file, kw, j)' \/ RowAhead(x)'
    <3>1. CASE RowAhead(x)
      BY <1>1, <1>3, <3>1 DEF RowAhead
    <3>2. CASE Owed(x, file, kw, j)
      BY <2>2, <3>2
    <3> QED  BY <1>11, <3>1, <3>2 DEF BootedInv
  <2>4. Covered(Followed, file, kw, From(c))'
    <3> PICK p : p = From(c)
      OBVIOUS
    <3>1. \A x \in Followed : Owed(x, file, kw, p)
      BY <1>11 DEF BootedInv, Covered
    <3>2. \A x \in Followed : Owed(x, file, kw, p)'
      BY <2>2, <3>1
    <3>3. From(c)' = p
      BY <1>2, <1>3 DEF From
    <3> QED  BY <2>1, <3>2, <3>3 DEF Covered
  <2>5. Origin(c)'
    BY <1>1, <1>11 DEF BootedInv, Origin, HistoryIdOf, Ahead
  <2>6. \A i \in DOMAIN log' : c < i /\ Reached(i)' => RowDue(i, DOMAIN journal)'
    BY <1>1, <1>3, <1>11 DEF BootedInv, Reached, RowDue, Readable
  <2>7. TornInv(c)'
    BY <1>1, <1>2, <1>3, <1>11 DEF BootedInv, TornInv
  <2>8. /\ below' = 0 /\ ckpt' = Len(rows') /\ (Resumable' => c <= Position')
        /\ \A i \in DOMAIN journal' : c < i
    BY <1>1, <1>2, <1>3, <1>11 DEF BootedInv
  <2>9. \A x \in Followed', j \in DOMAIN journal' : Owed(x, file, kw, j)' \/ RowAhead(x)'
    BY <1>1, <2>1, <2>3
  <2> QED
    BY <2>4, <2>5, <2>6, <2>7, <2>8, <2>9 DEF BootedInv
<1>12. BootInv'
  BY <1>1, <1>2, <1>11 DEF BootInv, FreshInv
<1> QED
  BY <1>4, <1>6, <1>8, <1>9, <1>10, <1>12

(* A replay leaves a mirror that is accounted for at its last row: a       *)
(* message with rows shows the last of them, and nothing between that one  *)
(* and the end concerns it; one without rows was accounted for before.     *)
LEMMA ReplayOwed ==
    ASSUME OuttakeInv, ReplayDone, ~late, NEW c \in Base .. top, BootedInv(c),
           NEW e \in Rows, \A k \in Rows : k <= e, NEW m \in Msgs \ Unparseable
    PROVE  Owed(m, file, kw, e)
<1> USE DEF OuttakeInv
<1>0. /\ MailboxTypeOK /\ MailboxInv /\ c \in Nat /\ DOMAIN log \subseteq Nat
      /\ \A n \in DOMAIN journal : n \in DOMAIN log /\ n \in Nat /\ RowFact(n, journal[n])
      /\ e \in DOMAIN journal /\ e \in Nat
  <2>1. MailboxTypeOK /\ MailboxInv
    BY DEF MailboxInv
  <2>2. c \in Nat /\ DOMAIN log \subseteq Nat
    BY <2>1, Typed
  <2>3. \A n \in DOMAIN journal : n \in DOMAIN log /\ RowFact(n, journal[n])
    BY DEF JournalInv, RowFact
  <2> QED  BY <2>1, <2>2, <2>3 DEF Rows
<1>1. Resumable /\ cursor = Position /\ cursor \in Nat /\ c <= cursor
      /\ \A n \in Rows : IsLast(n) => Shown(n)
  BY <1>0, Typed DEF ReplayDone, PlaceInv, BootedInv, Replayed
<1> PICK F, K : F = file /\ K = kw
  OBVIOUS
<1>2. ASSUME NEW f \in Rows, IsLast(f), journal[f].msg = m PROVE Owed(m, F, K, e)
  <2>1. f \in DOMAIN journal /\ f \in Nat /\ f \in DOMAIN log /\ f <= e
        /\ RowFact(f, journal[f]) /\ log[f].msg = m
        /\ \A k \in Rows : journal[k].msg = m => k <= f
    BY <1>0, <1>2 DEF IsLast, Rows, RowFact
  <2>2. Owed(m, F, K, f)
    <3>1. CASE journal[f].exists
      <4>1. m \in F /\ K[m] = journal[f].labels
        BY <1>1, <1>2, <3>1 DEF Shown
      <4>2. OwedLabels(m, K[m], Labels, f) /\ log[f].op # "delete"
        BY <1>2, <2>1, <3>1, <4>1 DEF RowFact
      <4> QED  BY <1>0, <2>1, <4>1, <4>2, FileThere
    <3>2. CASE ~journal[f].exists
      <4>1. m \notin F
        BY <1>1, <1>2, <3>2 DEF Shown
      <4>2. m \notin live
        BY <1>0, <1>2, <2>1, <3>2 DEF RowFact, MailboxInv, RecordHolds
      <4> QED  BY <4>1, <4>2, NothingOwed
    <3> QED  BY <3>1, <3>2
  <2>3. \A n \in DOMAIN log : f < n /\ n <= e => RowDue(n, DOMAIN journal)
    <3>1. ASSUME NEW n \in DOMAIN log, f < n, n <= e PROVE Reached(n) /\ c < n
      <4>1. n \in Nat /\ c < f
        BY <1>0, <2>1 DEF BootedInv
      <4> QED  BY <1>0, <2>1, <3>1, <4>1 DEF Reached
    <3> QED  BY <3>1 DEF BootedInv
  <2>4. \A n \in DOMAIN journal : f < n /\ n <= e => log[n].msg # m
    <3>1. ASSUME NEW n \in DOMAIN journal, f < n PROVE log[n].msg # m
      <4>1. n \in Nat /\ log[n].msg = journal[n].msg
        BY <1>0 DEF RowFact
      <4>2. f >= cursor
        BY DEF Rows
      <4>3. n \in Rows
        BY <1>1, <2>1, <3>1, <4>1, <4>2 DEF Rows
      <4> QED  BY <2>1, <3>1, <4>1, <4>3
    <3> QED  BY <3>1
  <2>5. f <= f
    BY <2>1
  <2> QED  BY <1>0, <2>1, <2>2, <2>3, <2>4, <2>5, OwedBeyond
<1>3. ASSUME \A n \in Rows : journal[n].msg # m PROVE Owed(m, F, K, e)
  <2>1. \A r \in DOMAIN journal : Position <= r => r \in Rows
    BY <1>0, <1>1 DEF Rows
  <2>2. ~RowAhead(m)
    BY <1>0, <1>1, <1>3, <2>1 DEF RowAhead
  <2>3. m \in Followed
    BY <1>1, <1>3, <2>1 DEF BootedInv, TornInv, Followed
  <2> QED  BY <1>0, <2>2, <2>3 DEF BootedInv
<1>4. ASSUME NEW n \in Rows, journal[n].msg = m
      PROVE  \E f \in Rows : IsLast(f) /\ journal[f].msg = m
  <2> DEFINE P == {e - k : k \in {i \in Rows : journal[i].msg = m}}
  <2>1. \A k \in Rows : k \in Nat /\ k <= e
    BY <1>0 DEF Rows
  <2>2. P \in SUBSET Nat /\ P # {}
    <3>1. \A k \in Rows : e - k \in Nat
      BY <1>0, <2>1
    <3> QED  BY <1>4, <3>1
  <2> HIDE DEF P
  <2>3. PICK x \in P : \A y \in P : x <= y
    BY <2>2, OldestOf
  <2>4. PICK f \in Rows : x = e - f /\ journal[f].msg = m
    BY <2>3 DEF P
  <2>5. ASSUME NEW k \in Rows, journal[k].msg = m PROVE k <= f
    <3>1. e - k \in P
      BY <2>5 DEF P
    <3>2. e - f <= e - k
      BY <2>3, <2>4, <3>1
    <3> QED  BY <1>0, <2>1, <3>2
  <2>6. IsLast(f)
    BY <2>4, <2>5 DEF IsLast
  <2> QED  BY <2>4, <2>6
<1> QED
  BY <1>2, <1>3, <1>4

(* The last row is the position now, no row is beyond it, and nothing is   *)
(* torn any more.                                                          *)
LEMMA ReplayBooted ==
    ASSUME OuttakeInv, ReplayDone, ~late, NEW c \in Base .. top, BootedInv(c),
           NEW e \in Rows, \A k \in Rows : k <= e, committed' = e
    PROVE  BootedInv(c)'
<1> USE DEF OuttakeInv
<1>0. MailboxTypeOK /\ c \in Nat /\ DOMAIN log \subseteq Nat
  BY Typed DEF MailboxInv
<1>1. /\ pc = "replay" /\ pc' = "idle" /\ progress' = 0 /\ torn' = torn \ MessagesOf(Rows)
      /\ UNCHANGED <<mailbox, rows, below, listedAt, ckpt, file, kw, journal>>
      /\ UNCHANGED <<top, log, live, lab>>
  BY DEF ReplayDone, Stop, listing, disk, mailbox
<1>2. Resumable /\ cursor = Position /\ Position \in Nat /\ c <= Position
  BY <1>0, <1>1, Typed DEF PlaceInv, BootedInv
<1>3. /\ \A n \in DOMAIN journal : n \in DOMAIN log /\ n \in Nat
      /\ e \in DOMAIN journal /\ e \in Nat /\ Position <= e /\ c < e
  <2>1. \A n \in DOMAIN journal : n \in DOMAIN log
    BY DEF JournalInv, RowFact
  <2> QED  BY <1>0, <1>2, <2>1 DEF Rows, BootedInv
<1>4. Resumable' /\ Position' = e /\ Applied' = e
  BY <1>0, <1>1, <1>3 DEF Resumable, Position, Applied
<1>5. \A n \in DOMAIN journal : n <= e
  <2>1. ASSUME NEW n \in DOMAIN journal PROVE n <= e
    <3>1. n \in Rows \/ n < cursor
      BY <1>2, <1>3 DEF Rows
    <3> QED  BY <1>2, <1>3, <3>1
  <2> QED  BY <2>1
<1>6. \A m \in Msgs \ Unparseable : Owed(m, file, kw, e)
  BY ReplayOwed
<1>a. torn' = {}
  <2>1. ASSUME NEW m \in torn PROVE m \in MessagesOf(Rows)
    <3>1. PICK n \in DOMAIN journal : journal[n].msg = m /\ Position <= n
      BY <1>2, <2>1 DEF BootedInv, TornInv
    <3>2. n \in Rows
      BY <1>2, <1>3, <3>1 DEF Rows
    <3> QED  BY <3>1, <3>2 DEF MessagesOf
  <2> QED  BY <1>1, <2>1
<1>7. ASSUME NEW m \in Msgs \ Unparseable, NEW j \in DOMAIN journal PROVE Owed(m, file, kw, j)'
  <2> PICK F, K : F = file /\ K = kw
    OBVIOUS
  <2>1. Covered(Msgs \ Unparseable, F, K, e)
    BY <1>6 DEF Covered
  <2>2. Covered(Msgs \ Unparseable, F, K, j)
    BY <1>0, <1>3, <1>5, <2>1, OwedEarlier
  <2>3. Owed(m, F, K, j)
    BY <2>2 DEF Covered
  <2>4. Owed(m, F, K, j)'
    BY <1>1, <2>3, StillOwed
  <2> QED  BY <1>1, <2>4
<1>8. Covered(Followed, file, kw, From(c))'
  <2> PICK F, K : F = file /\ K = kw
    OBVIOUS
  <2>1. \A m \in Msgs \ Unparseable : Owed(m, F, K, e)'
    BY <1>1, <1>6, StillOwed
  <2>2. From(c)' = e /\ file' = F /\ kw' = K /\ Followed' \subseteq Msgs \ Unparseable
    BY <1>1, <1>4 DEF From, Followed
  <2> QED  BY <2>1, <2>2 DEF Covered
<1>9. Origin(c)'
  BY <1>1 DEF BootedInv, Origin, HistoryIdOf, Ahead
<1>10. \A n \in DOMAIN log' : c < n /\ Reached(n)' => RowDue(n, DOMAIN journal)'
  <2>1. ASSUME NEW n \in DOMAIN log, c < n, Reached(n)' PROVE RowDue(n, DOMAIN journal)
    <3>1. Reached(n)
      BY <1>1, <1>3, <1>4, <2>1 DEF Reached
    <3> QED  BY <2>1, <3>1 DEF BootedInv
  <2> QED  BY <1>1, <2>1 DEF RowDue, Readable
<1>11. c <= Position'
  BY <1>0, <1>3, <1>4
<1>12. TornInv(c)'
  BY <1>a DEF TornInv
<1>13. Followed' \subseteq Msgs \ Unparseable
  BY DEF Followed
<1> QED
  BY <1>1, <1>7, <1>8, <1>9, <1>10, <1>11, <1>12, <1>13 DEF BootedInv

(* The end of a replay keeps the invariant.                                *)
LEMMA ReplayDoneStep ==
    ASSUME OuttakeInv, ReplayDone
    PROVE  OuttakeInv'
<1> USE DEF OuttakeInv
<1>0. MailboxTypeOK
  BY DEF MailboxInv
<1>1. /\ pc = "replay" /\ pc' = "idle" /\ progress' = 0 /\ at' = 0 /\ cursor' = 0 /\ last' = 0
      /\ DOMAIN jrows' = {}
      /\ UNCHANGED <<mailbox, rows, below, listedAt, ckpt, file, kw, journal, late>>
      /\ UNCHANGED <<top, log, live, lab>>
  BY DEF ReplayDone, Stop, NoRows, listing, disk, mailbox
<1> PICK e \in Rows : (\A k \in Rows : k <= e) /\ committed' = e
  BY DEF ReplayDone
<1>2. e \in DOMAIN journal /\ e \in DOMAIN log
  BY DEF Rows, JournalInv, RowFact
<1>3. e \in Nat /\ e # 0 /\ e >= Base /\ e <= top
  BY <1>0, <1>2, Typed
<1>4. Resumable' /\ Position' = e
  BY <1>0, <1>1, <1>3 DEF Resumable, Position
<1>5. Resumable /\ below = 0 /\ ckpt = Len(rows)
  BY <1>1 DEF PlaceInv, ListingInv
<1>6. MailboxInv' /\ \A m : Touched(m)' <=> Touched(m)
  BY <1>1, StillInv
<1>7. TypeInv'
  <2>1. {progress', committed', cursor', last', listedAt'} \subseteq 0 .. top'
    BY <1>0, <1>1, <1>3, Typed
  <2> QED  BY <1>1, <2>1 DEF TypeInv
<1>8. PlaceInv'
  BY <1>1, <1>3, <1>4, <1>6 DEF PlaceInv
<1>9. ListingInv'
  <2>1. below # Beyond
    BY <1>5, Numbers
  <2> QED
    BY <1>1, <1>5, <1>6, <2>1 DEF ListingInv, ListedOrLater, Ahead
<1>10. JournalInv'
  <2>1. cursor' \in Nat /\ pc' # "apply"
    BY <1>1
  <2> QED  BY <1>1, <2>1, RowsKept
<1>11. BootInv'
  BY <1>1, <1>5, ReplayBooted DEF BootInv, FreshInv
<1> QED
  BY <1>6, <1>7, <1>8, <1>9, <1>10, <1>11

-----------------------------------------------------------------------------
(* Every step of the specification keeps the invariant.                    *)
LEMMA OuttakeStep ==
    ASSUME OuttakeInv, [Next]_vars
    PROVE  OuttakeInv'
<1>1. CASE UNCHANGED vars
  <2>1. UNCHANGED <<top, log, live, lab, floor, rows, below, listedAt, ckpt, file, kw,
                    progress, committed, journal, pc, at, cursor, last, jrows, todo, late, torn>>
    BY <1>1 DEF vars, mailbox, listing, disk, db, run
  <2>2. MailboxInv' /\ \A m : Touched(m)' <=> Touched(m)
    BY <2>1, StillInv DEF OuttakeInv, mailbox
  <2>a. Replayed' <=> Replayed
    BY <2>1 DEF Replayed, Rows, IsLast, Shown, NextRow
  <2>3. TypeInv' /\ PlaceInv' /\ ListingInv'
    BY <2>1, <2>2, <2>a
    DEF OuttakeInv, TypeInv, PlaceInv, ListingInv, ListedOrLater, Ahead, Resumable, Position
  <2>4. JournalInv'
    BY <2>1
    DEF OuttakeInv, JournalInv, RowFact, RowDue, Readable, OwedLabels, Ahead, Touches
  <2>5. BootInv'
    BY <2>1
    DEF OuttakeInv, BootInv, FreshInv, BootedInv, Behind, Origin, HistoryIdOf, Reached, RowAhead,
        From, Applied, RowDue, Readable, Resumable, Position, Followed, TornInv, Covered, Owed,
        OwedFile, OwedDelete, OwedLabels, Ahead, Touches
  <2> QED  BY <2>2, <2>3, <2>4, <2>5 DEF OuttakeInv
<1>2. CASE Gmail
  BY <1>2, GmailStep
<1>3. CASE (Kill \/ NoBootstrap) /\ ~Gmail
  <2>1. Stop /\ UNCHANGED <<mailbox, listing, ckpt, disk, db, late, torn>>
    BY <1>3 DEF Kill, NoBootstrap
  <2>2. ckpt \in ckpt .. Behind
    BY Typed DEF OuttakeInv, MailboxInv, TypeInv, Behind
  <2> QED  BY <2>1, <2>2, EndStep
<1>4. CASE Stages /\ ~NoBootstrap
  BY <1>4, StageStep, ListPageStep, ArchiveRowStep, BootstrapStep, ApplyRecordStep,
     CommitPageStep, CommitStep, StartReplayStep, ReplayRowStep, ReplayDoneStep, ClearStep
  DEF Stages
<1> QED
  BY <1>1, <1>2, <1>3, <1>4 DEF Next, Stages

(* From an empty maildir on: whatever happened to the mailbox while it was *)
(* listed, downloaded and followed, wherever runs were killed, and whether *)
(* the log expired and rows were replayed or the history state cleared,    *)
(* each difference between mailbox and mirror is brought in by a record    *)
(* above the cursor, if every cursor was bootstrapped in time; but for the *)
(* messages whose body does not parse, and those of a replay that was cut  *)
(* off or gave up.                                                         *)
THEOREM MirrorCoveredTheorem == Spec => []MirrorCovered
<1>1. OuttakeInv => MirrorCovered
  <2> SUFFICES ASSUME OuttakeInv, Resumable, ~late
               PROVE  Covered(Followed, file, kw, Position)
    BY DEF MirrorCovered
  <2>1. PICK c \in Base .. top : BootedInv(c)
    BY DEF OuttakeInv, BootInv, FreshInv
  <2>2. MailboxTypeOK /\ Covered(Followed, file, kw, Applied)
    BY <2>1 DEF OuttakeInv, MailboxInv, BootedInv, From
  <2>3. Position \in Nat /\ Applied \in Nat /\ Position <= Applied
    BY <2>2, Typed DEF OuttakeInv, PlaceInv, Applied
  <2> QED  BY <2>2, <2>3, OwedEarlier
<1> QED
  BY <1>1, InitInv, OuttakeStep, PTL DEF Spec
=============================================================================
