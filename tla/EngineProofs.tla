--------------------------- MODULE EngineProofs ---------------------------
(***************************************************************************)
(* Theorems about the Bolt-based engine, for all values of its constants.  *)
(* Of FullSync: outside a write the cache is true to the maildir,          *)
(* reconciliation deletes what is gone only, and a complete session leaves *)
(* an exact mirror of what did not change, whatever runs it took, how they *)
(* ended and what the workers were doing.  Of Incremental: what an update  *)
(* has not done yet has its record above the committed index, in the same  *)
(* circumstances, and with any number of shards.  Of both: the goroutines  *)
(* never all wait for each other.                                          *)
(***************************************************************************)
EXTENDS FullSync, Incremental, MailboxProofs, FiniteSetTheorems, WellFoundedInduction

-----------------------------------------------------------------------------
(* The store                                                               *)

KeysApart == \A m, x \in Msgs : m # x => keyOf[m] \intersect keyOf[x] = {}

FreshApart == \A m \in Msgs : keyOf[m] \intersect fresh = {}

(* The cache has exactly the one file of the message, or there is none.    *)
One(m) ==
    /\ keyOf[m] = {} => labOf[m] = {} /\ FilesOf(m) = {}
    /\ keyOf[m] # {} => \E f \in files : /\ FilesOf(m) = {f} /\ f.key \in keyOf[m]
                                         /\ labOf[m] = {f.labels}

(* The new file is there, and any other is the one to be removed.          *)
Delivered(m) ==
    /\ \E f \in FilesOf(m) : /\ f.key \in fresh /\ f.labels = cur.labels
                             /\ \A g \in FilesOf(m) : g = f \/ g.key \in keyOf[m]
    /\ cur.op = "add" => keyOf[m] = {}
    /\ cur.op = "labels" => FilesAt(keyOf[m]) # {}
    /\ pc = "setkey" => labOf[m] = {cur.labels}

(* The same when the cache has its key.                                    *)
Replaced(m) ==
    /\ \E f \in FilesOf(m) : /\ f.key \in keyOf[m] /\ f.labels = cur.labels
                             /\ \A g \in FilesOf(m) : g = f \/ g.key \in fresh
    /\ FilesAt(fresh) # {}
    /\ labOf[m] = {cur.labels}

(* The message is in the middle of a write.                                *)
MidWrite(m) == pc \in Writing \ {"write"} /\ m = cur.msg

StoreInv ==
    /\ keyOf \in [Msgs -> SUBSET Nat] /\ labOf \in [Msgs -> SUBSET (SUBSET Labels)]
    /\ KeysApart
    /\ pc \in {"setlabels", "setkey", "remove"} => FreshApart
    /\ pc = "dellabels" => keyOf[cur.msg] = {}
    /\ \A m \in Msgs \ cut :
          /\ ~MidWrite(m) => One(m)
          /\ MidWrite(m) /\ pc \in {"setlabels", "setkey"} => Delivered(m)
          /\ MidWrite(m) /\ pc = "remove" => Replaced(m)
          /\ MidWrite(m) /\ pc \in {"delkey", "dellabels"} => FilesOf(m) = {}

(* The step of a write is one of the operation.                            *)
CurKind ==
    /\ pc \in {"setlabels", "setkey"} => cur.op \in {"add", "labels"}
    /\ pc = "remove" => cur.op = "labels"
    /\ pc \in {"delkey", "dellabels"} => cur.op = "delete"

-----------------------------------------------------------------------------
(* The run and its pipeline                                                *)

Outside == {"idle", "clear1", "clear2", "clear3", "clear4", "begin"}

EmptyPipe == page = {} /\ newMsgs = <<>> /\ work = {} /\ ops = <<>>

Kinds == {"none", "error", "add", "labels"}
PipeOps == [op : Kinds, msg : Msgs, labels : SUBSET Labels, hid : Nat]

TypeInv ==
    /\ pc \in Writing \union {"loop", "written", "failed"} \union Outside
    /\ active \in BOOLEAN /\ pageToken \in Tokens /\ token \in Tokens
    /\ seen \subseteq Msgs /\ page \subseteq Msgs
    /\ ppc \in {"off", "fetch", "send", "mark", "done"}
    /\ newMsgs \in Seq(Msgs) /\ ops \in Seq(PipeOps)
    /\ work \subseteq [at : {"body", "meta", "put"}, o : PipeOps]
    /\ todo \subseteq Msgs
    /\ first \in Tokens /\ since \in Base .. top
    /\ first # 0 => Touched(first)
    /\ pc \in Writing => cur \in Ops
    /\ fresh \subseteq Nat /\ {historyIdx, historyId, highest} \subseteq Nat

(* Where the goroutines are in each phase of the run.                      *)
RunInv ==
    /\ pc \in Outside => ppc = "off" /\ EmptyPipe
    /\ pc \notin Outside /\ phase # "update" =>
           ppc # "off" /\ active /\ token = pageToken /\ phase \in {"ops", "reconcile"}
    /\ phase = "update" => pc \notin Outside /\ ppc = "off" /\ EmptyPipe
    /\ pc \in {"clear2", "clear3", "clear4"} => ~active
    /\ pc = "clear1" => phase \in {"reset", "end"}
    /\ Complete => active /\ pageToken = 0
    /\ phase = "reconcile" => pc \notin Outside /\ ppc = "done" /\ EmptyPipe
    /\ ppc = "done" => page = {} /\ token = 0
    /\ ppc = "fetch" => page = {}
    /\ ppc = "mark" => page # {}
    /\ ppc = "fetch" /\ token = 0 => EmptyPipe /\ pc = "loop" /\ phase = "ops"

(* The operation of an incremental run is noted while a session is open.   *)
Taken ==
    /\ cur.op \in {"add", "labels", "delete"}
    /\ pc = "write" /\ cur.op = "add" => keyOf[cur.msg] = {}
    /\ cur.op = "delete" => cur.msg \notin live /\ Touched(cur.msg)
    /\ active => cur.msg \in crossed

(* The operation that is written is one of the phase.                      *)
CurInv ==
    /\ pc \in {"setlabels", "setkey"} =>
           phase \in {"ops", "update"} /\ cur.op \in {"add", "labels"}
    /\ pc = "remove" => phase \in {"ops", "update"} /\ cur.op = "labels"
    /\ pc \in {"delkey", "dellabels"} =>
           phase \in {"reconcile", "update"} /\ cur.op = "delete"
    /\ pc = "write" /\ phase = "ops" => cur.op \in {"add", "labels"}
    /\ pc = "write" /\ phase = "reconcile" => cur.op = "delete"
    /\ pc \in Writing /\ phase = "reconcile" => cur.msg \notin seen
    /\ pc \in Writing /\ phase = "update" => Taken

(* Where a message can be on its way from the list to the store.           *)
MsgsIn(s) == {s[i].msg : i \in DOMAIN s}
InWork == {w.o.msg : w \in work}
Being == IF pc \in Writing /\ phase = "ops" THEN {cur.msg} ELSE {}
Flight == Elements(newMsgs) \union InWork \union MsgsIn(ops) \union Being

(* The rest of the page, and what is sent and not marked as seen.          *)
Unsent == IF ppc = "mark" THEN page \ {Newest(page)} ELSE page
Unmarked == IF ppc = "mark" THEN {Newest(page)} ELSE {}

Single(s) == \A i, j \in DOMAIN s : s[i] = s[j] => i = j
SingleMsgs(s) == \A i, j \in DOMAIN s : s[i].msg = s[j].msg => i = j

(* No message is in the pipeline twice: tokens go down within a run.       *)
OnceInv ==
    /\ Single(newMsgs) /\ SingleMsgs(ops)
    /\ \A v, w \in work : v.o.msg = w.o.msg => v = w
    /\ Unsent \intersect Flight = {}
    /\ Elements(newMsgs) \intersect (InWork \union MsgsIn(ops) \union Being) = {}
    /\ InWork \intersect (MsgsIn(ops) \union Being) = {}
    /\ MsgsIn(ops) \intersect Being = {}
    /\ token # 0 => \A m \in page \union Flight : m >= token

(* The exceptions of UnchangedExact are not this message.                  *)
Steady(m) ==
    /\ m \notin inHand \union cut \union stale \union crossed \union Unparseable
    /\ Untouched(m)

(* What an operation on its way was made from is still so.                 *)
OpTrue(o) ==
    /\ o.op = "add" => keyOf[o.msg] = {}
    /\ o.op = "labels" => keyOf[o.msg] # {}
    /\ Steady(o.msg) /\ o.op # "none" => o.op # "error" /\ o.labels = lab[o.msg]
    /\ Steady(o.msg) /\ o.op = "none" => keyOf[o.msg] # {} /\ labOf[o.msg] = {lab[o.msg]}

OpsInv ==
    /\ \A w \in work : IF w.at = "put" THEN OpTrue(w.o) ELSE w.o.op = "none"
    /\ \A i \in DOMAIN ops : OpTrue(ops[i])
    /\ pc = "write" /\ phase = "ops" => OpTrue(cur)
    /\ pc \in Writing /\ phase = "ops" /\ Steady(cur.msg) => cur.labels = lab[cur.msg]

-----------------------------------------------------------------------------
(* The session                                                             *)

(* Where the listing stands or, outside full runs, will start again.       *)
Paused ==
    pc \in {"idle", "begin"} \/ (pc = "clear1" /\ phase = "reset") \/ phase = "update"

ToList(m) ==
    \/ pageToken = 0 /\ (ppc = "fetch" \/ Paused)
    \/ pageToken # 0 /\ m < pageToken

(* A message that was there when the session was begun is seen, is among   *)
(* the exceptions, or is still to be listed.                               *)
CoverInv ==
    active => \A m \in live :
        m <= first => m \in seen \union inHand \union stale \union page \/ ToList(m)

LiveInv ==
    active => /\ \A m \in page \union Flight \union seen : Steady(m) => m \in live
              /\ \A m \in live : Untouched(m) => m <= first

(* What is seen is on its way or mirrored.                                 *)
DoneInv ==
    active => \A m \in seen \union Unmarked :
        Steady(m) => m \in Unsent \union Flight \/ Mirrored(m)

(* What is gone is still to be reconciled or deleted.                      *)
GoneInv ==
    phase = "reconcile" \/ Complete => \A m \in Msgs \ live :
        Steady(m) => \/ phase = "reconcile" /\ m \in todo
                     \/ pc \in {"write", "delkey"} /\ m = cur.msg
                     \/ keyOf[m] = {}

(* Messages arrive in order.                                               *)
Down == \A m, k \in Msgs : Touched(m) /\ k < m => Touched(k)

FullSyncInv ==
    /\ MailboxInv /\ Down /\ StoreInv /\ TypeInv /\ RunInv /\ CurInv
    /\ OnceInv /\ OpsInv /\ CoverInv /\ LiveInv /\ DoneInv /\ GoneInv

-----------------------------------------------------------------------------
(* The messages are the numbers up to N, those at the start the first of   *)
(* them.                                                                   *)
LEMMA Numbers ==
    /\ \E N \in Nat : Msgs = 1 .. N
    /\ IsFiniteSet(Msgs) /\ Msgs \subseteq Nat \ {0}
    /\ \A m \in Listed, k \in Msgs : k < m => k \in Listed
<1>1. Cardinality(Msgs) \in Nat
  BY FullSyncAssumption, FS_CardinalityType
<1>2. IsFiniteSet(Listed)
  BY FullSyncAssumption, MailboxAssumption, FS_Subset
<1>3. Cardinality(Listed) \in Nat
  BY <1>2, FS_CardinalityType
<1> PICK N \in Nat : Msgs = 1 .. N
  BY <1>1, FullSyncAssumption
<1> PICK L \in Nat : Listed = 1 .. L
  BY <1>3, FullSyncAssumption
<1>4. IsFiniteSet(Msgs)
  BY FullSyncAssumption
<1>5. Msgs \subseteq Nat \ {0}
  OBVIOUS
<1>6. \A m \in Listed, k \in Msgs : k < m => k \in Listed
  OBVIOUS
<1> QED  BY <1>4, <1>5, <1>6

(* A nonempty set of numbers has a least one.                              *)
LEMMA OldestOf ==
    ASSUME NEW P \in SUBSET Nat, P # {}
    PROVE  Oldest(P) \in P /\ \A k \in P : Oldest(P) <= k
<1> DEFINE Less == {ss \in Nat \X Nat : ss[1] < ss[2]}
<1>1. IsWellFoundedOn(Less, Nat)
  BY NatLessThanWellFounded DEF OpToRel
<1>2. ASSUME NEW y \in Nat, NEW z \in Nat, <<y, z>> \notin Less PROVE z <= y
  BY <1>2
<1> HIDE DEF Less
<1>3. PICK x \in P : \A y \in P : ~(<<y, x>> \in Less)
  BY <1>1, WFMin
<1>4. \A k \in P : x <= k
  BY <1>2, <1>3
<1> QED  BY <1>4 DEF Oldest

(* A nonempty set of numbers that has a bound has a greatest one.          *)
LEMMA NewestOf ==
    ASSUME NEW N \in Nat, NEW P \in SUBSET (0 .. N), P # {}
    PROVE  Newest(P) \in P /\ \A k \in P : k <= Newest(P)
<1> DEFINE B == {b \in Nat : \A k \in P : k <= b}
<1>1. N \in B /\ B \in SUBSET Nat
  OBVIOUS
<1> PICK b \in Nat : b = Oldest(B)
  BY <1>1, OldestOf
<1>2. b \in B /\ \A c \in B : b <= c
  BY <1>1, OldestOf
<1>3. b \in P
  <2> SUFFICES ASSUME b \notin P PROVE FALSE
    OBVIOUS
  <2>1. PICK p \in P : TRUE
    OBVIOUS
  <2>2. p \in Nat /\ p <= b /\ p # b
    BY <1>2
  <2>3. b - 1 \in Nat /\ b - 1 < b
    BY <2>2
  <2>4. \A k \in P : k <= b - 1
    BY <1>2
  <2>5. b - 1 \in B
    BY <2>3, <2>4
  <2> QED  BY <1>2, <2>3, <2>5
<1>4. \A k \in P : b >= k
  BY <1>2
<1> QED  BY <1>3, <1>4 DEF Newest

(* Gmail has a history id for every message.                               *)
LEMMA MetaIdType ==
    ASSUME MailboxTypeOK, NEW m
    PROVE  MetaId(m) \in Nat
<1> USE MailboxAssumption
<1>0. DOMAIN log = Base + 1 .. top /\ top \in Nat /\ Base \in Nat /\ top >= Base
  BY DEF MailboxTypeOK
<1> DEFINE R == {n \in DOMAIN log : log[n].msg = m}
<1>1. \E c \in Base .. top : HistoryIdOf(m, c)
  <2>1. CASE R = {}
    BY <1>0, <2>1 DEF HistoryIdOf, Ahead
  <2>2. CASE R # {}
    <3>1. R \in SUBSET (0 .. top)
      BY <1>0
    <3>2. Newest(R) \in R /\ \A k \in R : k <= Newest(R)
      BY <1>0, <2>2, <3>1, NewestOf
    <3> PICK c : c = Newest(R)
      OBVIOUS
    <3>3. c \in R /\ \A k \in R : k <= c
      BY <3>2
    <3>4. c \in Base .. top /\ c \in Nat
      BY <1>0, <3>3
    <3>5. \A n \in Ahead(c) : log[n].msg # m
      <4>1. \A k \in R : ~(k > c)
        <5> HIDE DEF R
        <5>1. ASSUME NEW k \in R PROVE k \in Nat /\ k <= c
          BY <1>0, <3>1, <3>3
        <5> QED  BY <3>4, <5>1
      <4> QED  BY <1>0, <4>1 DEF Ahead
    <3>6. HistoryIdOf(m, c)
      BY <3>3, <3>5 DEF HistoryIdOf
    <3> QED  BY <3>4, <3>6
  <2> QED  BY <2>1, <2>2
<1>2. MetaId(m) \in Base .. top
  BY <1>1 DEF MetaId
<1> QED  BY <1>0, <1>2

(* A key that is delivered to is that of no other file and no message.     *)
LEMMA NewKeyFree ==
    ASSUME Keys \ Used # {}
    PROVE  NewKey \in Nat /\ NewKey \notin Used
<1>1. Keys \ Used \in SUBSET Nat
  BY StoreAssumption DEF Keys
<1>2. NewKey = Oldest(Keys \ Used)
  BY DEF NewKey, Oldest
<1> QED  BY <1>1, <1>2, OldestOf

-----------------------------------------------------------------------------
(* Sequences                                                               *)

(* The first element leaves a sequence.                                    *)
LEMMA TailOf ==
    ASSUME NEW S, NEW s \in Seq(S), s # <<>>
    PROVE  /\ Tail(s) \in Seq(S) /\ Head(s) \in S /\ 1 \in DOMAIN s /\ Head(s) = s[1]
           /\ \A i \in DOMAIN Tail(s) : i + 1 \in DOMAIN s /\ Tail(s)[i] = s[i + 1]
           /\ \A j \in DOMAIN s : j = 1 \/ (j - 1 \in DOMAIN Tail(s) /\ Tail(s)[j - 1] = s[j])
           /\ DOMAIN s \subseteq Nat /\ DOMAIN Tail(s) \subseteq Nat \ {0}
<1>1. Len(s) \in Nat \ {0} /\ DOMAIN s = 1 .. Len(s)
  OBVIOUS
<1>2. Tail(s) \in Seq(S) /\ DOMAIN Tail(s) = 1 .. Len(s) - 1 /\ Head(s) = s[1]
  OBVIOUS
<1>3. \A i \in 1 .. Len(s) - 1 : Tail(s)[i] = s[i + 1]
  OBVIOUS
<1> QED  BY <1>1, <1>2, <1>3

(* What leaves a sequence without repetitions is no longer in it.          *)
LEMMA TailSingle ==
    ASSUME NEW S, NEW s \in Seq(S), s # <<>>, Single(s)
    PROVE  /\ Single(Tail(s)) /\ Head(s) \in Elements(s)
           /\ Elements(Tail(s)) = Elements(s) \ {Head(s)}
<1>1. \A i, j \in DOMAIN Tail(s) : i + 1 = j + 1 => i = j
  BY TailOf
<1>2. \A i \in DOMAIN Tail(s) : i + 1 # 1
  BY TailOf
<1>3. Single(Tail(s)) /\ Head(s) \in Elements(s)
  BY <1>1, TailOf DEF Single, Elements
<1>4. \A i \in DOMAIN Tail(s) : Tail(s)[i] \in Elements(s) /\ Tail(s)[i] # Head(s)
  BY <1>2, TailOf DEF Single, Elements
<1>5. \A j \in DOMAIN s : s[j] = Head(s) \/ s[j] \in Elements(Tail(s))
  <2> SUFFICES ASSUME NEW j \in DOMAIN s, j # 1 PROVE s[j] \in Elements(Tail(s))
    BY TailOf
  <2>1. j - 1 \in DOMAIN Tail(s) /\ Tail(s)[j - 1] = s[j]
    BY TailOf
  <2> QED  BY <2>1 DEF Elements
<1>6. \A x \in Elements(Tail(s)) : x \in Elements(s) /\ x # Head(s)
  BY <1>4 DEF Elements
<1>7. \A x \in Elements(s) : x = Head(s) \/ x \in Elements(Tail(s))
  BY <1>5 DEF Elements
<1> QED  BY <1>3, <1>6, <1>7

(* The same for operations, which are told apart by their messages.        *)
LEMMA TailSingleMsgs ==
    ASSUME NEW S, NEW s \in Seq(S), s # <<>>, SingleMsgs(s)
    PROVE  /\ SingleMsgs(Tail(s)) /\ Head(s).msg \in MsgsIn(s)
           /\ MsgsIn(Tail(s)) = MsgsIn(s) \ {Head(s).msg}
<1>1. \A i, j \in DOMAIN Tail(s) : i + 1 = j + 1 => i = j
  BY TailOf
<1>2. \A i \in DOMAIN Tail(s) : i + 1 # 1
  BY TailOf
<1>3. SingleMsgs(Tail(s)) /\ Head(s).msg \in MsgsIn(s)
  BY <1>1, TailOf DEF SingleMsgs, MsgsIn
<1>4. \A i \in DOMAIN Tail(s) : Tail(s)[i].msg \in MsgsIn(s) /\ Tail(s)[i].msg # Head(s).msg
  BY <1>2, TailOf DEF SingleMsgs, MsgsIn
<1>5. \A j \in DOMAIN s : s[j].msg = Head(s).msg \/ s[j].msg \in MsgsIn(Tail(s))
  <2> SUFFICES ASSUME NEW j \in DOMAIN s, j # 1 PROVE s[j].msg \in MsgsIn(Tail(s))
    BY TailOf
  <2>1. j - 1 \in DOMAIN Tail(s) /\ Tail(s)[j - 1] = s[j]
    BY TailOf
  <2> QED  BY <2>1 DEF MsgsIn
<1>6. \A x \in MsgsIn(Tail(s)) : x \in MsgsIn(s) /\ x # Head(s).msg
  BY <1>4 DEF MsgsIn
<1>7. \A x \in MsgsIn(s) : x = Head(s).msg \/ x \in MsgsIn(Tail(s))
  BY <1>5 DEF MsgsIn
<1> QED  BY <1>3, <1>6, <1>7

(* An element is added at the end.                                         *)
LEMMA AppendOf ==
    ASSUME NEW S, NEW s \in Seq(S), NEW e \in S
    PROVE  /\ Append(s, e) \in Seq(S)
           /\ DOMAIN Append(s, e) = DOMAIN s \union {Len(s) + 1}
           /\ Append(s, e)[Len(s) + 1] = e
           /\ \A i \in DOMAIN s : Append(s, e)[i] = s[i]
OBVIOUS

(* A new element comes at the end of a sequence without repetitions.       *)
LEMMA AppendSingle ==
    ASSUME NEW S, NEW s \in Seq(S), NEW e \in S, Single(s), e \notin Elements(s)
    PROVE  Single(Append(s, e)) /\ Elements(Append(s, e)) = Elements(s) \union {e}
BY AppendOf DEF Single, Elements

(* The same for operations.                                                *)
LEMMA AppendSingleMsgs ==
    ASSUME NEW S, NEW s \in Seq(S), NEW e \in S, SingleMsgs(s), e.msg \notin MsgsIn(s)
    PROVE  SingleMsgs(Append(s, e)) /\ MsgsIn(Append(s, e)) = MsgsIn(s) \union {e.msg}
BY AppendOf DEF SingleMsgs, MsgsIn

-----------------------------------------------------------------------------
(* Writes                                                                  *)

(* What is said of a message depends on its own files and keys alone.      *)
LEMMA OneKept ==
    ASSUME NEW x, One(x), keyOf'[x] = keyOf[x], labOf'[x] = labOf[x],
           FilesOf(x)' = FilesOf(x)
    PROVE  One(x)'
BY DEF One, FilesOf

(* A delivery adds one file, under a key that nothing has.                 *)
LEMMA DeliverFile ==
    ASSUME NEW m \in Msgs, NEW L, Deliver(m, L)
    PROVE  \E f : /\ files' = files \union {f} /\ fresh' = {f.key}
                  /\ f.msg = m /\ f.labels = L /\ f.key \in Nat
                  /\ \A x \in Msgs : f.key \notin keyOf[x]
                  /\ \A g \in files : g.key # f.key
                  /\ FilesOf(m)' = FilesOf(m) \union {f}
                  /\ \A x \in Msgs \ {m} : FilesOf(x)' = FilesOf(x)
<1> PICK k : k = NewKey
  OBVIOUS
<1>1. k \in Nat /\ k \notin Used
  BY NewKeyFree DEF Deliver
<1> DEFINE f == [key |-> k, msg |-> m, labels |-> L]
<1>2. files' = files \union {f} /\ fresh' = {f.key} /\ f.msg = m /\ f.labels = L
  BY DEF Deliver
<1>3. \A x \in Msgs : f.key \notin keyOf[x]
  BY <1>1 DEF Used
<1>4. \A g \in files : g.key # f.key
  BY <1>1 DEF Used
<1>5. /\ FilesOf(m)' = FilesOf(m) \union {f}
      /\ \A x \in Msgs \ {m} : FilesOf(x)' = FilesOf(x)
  BY <1>2 DEF FilesOf
<1>6. f.key \in Nat
  BY <1>1
<1> HIDE DEF f
<1> QED  BY <1>2, <1>3, <1>4, <1>5, <1>6

(* A removal takes the files at the keys.                                  *)
LEMMA RemoveFiles ==
    ASSUME NEW K, files' = files \ FilesAt(K), NEW x
    PROVE  /\ FilesOf(x)' = {f \in FilesOf(x) : f.key \notin K}
           /\ One(x) /\ keyOf[x] \intersect K = {} => FilesOf(x)' = FilesOf(x)
<1>1. FilesOf(x)' = {f \in FilesOf(x) : f.key \notin K}
  BY DEF FilesOf, FilesAt
<1>2. ASSUME One(x), keyOf[x] \intersect K = {}
      PROVE  \A f \in FilesOf(x) : f.key \notin K
  BY <1>2 DEF One
<1> QED  BY <1>1, <1>2

(* A step that neither writes nor ends a write keeps the store.            *)
LEMMA StoreStill ==
    ASSUME StoreInv, UNCHANGED store, pc \notin Writing \ {"write"},
           pc' \notin Writing \ {"write"}, cut \subseteq cut'
    PROVE  StoreInv'
<1>1. \A m : ~MidWrite(m) /\ ~MidWrite(m)'
  BY DEF MidWrite
<1>2. ASSUME NEW m \in Msgs \ cut' PROVE One(m)'
  BY <1>1, OneKept DEF StoreInv, FilesOf, store
<1>3. pc' \notin {"setlabels", "setkey", "remove", "dellabels"}
  BY DEF Writing
<1>4. KeysApart'
  BY DEF StoreInv, KeysApart, store
<1>5. keyOf' = keyOf /\ labOf' = labOf
  BY DEF store
<1> QED
  BY <1>1, <1>2, <1>3, <1>4, <1>5 DEF StoreInv

(* The facts that every step of a write is about.                          *)
WriteFrame ==
    /\ StoreInv /\ CurKind /\ cur \in Ops /\ cur.msg \in Msgs /\ fresh \subseteq Nat
    /\ pc = "write" /\ cur.op = "add" => keyOf[cur.msg] = {}
    /\ UNCHANGED <<cur, cut>>

(* A change of labels of a message that the cache does not have.           *)
Dropped == pc = "write" /\ cur.op = "labels" /\ keyOf[cur.msg] = {}

(* What a step of a write gives: the store is true again for the message,  *)
(* as the operation has it, when the write is done.  Only a write of a     *)
(* message that an earlier kill has left half written can fail.            *)
WriteResult ==
    /\ StoreInv'
    /\ \A x \in Msgs \ {cur.msg} : /\ keyOf'[x] = keyOf[x] /\ labOf'[x] = labOf[x]
                                   /\ x \notin cut => FilesOf(x)' = FilesOf(x)
    /\ pc' = "written" /\ cur.op # "delete" /\ cur.msg \notin cut =>
           Dropped \/ \E f \in files' : FilesOf(cur.msg)' = {f} /\ f.labels = cur.labels
    /\ pc' = "failed" => cur.msg \in cut

(* The start of an addition.                                               *)
LEMMA WriteAddStore ==
    ASSUME WriteFrame, WriteAdd
    PROVE  WriteResult
<1> PICK m : m = cur.msg
  OBVIOUS
<1>0. m \in Msgs /\ pc = "write" /\ pc' = "setlabels" /\ cur' = cur /\ cut' = cut
      /\ keyOf' = keyOf /\ labOf' = labOf /\ cur.op = "add" /\ Deliver(m, cur.labels)
  BY DEF WriteFrame, WriteAdd, Goto
<1> PICK f : /\ files' = files \union {f} /\ fresh' = {f.key}
             /\ f.msg = m /\ f.labels = cur.labels /\ f.key \in Nat
             /\ \A x \in Msgs : f.key \notin keyOf[x]
             /\ \A g \in files : g.key # f.key
             /\ FilesOf(m)' = FilesOf(m) \union {f}
             /\ \A x \in Msgs \ {m} : FilesOf(x)' = FilesOf(x)
  BY <1>0, DeliverFile
<1>1. keyOf[m] = {}
  BY <1>0 DEF WriteFrame
<1>2. \A x : ~MidWrite(x) /\ (MidWrite(x)' <=> x = m)
  BY <1>0 DEF MidWrite, Writing
<1>3. ASSUME NEW x \in Msgs \ cut, x # m PROVE One(x)'
  BY <1>0, <1>2, <1>3, OneKept DEF WriteFrame, StoreInv
<1>4. ASSUME m \notin cut PROVE Delivered(m)'
  <2>1. FilesOf(m) = {}
    BY <1>0, <1>1, <1>2, <1>4 DEF WriteFrame, StoreInv, One
  <2> QED  BY <1>0, <1>1, <2>1 DEF Delivered
<1>5. KeysApart' /\ FreshApart'
  BY <1>0 DEF WriteFrame, StoreInv, KeysApart, FreshApart
<1>6. StoreInv'
  BY <1>0, <1>2, <1>3, <1>4, <1>5 DEF WriteFrame, StoreInv
<1> QED
  BY <1>0, <1>6 DEF WriteResult

(* The start of a change of labels: it is dropped when the message is      *)
(* unknown, and fails when its file is missing.                            *)
LEMMA WriteLabelsStore ==
    ASSUME WriteFrame, WriteLabels
    PROVE  WriteResult
<1> PICK m : m = cur.msg
  OBVIOUS
<1>0. m \in Msgs /\ pc = "write" /\ cur' = cur /\ cut' = cut /\ cur.op = "labels"
  BY DEF WriteFrame, WriteLabels, Goto
<1>2. \A x : ~MidWrite(x)
  BY <1>0 DEF MidWrite
<1>1. CASE keyOf[m] = {}
  <2>1. pc' = "written" /\ UNCHANGED <<store, fresh>>
    BY <1>0, <1>1 DEF WriteLabels, Goto, FilesAt
  <2>2. StoreInv'
    BY <1>0, <2>1, StoreStill DEF WriteFrame, Writing
  <2> QED
    BY <1>0, <1>1, <2>1, <2>2 DEF WriteResult, Dropped, store, FilesOf
<1>3. CASE keyOf[m] # {} /\ FilesAt(keyOf[m]) = {}
  <2>1. pc' = "failed" /\ UNCHANGED <<store, fresh>>
    BY <1>0, <1>3 DEF WriteLabels, Goto
  <2>2. m \in cut
    BY <1>0, <1>2, <1>3 DEF WriteFrame, StoreInv, One, FilesAt
  <2>3. StoreInv'
    BY <1>0, <2>1, StoreStill DEF WriteFrame, Writing
  <2> QED
    BY <1>0, <2>1, <2>2, <2>3 DEF WriteResult, store, FilesOf
<1>4. CASE FilesAt(keyOf[m]) # {}
  <2>1. keyOf[m] # {}
    BY <1>4 DEF FilesAt
  <2>0. pc' = "setlabels" /\ keyOf' = keyOf /\ labOf' = labOf /\ Deliver(m, cur.labels)
    BY <1>0, <1>4, <2>1 DEF WriteLabels, Goto
  <2> PICK f : /\ files' = files \union {f} /\ fresh' = {f.key}
               /\ f.msg = m /\ f.labels = cur.labels /\ f.key \in Nat
               /\ \A x \in Msgs : f.key \notin keyOf[x]
               /\ \A g \in files : g.key # f.key
               /\ FilesOf(m)' = FilesOf(m) \union {f}
               /\ \A x \in Msgs \ {m} : FilesOf(x)' = FilesOf(x)
    BY <1>0, <2>0, DeliverFile
  <2>2. \A x : MidWrite(x)' <=> x = m
    BY <1>0, <2>0 DEF MidWrite, Writing
  <2>3. ASSUME NEW x \in Msgs \ cut, x # m PROVE One(x)'
    BY <1>0, <1>2, <2>0, <2>3, OneKept DEF WriteFrame, StoreInv
  <2>4. ASSUME m \notin cut PROVE Delivered(m)'
    <3>1. \A g \in FilesOf(m) : g.key \in keyOf[m]
      BY <1>0, <1>2, <2>1, <2>4 DEF WriteFrame, StoreInv, One
    <3>2. (FilesAt(keyOf[m]) # {})'
      BY <1>4, <2>0, <1>0 DEF FilesAt
    <3> QED  BY <1>0, <2>0, <3>1, <3>2 DEF Delivered
  <2>5. KeysApart' /\ FreshApart'
    BY <2>0 DEF WriteFrame, StoreInv, KeysApart, FreshApart
  <2>6. StoreInv'
    BY <1>0, <2>0, <2>2, <2>3, <2>4, <2>5 DEF WriteFrame, StoreInv
  <2> QED
    BY <1>0, <2>0, <2>6 DEF WriteResult
<1> QED
  BY <1>1, <1>3, <1>4

(* The labels are written before the key.                                  *)
LEMMA SetMsgLabelsStore ==
    ASSUME WriteFrame, SetMsgLabels
    PROVE  WriteResult
<1> PICK m : m = cur.msg
  OBVIOUS
<1>0. /\ m \in Msgs /\ pc = "setlabels" /\ pc' = "setkey" /\ cur' = cur /\ cut' = cut
      /\ keyOf' = keyOf /\ files' = files /\ fresh' = fresh
      /\ labOf' = [labOf EXCEPT ![m] = {cur.labels}]
  BY DEF WriteFrame, SetMsgLabels, Goto
<1>1. \A x : (MidWrite(x) <=> x = m) /\ (MidWrite(x)' <=> x = m)
  BY <1>0 DEF MidWrite, Writing
<1>2. /\ labOf' \in [Msgs -> SUBSET (SUBSET Labels)] /\ labOf'[m] = {cur.labels}
      /\ \A x \in Msgs \ {m} : labOf'[x] = labOf[x]
  BY <1>0 DEF WriteFrame, StoreInv, Ops
<1>3. ASSUME NEW x \in Msgs \ cut, x # m PROVE One(x)'
  BY <1>0, <1>1, <1>2, <1>3, OneKept DEF WriteFrame, StoreInv, FilesOf
<1>4. ASSUME m \notin cut PROVE Delivered(m)'
  <2>1. Delivered(m)
    BY <1>0, <1>1, <1>4 DEF WriteFrame, StoreInv
  <2> QED  BY <1>0, <1>2, <2>1 DEF Delivered, FilesOf, FilesAt
<1>5. KeysApart' /\ FreshApart'
  BY <1>0 DEF WriteFrame, StoreInv, KeysApart, FreshApart
<1>6. StoreInv'
  BY <1>0, <1>1, <1>2, <1>3, <1>4, <1>5 DEF WriteFrame, StoreInv
<1> QED
  BY <1>0, <1>2, <1>6 DEF WriteResult, FilesOf

(* The key is written: an addition is done, a change has an old file left. *)
LEMMA SetMsgKeyStore ==
    ASSUME WriteFrame, SetMsgKey
    PROVE  WriteResult
<1> PICK m : m = cur.msg
  OBVIOUS
<1>0. /\ m \in Msgs /\ pc = "setkey" /\ cur' = cur /\ cut' = cut
      /\ pc' = (IF cur.op = "add" THEN "written" ELSE "remove")
      /\ labOf' = labOf /\ files' = files /\ fresh' = keyOf[m]
      /\ keyOf' = [keyOf EXCEPT ![m] = fresh]
  BY DEF WriteFrame, SetMsgKey, Goto
<1>1. \A x : MidWrite(x) <=> x = m
  BY <1>0 DEF MidWrite, Writing
<1>2. /\ keyOf' \in [Msgs -> SUBSET Nat] /\ keyOf'[m] = fresh
      /\ \A x \in Msgs \ {m} : keyOf'[x] = keyOf[x]
  BY <1>0 DEF WriteFrame, StoreInv
<1>3. ASSUME NEW x \in Msgs \ cut, x # m PROVE One(x)'
  BY <1>0, <1>1, <1>2, <1>3, OneKept DEF WriteFrame, StoreInv, FilesOf
<1>4. FreshApart /\ KeysApart
  BY <1>0 DEF WriteFrame, StoreInv
<1>5. KeysApart' /\ FreshApart'
  BY <1>0, <1>2, <1>4 DEF KeysApart, FreshApart
<1>6. m \notin cut => Delivered(m)
  BY <1>0, <1>1 DEF WriteFrame, StoreInv
<1>7. cur.op \in {"add", "labels"}
  BY <1>0 DEF WriteFrame, CurKind
<1>8. CASE cur.op = "add"
  <2>1. \A x : ~MidWrite(x)'
    BY <1>0, <1>8 DEF MidWrite, Writing
  <2>2. ASSUME m \notin cut
        PROVE  /\ One(m)'
               /\ \E f \in files' : FilesOf(m)' = {f} /\ f.labels = cur.labels
    <3> PICK f \in FilesOf(m) : /\ f.key \in fresh /\ f.labels = cur.labels
                                /\ \A g \in FilesOf(m) : g = f \/ g.key \in keyOf[m]
      BY <1>6, <2>2 DEF Delivered
    <3>1. FilesOf(m) = {f} /\ f \in files
      BY <1>6, <1>8, <2>2 DEF Delivered, FilesOf
    <3>2. labOf'[m] = {f.labels}
      BY <1>0, <1>6, <2>2 DEF Delivered
    <3>3. FilesOf(m)' = {f}
      BY <1>0, <3>1 DEF FilesOf
    <3> QED  BY <1>0, <1>2, <3>1, <3>2, <3>3 DEF One
  <2>3. StoreInv'
    BY <1>0, <1>2, <1>3, <1>5, <1>8, <2>1, <2>2 DEF WriteFrame, StoreInv
  <2> QED
    BY <1>0, <1>2, <1>8, <2>2, <2>3 DEF WriteResult, FilesOf
<1>9. CASE cur.op = "labels"
  <2>1. \A x : MidWrite(x)' <=> x = m
    BY <1>0, <1>9 DEF MidWrite, Writing
  <2>2. ASSUME m \notin cut PROVE Replaced(m)'
    BY <1>0, <1>2, <1>6, <1>9, <2>2 DEF Delivered, Replaced, FilesOf, FilesAt
  <2>3. StoreInv'
    BY <1>0, <1>2, <1>3, <1>5, <1>9, <2>1, <2>2 DEF WriteFrame, StoreInv
  <2> QED
    BY <1>0, <1>2, <1>9, <2>3 DEF WriteResult, FilesOf
<1> QED
  BY <1>7, <1>8, <1>9

(* The old file goes.                                                      *)
LEMMA RemoveOldStore ==
    ASSUME WriteFrame, RemoveOld
    PROVE  WriteResult
<1> PICK m : m = cur.msg
  OBVIOUS
<1>0. /\ m \in Msgs /\ pc = "remove" /\ cur' = cur /\ cut' = cut
      /\ labOf' = labOf /\ keyOf' = keyOf /\ fresh' = fresh
  BY DEF WriteFrame, RemoveOld, Remove, Goto
<1>1. \A x : MidWrite(x) <=> x = m
  BY <1>0 DEF MidWrite, Writing
<1>2. FreshApart /\ KeysApart
  BY <1>0 DEF WriteFrame, StoreInv
<1>3. m \notin cut => Replaced(m)
  BY <1>0, <1>1 DEF WriteFrame, StoreInv
<1>4. CASE FilesAt(fresh) = {}
  <2>1. pc' = "failed" /\ files' = files
    BY <1>4 DEF RemoveOld, Remove, Goto
  <2>2. m \in cut
    BY <1>3, <1>4 DEF Replaced
  <2>3. \A x : ~MidWrite(x)'
    BY <2>1 DEF MidWrite, Writing
  <2>4. ASSUME NEW x \in Msgs \ cut PROVE One(x)'
    BY <1>0, <1>1, <2>1, <2>2, OneKept DEF WriteFrame, StoreInv, FilesOf
  <2>5. StoreInv'
    BY <1>0, <1>2, <2>1, <2>3, <2>4 DEF WriteFrame, StoreInv, KeysApart
  <2> QED
    BY <1>0, <2>1, <2>2, <2>5 DEF WriteResult, FilesOf
<1>5. CASE FilesAt(fresh) # {}
  <2>1. pc' = "written" /\ files' = files \ FilesAt(fresh)
    BY <1>5 DEF RemoveOld, Remove, Goto
  <2>2. \A x : FilesOf(x)' = {f \in FilesOf(x) : f.key \notin fresh}
    BY <2>1, RemoveFiles
  <2>3. \A x : ~MidWrite(x)'
    BY <2>1 DEF MidWrite, Writing
  <2>4. ASSUME NEW x \in Msgs \ cut, x # m PROVE One(x)' /\ FilesOf(x)' = FilesOf(x)
    <3>1. One(x) /\ keyOf[x] \intersect fresh = {}
      BY <1>1, <1>2, <2>4 DEF WriteFrame, StoreInv, FreshApart
    <3>2. FilesOf(x)' = FilesOf(x)
      BY <2>1, <3>1, RemoveFiles
    <3> QED  BY <1>0, <3>1, <3>2, OneKept
  <2>5. ASSUME m \notin cut
        PROVE  /\ One(m)'
               /\ \E f \in files' : FilesOf(m)' = {f} /\ f.labels = cur.labels
    <3> PICK f \in FilesOf(m) : /\ f.key \in keyOf[m] /\ f.labels = cur.labels
                                /\ \A g \in FilesOf(m) : g = f \/ g.key \in fresh
      BY <1>3, <2>5 DEF Replaced
    <3>1. f.key \notin fresh
      BY <1>0, <1>2 DEF FreshApart
    <3>2. FilesOf(m)' = {f}
      BY <2>2, <3>1
    <3>3. f \in files'
      BY <3>2 DEF FilesOf
    <3>4. labOf'[m] = {f.labels} /\ keyOf'[m] # {}
      BY <1>0, <1>3, <2>5 DEF Replaced
    <3> QED  BY <1>0, <3>2, <3>3, <3>4 DEF One
  <2>6. StoreInv'
    BY <1>0, <1>2, <2>1, <2>3, <2>4, <2>5 DEF WriteFrame, StoreInv, KeysApart
  <2> QED
    BY <1>0, <2>1, <2>4, <2>5, <2>6 DEF WriteResult
<1> QED
  BY <1>4, <1>5

(* The file of a message that is to be deleted goes.                       *)
LEMMA WriteDelStore ==
    ASSUME WriteFrame, WriteDel
    PROVE  WriteResult
<1> PICK m : m = cur.msg
  OBVIOUS
<1>0. /\ m \in Msgs /\ pc = "write" /\ cur' = cur /\ cut' = cut
      /\ labOf' = labOf /\ keyOf' = keyOf /\ fresh' = fresh /\ cur.op = "delete"
  BY DEF WriteFrame, WriteDel, Remove, Goto
<1>1. \A x : ~MidWrite(x)
  BY <1>0 DEF MidWrite
<1>2. KeysApart /\ \A x \in Msgs \ cut : One(x)
  BY <1>1 DEF WriteFrame, StoreInv
<1>4. CASE pc' \in {"written", "failed"} /\ files' = files
  <2>1. StoreInv'
    BY <1>0, <1>4, StoreStill DEF WriteFrame, Writing, store
  <2>2. pc' = "failed" => m \in cut
    BY <1>0, <1>2, <1>4 DEF WriteDel, Remove, Goto, One, FilesAt
  <2> QED
    BY <1>0, <1>4, <2>1, <2>2 DEF WriteResult, FilesOf
<1>5. CASE pc' = "delkey" /\ files' = files \ FilesAt(keyOf[m])
  <2>2. \A x : FilesOf(x)' = {f \in FilesOf(x) : f.key \notin keyOf[m]}
    BY <1>5, RemoveFiles
  <2>3. \A x : MidWrite(x)' <=> x = m
    BY <1>0, <1>5 DEF MidWrite, Writing
  <2>4. ASSUME NEW x \in Msgs \ cut, x # m PROVE One(x)' /\ FilesOf(x)' = FilesOf(x)
    <3>1. One(x) /\ keyOf[x] \intersect keyOf[m] = {}
      BY <1>0, <1>2, <2>4 DEF KeysApart
    <3>2. FilesOf(x)' = FilesOf(x)
      BY <1>5, <3>1, RemoveFiles
    <3> QED  BY <1>0, <3>1, <3>2, OneKept
  <2>5. ASSUME m \notin cut PROVE FilesOf(m)' = {}
    <3>1. \A f \in FilesOf(m) : f.key \in keyOf[m]
      BY <1>0, <1>2, <2>5 DEF One
    <3> QED  BY <2>2, <3>1
  <2>6. StoreInv'
    BY <1>0, <1>2, <1>5, <2>3, <2>4, <2>5 DEF WriteFrame, StoreInv, KeysApart
  <2> QED
    BY <1>0, <1>5, <2>4, <2>6 DEF WriteResult
<1> QED
  BY <1>0, <1>4, <1>5 DEF WriteDel, Remove, Goto

(* Its key is forgotten ...                                                *)
LEMMA DelMsgKeyStore ==
    ASSUME WriteFrame, DelMsgKey
    PROVE  WriteResult
<1> PICK m : m = cur.msg
  OBVIOUS
<1>0. /\ m \in Msgs /\ pc = "delkey" /\ cur' = cur /\ cut' = cut /\ pc' = "dellabels"
      /\ labOf' = labOf /\ files' = files /\ fresh' = fresh
      /\ keyOf' = [keyOf EXCEPT ![m] = {}]
  BY DEF WriteFrame, DelMsgKey, Goto
<1>1. \A x : (MidWrite(x) <=> x = m) /\ (MidWrite(x)' <=> x = m)
  BY <1>0 DEF MidWrite, Writing
<1>2. /\ keyOf' \in [Msgs -> SUBSET Nat] /\ keyOf'[m] = {}
      /\ \A x \in Msgs \ {m} : keyOf'[x] = keyOf[x]
  BY <1>0 DEF WriteFrame, StoreInv
<1>3. ASSUME NEW x \in Msgs \ cut, x # m PROVE One(x)'
  BY <1>0, <1>1, <1>2, <1>3, OneKept DEF WriteFrame, StoreInv, FilesOf
<1>4. m \notin cut => FilesOf(m)' = {}
  BY <1>0, <1>1 DEF WriteFrame, StoreInv, FilesOf
<1>5. KeysApart'
  BY <1>2 DEF WriteFrame, StoreInv, KeysApart
<1>6. StoreInv'
  BY <1>0, <1>1, <1>2, <1>3, <1>4, <1>5 DEF WriteFrame, StoreInv
<1> QED
  BY <1>0, <1>2, <1>6 DEF WriteResult, FilesOf

(* ... and then its labels.                                                *)
LEMMA DelMsgLabelsStore ==
    ASSUME WriteFrame, DelMsgLabels
    PROVE  WriteResult
<1> PICK m : m = cur.msg
  OBVIOUS
<1>0. /\ m \in Msgs /\ pc = "dellabels" /\ cur' = cur /\ cut' = cut /\ pc' = "written"
      /\ keyOf' = keyOf /\ files' = files /\ fresh' = fresh
      /\ labOf' = [labOf EXCEPT ![m] = {}]
  BY DEF WriteFrame, DelMsgLabels, Goto
<1>1. \A x : (MidWrite(x) <=> x = m) /\ ~MidWrite(x)'
  BY <1>0 DEF MidWrite, Writing
<1>2. /\ labOf' \in [Msgs -> SUBSET (SUBSET Labels)] /\ labOf'[m] = {}
      /\ \A x \in Msgs \ {m} : labOf'[x] = labOf[x]
  BY <1>0 DEF WriteFrame, StoreInv
<1>3. ASSUME NEW x \in Msgs \ cut, x # m PROVE One(x)'
  BY <1>0, <1>1, <1>2, <1>3, OneKept DEF WriteFrame, StoreInv, FilesOf
<1>4. ASSUME m \notin cut PROVE One(m)'
  <2>1. FilesOf(m)' = {} /\ keyOf'[m] = {}
    BY <1>0, <1>1, <1>4 DEF WriteFrame, StoreInv, FilesOf
  <2> QED  BY <1>2, <2>1 DEF One
<1>5. KeysApart'
  BY <1>0 DEF WriteFrame, StoreInv, KeysApart
<1>6. StoreInv'
  BY <1>0, <1>1, <1>2, <1>3, <1>4, <1>5 DEF WriteFrame, StoreInv
<1>7. cur.op = "delete"
  BY <1>0 DEF WriteFrame, CurKind
<1> QED
  BY <1>0, <1>2, <1>6, <1>7 DEF WriteResult, FilesOf

(* Every step of a write.                                                  *)
LEMMA WriteStore ==
    ASSUME WriteFrame, WriteOperation
    PROVE  WriteResult
BY WriteAddStore, WriteLabelsStore, SetMsgLabelsStore, SetMsgKeyStore, RemoveOldStore,
   WriteDelStore, DelMsgKeyStore, DelMsgLabelsStore DEF WriteOperation

(* The key in hand is one that was delivered to or one from the cache.     *)
LEMMA FreshType ==
    ASSUME WriteFrame, WriteOperation
    PROVE  fresh' \subseteq Nat
<1>1. cur.msg \in Msgs /\ keyOf[cur.msg] \subseteq Nat /\ fresh \subseteq Nat
  BY DEF WriteFrame, StoreInv
<1>2. CASE Deliver(cur.msg, cur.labels)
  BY <1>1, <1>2, DeliverFile
<1>3. CASE fresh' = fresh \/ fresh' = keyOf[cur.msg]
  BY <1>1, <1>3
<1> QED
  BY <1>2, <1>3 DEF WriteOperation, WriteAdd, WriteLabels, SetMsgLabels, SetMsgKey, RemoveOld,
     WriteDel, DelMsgKey, DelMsgLabels

-----------------------------------------------------------------------------
(* The mailbox                                                             *)

(* A change from outside is one of the mailbox's, or an expiry.            *)
LEMMA ExternalKinds ==
    ASSUME External
    PROVE  \/ MailboxNext
           \/ UNCHANGED <<top, log, live, lab>> /\ Expire(historyIdx + 1)
<1>1. CASE Arrive
  BY <1>1 DEF Arrive, MailboxNext
<1>2. CASE \E m \in Msgs : DeleteMessage(m)
  BY <1>2 DEF MailboxNext
<1>3. CASE \E m \in Msgs, A, R \in SUBSET Labels : ModifyLabels(m, A, R)
  BY <1>3 DEF MailboxNext
<1>4. CASE Expire(historyIdx + 1)
  BY <1>4 DEF Expire
<1> QED
  BY <1>1, <1>2, <1>3, <1>4 DEF External

(* The mailbox keeps its invariant, and the log its records.               *)
LEMMA ExternalMailbox ==
    ASSUME MailboxInv, historyIdx \in Nat, External
    PROVE  /\ MailboxInv'
           /\ top \in Nat /\ top' \in Nat /\ top <= top'
           /\ \A n \in DOMAIN log : n \in DOMAIN log' /\ log'[n] = log[n]
           /\ \A n \in DOMAIN log' \ DOMAIN log : n > top
<1>1. CASE MailboxNext
  <2>1. MailboxInv'
    BY <1>1, MailboxInvStep
  <2>2. /\ \A n \in DOMAIN log : n \in DOMAIN log' /\ log'[n] = log[n]
        /\ \A n \in DOMAIN log' \ DOMAIN log : n > top
    BY <1>1, RecordsStay
  <2>3. top \in Nat /\ top' \in Nat
    BY <2>1 DEF MailboxInv, MailboxTypeOK
  <2>4. top' = top \/ top' = top + 1
    BY <1>1, MailboxStep DEF MailboxInv, LogRecord
  <2> QED  BY <2>1, <2>2, <2>3, <2>4
<1>2. CASE UNCHANGED <<top, log, live, lab>> /\ Expire(historyIdx + 1)
  <2>1. floor' \in 0 .. top' /\ top \in Nat
    BY <1>2 DEF Expire, MailboxInv, MailboxTypeOK
  <2> QED
    BY <1>2, <2>1 DEF MailboxInv, MailboxTypeOK, Touched, RecordHolds, Touches, Ahead
<1> QED
  BY <1>1, <1>2, ExternalKinds

(* What the mailbox is about a message changes with a record of it only.   *)
LEMMA UntouchedStill ==
    ASSUME MailboxInv, historyIdx \in Nat, External, since \in Nat, since <= top,
           NEW m \in Msgs, Untouched(m)'
    PROVE  Untouched(m) /\ (m \in live' <=> m \in live) /\ lab'[m] = lab[m]
<1>0. since' = since
  BY DEF External, ghost
<1>1. Untouched(m)
  BY <1>0, ExternalMailbox DEF Untouched, Ahead
<1>2. ASSUME NEW r \in Records, LogRecord(r) PROVE r.msg # m
  <2>1. top + 1 \in Ahead(since)' /\ log'[top + 1] = r
    BY <1>0, <1>2, AheadGrows DEF MailboxInv
  <2> QED  BY <1>0, <2>1 DEF Untouched
<1>3. ASSUME NEW x \in Msgs, NEW L \in SUBSET Labels, NewMessage(x, L)
      PROVE  x # m
  <2> DEFINE r == [op |-> "add", msg |-> x, ladd |-> {}, lrem |-> {}]
  <2>1. r \in Records /\ LogRecord(r) /\ r.msg = x
    BY <1>3 DEF NewMessage, Records
  <2> QED  BY <1>2, <2>1
<1>4. ASSUME NEW x \in Msgs, DeleteMessage(x)
      PROVE  x # m
  <2> DEFINE r == [op |-> "delete", msg |-> x, ladd |-> {}, lrem |-> {}]
  <2>1. r \in Records /\ LogRecord(r) /\ r.msg = x
    BY <1>4 DEF DeleteMessage, Records
  <2> QED  BY <1>2, <2>1
<1>5. ASSUME NEW x \in Msgs, NEW A \in SUBSET Labels, NEW R \in SUBSET Labels,
             ModifyLabels(x, A, R)
      PROVE  x # m
  <2> DEFINE r == [op |-> "labels", msg |-> x, ladd |-> A, lrem |-> R]
  <2>1. r \in Records /\ LogRecord(r) /\ r.msg = x
    BY <1>5 DEF ModifyLabels, Records
  <2> QED  BY <1>2, <2>1
<1>6. CASE Arrive
  <2> PICK x \in Msgs, L \in SUBSET Labels : NewMessage(x, L)
    BY <1>6 DEF Arrive
  <2> QED  BY <1>1, <1>3 DEF NewMessage, MailboxInv, MailboxTypeOK
<1>7. CASE \E x \in Msgs : DeleteMessage(x)
  <2> PICK x \in Msgs : DeleteMessage(x)
    BY <1>7
  <2> QED  BY <1>1, <1>4 DEF DeleteMessage, MailboxInv, MailboxTypeOK
<1>8. CASE \E x \in Msgs, A, R \in SUBSET Labels : ModifyLabels(x, A, R)
  <2> PICK x \in Msgs, A \in SUBSET Labels, R \in SUBSET Labels : ModifyLabels(x, A, R)
    BY <1>8
  <2> QED  BY <1>1, <1>5 DEF ModifyLabels, MailboxInv, MailboxTypeOK
<1>9. CASE Expire(historyIdx + 1)
  BY <1>1, <1>9 DEF Expire
<1> QED
  BY <1>6, <1>7, <1>8, <1>9 DEF External

(* Messages go and labels change, but an arrival is newer than every       *)
(* message before it.                                                      *)
LEMMA DownStep ==
    ASSUME MailboxInv, Down, historyIdx \in Nat, External
    PROVE  /\ Down'
           /\ \A m \in live' : m \in live \/ (~Touched(m) /\ \A k \in Msgs : k < m => Touched(k))
           /\ \A m \in Msgs : Touched(m) => Touched(m)'
<1>0. \A m \in Msgs : Touched(m) => Touched(m)'
  BY ExternalMailbox DEF Touched
<1>1. CASE Arrive
  <2> PICK x \in Msgs, L \in SUBSET Labels :
             (\A k \in Msgs : k < x => Touched(k)) /\ NewMessage(x, L)
    BY <1>1 DEF Arrive
  <2> DEFINE r == [op |-> "add", msg |-> x, ladd |-> {}, lrem |-> {}]
  <2>1. r \in Records /\ LogRecord(r) /\ live' = live \union {x} /\ ~Touched(x) /\ r.msg = x
    BY DEF NewMessage, Records
  <2>2. \A m \in Msgs : Touched(m)' => Touched(m) \/ m = x
    BY <2>1, AppendExtends DEF Touched, MailboxInv
  <2>3. Down'
    BY <1>0, <2>2 DEF Down
  <2> QED  BY <1>0, <2>1, <2>3
<1>2. ASSUME NEW r \in Records, LogRecord(r), Touched(r.msg), live' \subseteq live
      PROVE  Down' /\ live' \subseteq live
  <2>1. \A m \in Msgs : Touched(m)' => Touched(m)
    BY <1>2, AppendExtends DEF Touched, MailboxInv
  <2> QED  BY <1>0, <1>2, <2>1 DEF Down
<1>3. CASE \E x \in Msgs : DeleteMessage(x)
  <2> PICK x \in Msgs : DeleteMessage(x)
    BY <1>3
  <2> DEFINE r == [op |-> "delete", msg |-> x, ladd |-> {}, lrem |-> {}]
  <2>1. r \in Records /\ LogRecord(r) /\ live' \subseteq live /\ Touched(r.msg)
    BY DEF DeleteMessage, Records, MailboxInv
  <2> QED  BY <1>0, <1>2, <2>1
<1>4. CASE \E x \in Msgs, A, R \in SUBSET Labels : ModifyLabels(x, A, R)
  <2> PICK x \in Msgs, A \in SUBSET Labels, R \in SUBSET Labels : ModifyLabels(x, A, R)
    BY <1>4
  <2> DEFINE r == [op |-> "labels", msg |-> x, ladd |-> A, lrem |-> R]
  <2>1. r \in Records /\ LogRecord(r) /\ live' \subseteq live /\ Touched(r.msg)
    BY DEF ModifyLabels, Records, MailboxInv
  <2> QED  BY <1>0, <1>2, <2>1
<1>5. CASE Expire(historyIdx + 1)
  BY <1>0, <1>5 DEF Expire, Down, Touched
<1> QED
  BY <1>1, <1>3, <1>4, <1>5 DEF External

-----------------------------------------------------------------------------
(* Types                                                                   *)

(* A page has the messages that the token lets it have.                    *)
LEMMA PageTypes ==
    ASSUME MailboxTypeOK, TypeInv
    PROVE  /\ page \subseteq Nat /\ Tokens \subseteq Nat
           /\ page # {} => Newest(page) \in page /\ \A k \in page : k <= Newest(page)
           /\ live \union {0} \subseteq Nat
           /\ Newest(live \union {0}) \in live \union {0}
           /\ \A k \in live : k <= Newest(live \union {0})
<1> PICK N \in Nat : Msgs = 1 .. N
  BY Numbers
<1>1. page \subseteq 0 .. N /\ live \union {0} \subseteq 0 .. N /\ page \subseteq Nat
  BY DEF MailboxTypeOK, TypeInv
<1>2. page # {} => Newest(page) \in page /\ \A k \in page : k <= Newest(page)
  BY <1>1, NewestOf
<1>3. /\ Newest(live \union {0}) \in live \union {0}
      /\ \A k \in live \union {0} : k <= Newest(live \union {0})
  BY <1>1, NewestOf
<1>4. Tokens \subseteq Nat /\ live \union {0} \subseteq Nat
  BY <1>1 DEF Tokens
<1> QED  BY <1>1, <1>2, <1>3, <1>4

(* The next token is that of a message on the page, or none.               *)
LEMMA NextToken ==
    ASSUME MailboxTypeOK, TypeInv, NEW t \in Tokens, NEW P \in SUBSET live, IsPage(P, t)
    PROVE  /\ TokenAfter(P, t) \in Tokens
           /\ \A m \in P : m \in Msgs /\ (t # 0 => m < t)
           /\ TokenAfter(P, t) # 0 => /\ TokenAfter(P, t) \in P
                                      /\ \A m \in P : TokenAfter(P, t) <= m
           /\ \A m \in live : t = 0 \/ m < t =>
                  m \in P \/ (TokenAfter(P, t) # 0 /\ m < TokenAfter(P, t))
<1> PICK N \in Nat : Msgs = 1 .. N
  BY Numbers
<1>1. live \subseteq Msgs /\ P \subseteq Older(t) /\ Older(t) \subseteq live /\ t \in Nat
  BY DEF MailboxTypeOK, IsPage, Older, Tokens
<1>2. \A m \in P : m \in Msgs /\ (t # 0 => m < t)
  BY <1>1 DEF Older
<1>3. CASE P = Older(t)
  <2>1. TokenAfter(P, t) = 0 /\ 0 \in Tokens
    BY <1>3 DEF TokenAfter, Tokens
  <2> QED  BY <1>1, <1>2, <1>3, <2>1 DEF Older
<1>4. CASE P # Older(t)
  <2>1. P # {}
    BY <1>4, FS_EmptySet, FullSyncAssumption DEF IsPage
  <2>2. P \in SUBSET Nat
    BY <1>1
  <2> PICK o : o = Oldest(P)
    OBVIOUS
  <2>3. o \in P /\ \A k \in P : o <= k
    BY <2>1, <2>2, OldestOf
  <2>4. TokenAfter(P, t) = o
    BY <1>4 DEF TokenAfter
  <2>5. o \in Msgs /\ o # 0 /\ o \in Nat /\ o \in Tokens
    BY <1>1, <2>3 DEF Tokens
  <2>6. ASSUME NEW m \in live, t = 0 \/ m < t, m \notin P PROVE m < o
    <3>1. m \in Older(t) \ P /\ m \in Nat
      BY <1>1, <2>6 DEF Older
    <3>2. o > m
      BY <2>3, <3>1 DEF IsPage
    <3> QED  BY <2>5, <3>1, <3>2
  <2> QED  BY <1>2, <2>3, <2>4, <2>5, <2>6
<1> QED  BY <1>3, <1>4

(* An operation in the pipeline has the types of one.                      *)
LEMMA PipeOpTypes ==
    ASSUME MailboxTypeOK
    PROVE  /\ \A m \in Msgs : NoOp(m) \in PipeOps
           /\ \A o \in PipeOps : [o EXCEPT !.op = "error"] \in PipeOps /\ o \in Ops
           /\ \A m \in Msgs : [NoOp(m) EXCEPT !.op = "delete"] \in Ops
           /\ \A m \in Msgs : [op |-> Kind(m, lab[m], keyOf[m]), msg |-> m, labels |-> lab[m],
                               hid |-> MetaId(m)] \in PipeOps
<1>1. \A m \in Msgs : /\ Kind(m, lab[m], keyOf[m]) \in Kinds
                      /\ MetaId(m) \in Nat /\ lab[m] \subseteq Labels
  BY MetaIdType DEF Kind, Kinds, MailboxTypeOK
<1>2. \A o \in PipeOps : [o EXCEPT !.op = "error"] \in PipeOps /\ o \in Ops
  BY DEF PipeOps, Ops, Kinds
<1>3. \A m \in Msgs : NoOp(m) \in PipeOps /\ [NoOp(m) EXCEPT !.op = "delete"] \in Ops
  BY DEF PipeOps, Ops, Kinds, NoOp
<1> QED  BY <1>1, <1>2, <1>3 DEF PipeOps

(* The end of a run leaves nothing behind in memory.                       *)
LEMMA Ended ==
    ASSUME Fail \/ Kill
    PROVE  EndRun /\ cut \subseteq cut' /\ (pc \in Writing => cur.msg \in cut')
BY DEF Fail, Kill, Writing

Starts == StartForced \/ StartFull

Crossing == StartIncremental \/ IncrementalRun

(* A step is one of these.                                                 *)
LEMMA Steps ==
    ASSUME [Next]_vars
    PROVE  \/ Starts \/ Crossing \/ Clear \/ Begin
           \/ FetchPage \/ SendMsg \/ MarkSeen \/ PageDone
           \/ TakeMsg
           \/ \E w \in work : GetBody(w)
           \/ \E w \in work : GetMetadata(w)
           \/ \E w \in work : PutOp(w)
           \/ Receive \/ Write \/ Written \/ BeginReconcile
           \/ \E m \in Msgs : Reconcile(m)
           \/ CommitIndex
           \/ Fail \/ Kill
           \/ External
           \/ UNCHANGED vars
BY DEF Next, Run, Sync, ListMessages, Worker, Main, Starts, Crossing

(* What a step of an incremental run asks for is what the record says.     *)
LEMMA AskedOf ==
    ASSUME FullSyncInv, NEW n \in DOMAIN log, NEW c \in Asked(n)
    PROVE  /\ c \in Ops /\ c.op \in {"add", "labels", "delete"}
           /\ c.op = "add" => keyOf[c.msg] = {}
           /\ c.op = "delete" => c.msg \notin live /\ Touched(c.msg)
<1> USE DEF FullSyncInv
<1> PICK m : m = log[n].msg
  OBVIOUS
<1>1. log[n] \in Records /\ m \in Msgs /\ lab[m] \in SUBSET Labels
  BY DEF MailboxInv, MailboxTypeOK, Records
<1>2. Touched(m) /\ (log[n].op = "delete" => m \notin live)
  BY DEF MailboxInv, RecordHolds
<1>3. CASE log[n].op = "delete"
  BY <1>1, <1>2, <1>3 DEF Asked, NoOp, Ops
<1>4. CASE log[n].op = "labels"
  <2> PICK L \in SUBSET Labels : c = [NoOp(m) EXCEPT !.op = "labels", !.labels = L]
    BY <1>4 DEF Asked
  <2> QED  BY <1>1 DEF NoOp, Ops
<1>5. CASE log[n].op = "add"
  <2>1. c = [NoOp(m) EXCEPT !.op = IF keyOf[m] = {} THEN "add" ELSE "labels",
                            !.labels = lab[m]]
    BY <1>5 DEF Asked
  <2>2. CASE keyOf[m] = {}
    BY <1>1, <2>1, <2>2 DEF NoOp, Ops
  <2>3. CASE keyOf[m] # {}
    BY <1>1, <2>1, <2>3 DEF NoOp, Ops
  <2> QED  BY <2>2, <2>3
<1> QED  BY <1>1, <1>3, <1>4, <1>5 DEF Records

(* What a step of an incremental run leaves alone, and where it goes.      *)
LEMMA CrossingFacts ==
    ASSUME FullSyncInv, Crossing
    PROVE  /\ UNCHANGED <<mailbox, store, fresh, producer, pipe, todo, first, since, inHand,
                          stale, cut, active, pageToken, highest, seen>>
           /\ pc \in {"idle", "loop"} /\ ~Begin /\ crossed \subseteq crossed'
           /\ historyId' \in Nat /\ historyIdx' \in Nat
           /\ ppc = "off" /\ EmptyPipe /\ Paused /\ Paused'
           /\ \/ pc' \in {"loop", "failed"} /\ phase' = "update" /\ cur' = cur
              \/ pc' = "write" /\ phase' = "update" /\ cur' \in Ops /\ Taken'
              \/ pc' = "idle" /\ phase' = "none" /\ cur' = cur
<1> USE DEF FullSyncInv
<1>1. CASE StartIncremental
  BY <1>1 DEF StartIncremental, Starting, RunInv, Outside, TypeInv, Begin, Paused, writer,
     session, ghost
<1>2. CASE TakeRecord
  <2>1. /\ UNCHANGED <<mailbox, store, fresh, producer, pipe, todo, first, since, inHand,
                       stale, cut, active, pageToken, highest, seen, phase, historyIdx>>
        /\ pc = "loop" /\ phase = "update" /\ ~Begin /\ crossed \subseteq crossed'
        /\ historyId' = historyId + 1 /\ historyId' \in DOMAIN log
    BY <1>2 DEF TakeRecord, Following, session, Begin
  <2>2. ppc = "off" /\ EmptyPipe /\ Paused /\ Paused'
    BY <2>1 DEF RunInv, Paused
  <2>3. historyId' \in Nat /\ historyIdx' \in Nat
    BY <2>1 DEF TypeInv
  <2>4. CASE pc' \in {"loop", "failed"} /\ cur' = cur
    BY <2>1, <2>2, <2>3, <2>4
  <2>5. CASE /\ cur' \in Asked(historyId') /\ pc' = "write"
             /\ crossed' = IF active THEN crossed \union {cur'.msg} ELSE crossed
    <3> PICK c : c = cur'
      OBVIOUS
    <3>1. /\ c \in Ops /\ c.op \in {"add", "labels", "delete"}
          /\ c.op = "add" => keyOf[c.msg] = {}
          /\ c.op = "delete" => c.msg \notin live /\ Touched(c.msg)
      BY <2>1, <2>5, AskedOf
    <3>2. /\ keyOf' = keyOf /\ live' = live /\ active' = active
          /\ Touched(c.msg) => Touched(c.msg)'
      BY <2>1 DEF store, mailbox, Touched
    <3>3. active => c.msg \in crossed'
      BY <2>5
    <3>4. Taken'
      BY <3>1, <3>2, <3>3 DEF Taken, Touched
    <3> QED  BY <2>1, <2>2, <2>3, <2>5, <3>1, <3>4
  <2> QED  BY <1>2, <2>1, <2>4, <2>5 DEF TakeRecord
<1>3. CASE EndIncremental
  BY <1>3 DEF EndIncremental, Following, RunInv, TypeInv, Begin, Paused
<1> QED  BY <1>1, <1>2, <1>3 DEF Crossing, IncrementalRun

(* Start, and the clearing of the session.                                 *)
LEMMA TypeStart ==
    ASSUME FullSyncInv, Starts \/ Clear \/ Begin
    PROVE  TypeInv'
<1> USE DEF FullSyncInv
<1>1. CASE Starts
  BY <1>1 DEF Starts, StartForced, StartFull, Starting, TypeInv, Touched, mailbox, writer,
     session, producer, pipe, ghost, Writing, Outside
<1>2. CASE Clear
  <2>1. /\ UNCHANGED <<mailbox, cur, fresh, historyIdx, ppc, token, page, newMsgs, work, ops,
                       todo, first, since>>
        /\ pc' \in Outside /\ historyId' \in {0, historyId}
    BY <1>2 DEF Clear, ClearSession, writer, producer, pipe, ghost, Outside
  <2>2. /\ active' \in BOOLEAN /\ pageToken' \in {0, pageToken}
        /\ highest' \in {0, highest} /\ seen' \subseteq seen
    BY <1>2 DEF Clear, ClearSession, TypeInv
  <2>3. first' # 0 => Touched(first)'
    BY <2>1 DEF mailbox, Touched, TypeInv
  <2> QED
    BY <2>1, <2>2, <2>3 DEF TypeInv, mailbox, Writing, Outside, Tokens
<1>3. CASE Begin
  <2>1. /\ pc' = "loop" /\ ppc' = "fetch" /\ active' = TRUE /\ token' = pageToken
        /\ historyId' = highest
        /\ UNCHANGED <<mailbox, cur, fresh, pageToken, highest, seen, historyIdx, page,
                       newMsgs, work, ops, todo>>
    BY <1>3 DEF Begin, writer, pipe
  <2>2. first' \in Tokens /\ (first' # 0 => Touched(first')) /\ since' \in Base .. top
    <3>1. CASE active
      BY <1>3, <3>1 DEF Begin, TypeInv
    <3>2. CASE ~active
      <4> PICK n : n = Newest(live \union {0})
        OBVIOUS
      <4>1. first' = n /\ since' = top
        BY <1>3, <3>2 DEF Begin
      <4>2. n \in live \union {0} /\ live \subseteq Msgs /\ \A m \in live : Touched(m)
        BY PageTypes DEF MailboxInv, MailboxTypeOK
      <4> QED  BY <4>1, <4>2, MailboxAssumption DEF Tokens, MailboxInv, MailboxTypeOK
    <3> QED  BY <3>1, <3>2
  <2>3. first' # 0 => Touched(first)'
    BY <2>1, <2>2 DEF mailbox, Touched
  <2> QED  BY <2>1, <2>2, <2>3 DEF TypeInv, mailbox, Writing, Outside
<1> QED  BY <1>1, <1>2, <1>3

(* The listing.                                                            *)
LEMMA TypeList ==
    ASSUME FullSyncInv, FetchPage \/ SendMsg \/ MarkSeen \/ PageDone
    PROVE  TypeInv'
<1> USE DEF FullSyncInv
<1>0. UNCHANGED <<mailbox, pc, cur, fresh, active, highest, historyIdx, historyId, work, ops,
                  todo, first, since>>
  BY DEF FetchPage, SendMsg, MarkSeen, PageDone, Listing, writer, session, main, pipe, ghost
<1>1. first' # 0 => Touched(first)'
  BY <1>0 DEF TypeInv, Touched, mailbox
<1>2. live \subseteq Msgs
  BY DEF MailboxInv, MailboxTypeOK
<1>3. CASE FetchPage
  <2> PICK P \in SUBSET live : IsPage(P, token) /\ page' = P
    BY <1>3 DEF FetchPage
  <2>1. token' = TokenAfter(P, token) /\ pageToken' = token' /\ ppc' = "send"
        /\ seen' = seen /\ newMsgs' = newMsgs
    BY <1>3 DEF FetchPage, pipe
  <2>2. token' \in Tokens
    BY <2>1, NextToken DEF MailboxInv, TypeInv
  <2> QED  BY <1>0, <1>1, <1>2, <2>1, <2>2 DEF TypeInv, mailbox
<1>4. CASE SendMsg
  <2>1. Newest(page) \in Msgs
    BY <1>4, PageTypes DEF SendMsg, MailboxInv, TypeInv
  <2>2. newMsgs' \in Seq(Msgs) /\ ppc' = "mark" /\ UNCHANGED <<pageToken, seen, token, page>>
    BY <1>4, <2>1, AppendOf DEF SendMsg, TypeInv, session
  <2> QED  BY <1>0, <1>1, <2>2 DEF TypeInv, mailbox
<1>5. CASE MarkSeen
  <2>1. Newest(page) \in Msgs
    BY <1>5, PageTypes DEF MarkSeen, MailboxInv, TypeInv, RunInv
  <2> QED  BY <1>0, <1>1, <1>5, <2>1 DEF MarkSeen, TypeInv, mailbox, pipe
<1>6. CASE PageDone
  BY <1>0, <1>1, <1>6 DEF PageDone, TypeInv, mailbox, session, pipe
<1> QED  BY <1>3, <1>4, <1>5, <1>6

(* The workers.                                                            *)
LEMMA TypeWork ==
    ASSUME FullSyncInv,
           \/ TakeMsg
           \/ \E w \in work : GetBody(w)
           \/ \E w \in work : GetMetadata(w)
           \/ \E w \in work : PutOp(w)
    PROVE  TypeInv'
<1> USE DEF FullSyncInv
<1>0. /\ UNCHANGED <<mailbox, pc, cur, fresh, active, pageToken, highest, seen, historyIdx,
                     historyId, todo, first, since, ppc, token, page>>
      /\ MailboxTypeOK
  BY DEF TakeMsg, GetBody, GetMetadata, PutOp, Working, writer, session, producer, main, ghost,
     MailboxInv
<1>1. first' # 0 => Touched(first)'
  BY <1>0 DEF TypeInv, Touched, mailbox
<1>2. ASSUME newMsgs' \in Seq(Msgs), ops' \in Seq(PipeOps),
             work' \subseteq [at : {"body", "meta", "put"}, o : PipeOps]
      PROVE  TypeInv'
  BY <1>0, <1>1, <1>2 DEF TypeInv, mailbox
<1>3. CASE TakeMsg
  <2> PICK m : m = Head(newMsgs)
    OBVIOUS
  <2>1. m \in Msgs /\ newMsgs' \in Seq(Msgs)
    BY <1>3, TailOf DEF TakeMsg, TypeInv
  <2>2. NoOp(m) \in PipeOps
    BY <1>0, <2>1, PipeOpTypes
  <2>3. work' = work \union
                  {[at |-> IF keyOf[m] = {} THEN "body" ELSE "meta", o |-> NoOp(m)]}
        /\ ops' = ops
    BY <1>3 DEF TakeMsg
  <2> QED  BY <1>2, <2>1, <2>2, <2>3 DEF TypeInv
<1>4. CASE \E w \in work : GetBody(w)
  <2> PICK w \in work : GetBody(w)
    BY <1>4
  <2>1. w.o \in PipeOps
    BY DEF TypeInv
  <2> QED  BY <1>2, <2>1 DEF GetBody, Becomes, TypeInv
<1>5. CASE \E w \in work : GetMetadata(w)
  <2> PICK w \in work : GetMetadata(w)
    BY <1>5
  <2> PICK m : m = w.o.msg
    OBVIOUS
  <2>1. w.o \in PipeOps /\ m \in Msgs
    BY DEF TypeInv, PipeOps
  <2> PICK o : o = [op |-> Kind(m, lab[m], keyOf[m]), msg |-> m, labels |-> lab[m],
                    hid |-> MetaId(m)]
    OBVIOUS
  <2> PICK e : e = [w.o EXCEPT !.op = "error"]
    OBVIOUS
  <2>2. o \in PipeOps /\ e \in PipeOps
    BY <1>0, <2>1, PipeOpTypes
  <2>3. Becomes(w, "put", o) \/ Becomes(w, "put", e)
    BY DEF GetMetadata
  <2>4. newMsgs' = newMsgs /\ ops' = ops
    BY DEF GetMetadata
  <2> DEFINE V(x) == [at |-> "put", o |-> x]
  <2>5. V(o) \in [at : {"body", "meta", "put"}, o : PipeOps]
    BY <2>2
  <2>6. V(e) \in [at : {"body", "meta", "put"}, o : PipeOps]
    BY <2>2
  <2>7. work' = (work \ {w}) \union {V(o)} \/ work' = (work \ {w}) \union {V(e)}
    BY <2>3 DEF Becomes
  <2> HIDE DEF V
  <2>8. work' \subseteq [at : {"body", "meta", "put"}, o : PipeOps]
    BY <2>5, <2>6, <2>7 DEF TypeInv
  <2>9. newMsgs' \in Seq(Msgs) /\ ops' \in Seq(PipeOps)
    BY <2>4 DEF TypeInv
  <2> QED  BY <1>2, <2>8, <2>9
<1>6. CASE \E w \in work : PutOp(w)
  <2> PICK w \in work : PutOp(w)
    BY <1>6
  <2>1. w.o \in PipeOps
    BY DEF TypeInv
  <2> PICK e : e = [w.o EXCEPT !.op = "error"]
    OBVIOUS
  <2>2. e \in PipeOps
    BY <1>0, <2>1, PipeOpTypes
  <2>3. ops' = Append(ops, e) \/ ops' = Append(ops, w.o)
    BY DEF PutOp
  <2>4. ops' \in Seq(PipeOps)
    <3>1. Append(ops, e) \in Seq(PipeOps) /\ Append(ops, w.o) \in Seq(PipeOps)
      BY <2>1, <2>2, AppendOf DEF TypeInv
    <3> QED  BY <2>3, <3>1
  <2>5. newMsgs' = newMsgs /\ work' \subseteq work
    BY DEF PutOp
  <2> QED  BY <1>2, <2>4, <2>5 DEF TypeInv
<1> QED  BY <1>3, <1>4, <1>5, <1>6

(* The main goroutine.                                                     *)
LEMMA TypeMain ==
    ASSUME FullSyncInv,
           \/ Receive \/ Written \/ BeginReconcile \/ CommitIndex
           \/ \E m \in Msgs : Reconcile(m)
    PROVE  TypeInv'
<1> USE DEF FullSyncInv
<1>0. /\ UNCHANGED <<mailbox, active, pageToken, seen, first, since, token, page, newMsgs,
                     work>>
      /\ MailboxTypeOK
  BY DEF Receive, Written, BeginReconcile, CommitIndex, Reconcile, session, producer, ghost,
     pipe, MailboxInv
<1>1. first' # 0 => Touched(first)'
  BY <1>0 DEF TypeInv, Touched, mailbox
<1>3. CASE Receive
  <2> PICK o : o = Head(ops)
    OBVIOUS
  <2>1. o \in PipeOps /\ ops' \in Seq(PipeOps)
    BY <1>3, TailOf DEF Receive, TypeInv
  <2>2. o \in Ops /\ o.hid \in Nat
    BY <1>0, <2>1, PipeOpTypes DEF PipeOps
  <2>3. /\ UNCHANGED <<ppc, fresh, historyIdx, highest, todo>>
        /\ \/ pc' \in {"loop", "failed"} /\ UNCHANGED historyId
           \/ pc' = "write" /\ cur' = o /\ historyId' \in {historyId, o.hid}
    BY <1>3 DEF Receive, session, producer
  <2> QED  BY <1>0, <1>1, <2>1, <2>2, <2>3 DEF TypeInv, mailbox, Writing, Outside
<1>4. CASE Written
  <2>1. /\ UNCHANGED <<ppc, historyIdx, historyId, todo, ops>>
        /\ pc' = "loop" /\ fresh' = {} /\ highest' \in {highest, historyId}
    BY <1>4 DEF Written, producer, pipe, main
  <2> QED  BY <1>0, <1>1, <2>1 DEF TypeInv, mailbox, Writing, Outside
<1>5. CASE BeginReconcile
  BY <1>0, <1>1, <1>5 DEF BeginReconcile, TypeInv, mailbox, writer, session, producer, pipe,
     Writing, Outside
<1>6. CASE CommitIndex
  BY <1>0, <1>1, <1>6 DEF CommitIndex, TypeInv, mailbox, writer, pipe, Writing, Outside
<1>7. CASE \E m \in Msgs : Reconcile(m)
  <2> PICK m \in Msgs : Reconcile(m)
    BY <1>7
  <2> PICK d : d = [NoOp(m) EXCEPT !.op = "delete"]
    OBVIOUS
  <2>1. d \in Ops
    BY <1>0, PipeOpTypes
  <2>2. /\ UNCHANGED <<ppc, fresh, historyIdx, historyId, highest, ops>>
        /\ todo' \subseteq todo
        /\ pc' = "loop" \/ (pc' = "write" /\ cur' = d)
    BY DEF Reconcile, session, producer, pipe
  <2> QED  BY <1>0, <1>1, <2>1, <2>2 DEF TypeInv, mailbox, Writing, Outside
<1> QED  BY <1>3, <1>4, <1>5, <1>6, <1>7

(* A write is of an operation of its phase.                                *)
LEMMA WriteFramed ==
    ASSUME FullSyncInv, Write
    PROVE  WriteFrame
<1> USE DEF FullSyncInv
<1>1. pc \in Writing /\ cur' = cur
  BY DEF Write, WriteOperation, WriteAdd, WriteLabels, SetMsgLabels, SetMsgKey, RemoveOld,
     WriteDel, Remove, DelMsgKey, DelMsgLabels, Goto, Writing
<1>2. cur \in Ops /\ cur.msg \in Msgs /\ fresh \subseteq Nat
  BY <1>1 DEF TypeInv, Ops
<1>3. pc = "write" => phase \in {"ops", "reconcile", "update"}
  BY DEF RunInv, Outside
<1>4. pc = "write" /\ cur.op = "add" => keyOf[cur.msg] = {}
  BY <1>3 DEF OpsInv, OpTrue, CurInv, Taken, Writing
<1>5. CurKind
  BY DEF CurKind, CurInv
<1>6. cut' = cut
  BY DEF Write, ghost
<1> QED  BY <1>1, <1>2, <1>4, <1>5, <1>6 DEF WriteFrame

(* Types are kept by every step.                                           *)
LEMMA TypeStep ==
    ASSUME FullSyncInv, [Next]_vars
    PROVE  TypeInv'
<1> USE DEF FullSyncInv
<1>1. CASE Write
  <2>1. fresh' \subseteq Nat
    BY <1>1, WriteFramed, FreshType DEF Write
  <2>2. /\ UNCHANGED <<mailbox, session, producer, pipe, main, ghost, cur>>
        /\ pc \in Writing /\ pc' \in Writing \union {"written", "failed"}
    BY <1>1 DEF Write, WriteOperation, WriteAdd, WriteLabels, SetMsgLabels, SetMsgKey,
       RemoveOld, WriteDel, Remove, DelMsgKey, DelMsgLabels, Goto, Writing
  <2> QED
    BY <2>1, <2>2 DEF TypeInv, Touched, mailbox, session, producer, pipe, main, ghost
<1>2. CASE Fail \/ Kill
  <2>1. EndRun
    BY <1>2, Ended
  <2>2. first' # 0 => Touched(first)'
    BY <2>1 DEF EndRun, TypeInv, Touched, mailbox
  <2> QED
    BY <2>1, <2>2 DEF EndRun, TypeInv, mailbox, session, Writing, Outside, Tokens
<1>3. CASE External
  <2>1. /\ UNCHANGED <<pc, writer, session, producer, pipe, main, ghost>>
    BY <1>3 DEF External
  <2>2. top \in Nat /\ top' \in Nat /\ top <= top' /\ Base \in Nat
    BY <1>3, ExternalMailbox, MailboxAssumption DEF TypeInv
  <2>3. since' \in Base .. top'
    BY <2>1, <2>2 DEF TypeInv, ghost
  <2>4. first' # 0 => Touched(first)'
    BY <1>3, <2>1, ExternalMailbox DEF TypeInv, Touched, ghost
  <2> QED
    BY <2>1, <2>3, <2>4 DEF TypeInv, writer, session, producer, pipe, main, ghost
<1>4. CASE UNCHANGED vars
  BY <1>4 DEF vars, TypeInv, Touched, mailbox, writer, session, producer, pipe, main, ghost
<1>5. CASE Crossing
  <2>1. first' # 0 => Touched(first)'
    BY <1>5, CrossingFacts DEF TypeInv, Touched, mailbox
  <2> QED
    BY <1>5, <2>1, CrossingFacts DEF TypeInv, mailbox, producer, pipe, Writing, Outside
<1> QED
  BY <1>1, <1>2, <1>3, <1>4, <1>5, Steps, TypeStart, TypeList, TypeWork, TypeMain

-----------------------------------------------------------------------------
(* Where the goroutines are                                                *)

(* The facts that a step of the listing or of a worker keeps.              *)
LEMMA RunPipe ==
    ASSUME FullSyncInv, UNCHANGED <<pc, phase, active>>, pc \notin Outside,
           ppc \notin {"done", "off"}, ppc' # "off", token' = pageToken',
           ppc' = "done" => page' = {} /\ token' = 0,
           ppc' = "fetch" => page' = {} /\ token' # 0,
           ppc' = "mark" => page' # {}
    PROVE  RunInv'
<1>1. phase = "ops" /\ active
  BY DEF FullSyncInv, RunInv
<1>2. pc \notin {"clear1", "clear2", "clear3", "clear4"} /\ ~Complete'
  BY DEF Outside, Complete
<1> QED
  BY <1>1, <1>2 DEF RunInv

(* Every step leaves the goroutines where the phase of the run has them.   *)
LEMMA RunStep ==
    ASSUME FullSyncInv, [Next]_vars
    PROVE  RunInv'
<1> USE DEF FullSyncInv
<1>1. CASE Starts
  <2>1. /\ pc = "idle" /\ UNCHANGED <<ppc, page, newMsgs, work, ops>>
        /\ pc' \in {"clear1", "begin"} /\ phase' \notin {"reconcile", "update"}
        /\ (pc' = "clear1" => phase' = "reset")
    BY <1>1 DEF Starts, StartForced, StartFull, Starting, producer, pipe, RunInv, Outside
  <2> QED  BY <2>1 DEF RunInv, Outside, EmptyPipe, Complete
<1>2. CASE Clear
  <2>1. /\ UNCHANGED <<ppc, page, newMsgs, work, ops>>
        /\ pc \in {"clear1", "clear2", "clear3", "clear4"}
        /\ pc' \in {"clear2", "clear3", "clear4", "begin", "idle"}
        /\ phase' \in {phase, "none"}
    BY <1>2 DEF Clear, ClearSession, producer, pipe
  <2>2. pc' \in {"clear2", "clear3", "clear4"} => ~active'
    BY <1>2 DEF Clear, ClearSession, RunInv
  <2>3. phase # "reconcile" /\ ppc = "off" /\ EmptyPipe
    BY <2>1 DEF RunInv, Outside
  <2> QED  BY <2>1, <2>2, <2>3 DEF RunInv, Outside, EmptyPipe, Complete
<1>3. CASE Begin
  <2>1. /\ UNCHANGED <<page, newMsgs, work, ops, pageToken>>
        /\ pc = "begin" /\ pc' = "loop" /\ phase' = "ops" /\ ppc' = "fetch"
        /\ token' = pageToken /\ active'
    BY <1>3 DEF Begin, pipe
  <2> QED  BY <2>1 DEF RunInv, Outside, EmptyPipe, Complete
<1>4. CASE FetchPage
  <2>1. /\ UNCHANGED <<pc, phase, active>> /\ ppc = "fetch" /\ ppc' = "send"
        /\ token' = pageToken'
    BY <1>4 DEF FetchPage, Listing, main
  <2>2. pc \notin Outside
    BY <2>1 DEF RunInv
  <2> QED  BY <2>1, <2>2, RunPipe
<1>5. CASE SendMsg \/ MarkSeen \/ PageDone
  <2>1. /\ UNCHANGED <<pc, phase, active, token, pageToken>> /\ ppc \in {"send", "mark"}
    BY <1>5 DEF SendMsg, MarkSeen, PageDone, Listing, main, session
  <2>2. pc \notin Outside /\ phase # "update"
    BY <2>1 DEF RunInv
  <2>3. token = pageToken
    BY <2>2 DEF RunInv
  <2>4. /\ ppc' \in {"send", "mark", "done", "fetch"}
        /\ ppc' = "done" => page' = {} /\ token' = 0
        /\ ppc' = "fetch" => page' = {} /\ token' # 0
        /\ ppc' = "mark" => page' # {}
    BY <1>5, <2>1 DEF SendMsg, MarkSeen, PageDone
  <2> QED  BY <2>1, <2>2, <2>3, <2>4, RunPipe
<1>6. CASE \/ TakeMsg
           \/ \E w \in work : GetBody(w)
           \/ \E w \in work : GetMetadata(w)
           \/ \E w \in work : PutOp(w)
  <2>1. UNCHANGED <<pc, phase, active, token, pageToken, ppc, page>> /\ ~EmptyPipe
    BY <1>6 DEF TakeMsg, GetBody, GetMetadata, PutOp, Working, main, session, producer,
       EmptyPipe
  <2>2. pc \notin Outside /\ phase \notin {"reconcile", "update"}
    BY <2>1 DEF RunInv
  <2> QED  BY <2>1, <2>2 DEF RunInv, Complete, Outside
<1>7. CASE Receive
  <2>1. /\ UNCHANGED <<phase, active, token, pageToken, ppc, page>> /\ ~EmptyPipe
        /\ pc' \in {"loop", "write", "failed"} /\ pc = "loop" /\ phase = "ops"
    BY <1>7 DEF Receive, session, producer, EmptyPipe
  <2> QED  BY <2>1 DEF RunInv, Complete, Outside
<1>8. CASE Write
  <2>1. /\ UNCHANGED <<session, producer, pipe, main, ghost, cur>>
        /\ pc \in Writing /\ pc' \in Writing \union {"written", "failed"}
    BY <1>8 DEF Write, WriteOperation, WriteAdd, WriteLabels, SetMsgLabels, SetMsgKey,
       RemoveOld, WriteDel, Remove, DelMsgKey, DelMsgLabels, Goto, Writing
  <2> QED
    BY <2>1 DEF RunInv, Complete, Outside, Writing, session, producer, pipe, main, EmptyPipe
<1>9. CASE Written
  <2>1. /\ UNCHANGED <<phase, active, token, pageToken, ppc, page, newMsgs, work, ops>>
        /\ pc' = "loop" /\ pc = "written"
    BY <1>9 DEF Written, main, producer, pipe
  <2> QED  BY <2>1 DEF RunInv, Complete, Outside, EmptyPipe
<1>10. CASE BeginReconcile
  <2>1. /\ UNCHANGED <<active, token, pageToken, ppc, page, newMsgs, work, ops>>
        /\ pc' = "loop" /\ pc = "loop" /\ phase' = "reconcile" /\ OpsClosed
    BY <1>10 DEF BeginReconcile, session, producer, pipe
  <2> QED  BY <2>1 DEF RunInv, Complete, Outside, EmptyPipe, OpsClosed
<1>11. CASE \E m \in Msgs : Reconcile(m)
  <2>1. /\ UNCHANGED <<phase, active, token, pageToken, ppc, page, newMsgs, work, ops>>
        /\ pc' \in {"loop", "write"} /\ pc = "loop" /\ phase = "reconcile"
    BY <1>11 DEF Reconcile, session, producer, pipe
  <2> QED  BY <2>1 DEF RunInv, Complete, Outside, EmptyPipe
<1>12. CASE CommitIndex
  <2>1. /\ UNCHANGED <<active, token, pageToken, page, newMsgs, work, ops>>
        /\ pc' = "clear1" /\ pc = "loop" /\ phase' = "end" /\ ppc' = "off"
        /\ phase = "reconcile"
    BY <1>12 DEF CommitIndex, pipe
  <2> QED  BY <2>1 DEF RunInv, Complete, Outside, EmptyPipe
<1>13. CASE Fail \/ Kill
  <2>1. EndRun
    BY <1>13, Ended
  <2> QED  BY <2>1 DEF EndRun, RunInv, Complete, Outside, EmptyPipe
<1>14. CASE External \/ UNCHANGED vars
  <2>1. UNCHANGED <<pc, session, producer, pipe, main>>
    BY <1>14 DEF External, vars
  <2> QED
    BY <2>1 DEF RunInv, Complete, session, producer, pipe, main, EmptyPipe
<1>15. CASE Crossing
  BY <1>15, CrossingFacts DEF RunInv, Outside, EmptyPipe, Complete, producer, pipe
<1> QED
  BY <1>1, <1>2, <1>3, <1>4, <1>5, <1>6, <1>7, <1>8, <1>9, <1>10, <1>11, <1>12, <1>13, <1>14,
     <1>15, Steps

(* The operation in hand is one of the phase, and what is deleted has not  *)
(* been seen.                                                              *)
LEMMA CurStep ==
    ASSUME FullSyncInv, [Next]_vars
    PROVE  CurInv'
<1> USE DEF FullSyncInv
<1>1. CASE pc' \notin Writing
  BY <1>1 DEF CurInv, Writing
<1>2. CASE /\ pc' \in Writing /\ pc' = pc
           /\ UNCHANGED <<mailbox, store, phase, cur, seen, active, crossed>>
  BY <1>2 DEF CurInv, Taken, Touched, mailbox, store
<1>3. CASE MarkSeen
  <2>1. UNCHANGED <<phase, pc, cur>> /\ phase \notin {"reconcile", "update"}
    BY <1>3 DEF MarkSeen, Listing, main, writer, RunInv
  <2> QED  BY <2>1 DEF CurInv
<1>4. CASE Receive
  <2> PICK o : o = Head(ops)
    OBVIOUS
  <2>1. /\ phase' = phase /\ phase = "ops" /\ (pc' = "write" => cur' = o)
        /\ o.op \notin {"error", "none"} \/ pc' # "write"
        /\ pc' \in {"write", "loop", "failed"}
    BY <1>4 DEF Receive
  <2>2. o.op \in Kinds
    <3>1. o \in PipeOps
      BY <1>4, TailOf DEF Receive, TypeInv
    <3> QED  BY <3>1 DEF PipeOps
  <2> QED  BY <2>1, <2>2 DEF CurInv, Kinds, Writing
<1>5. CASE \E m \in Msgs : Reconcile(m)
  <2> PICK m \in Msgs : Reconcile(m)
    BY <1>5
  <2>1. /\ phase' = phase /\ phase = "reconcile" /\ seen' = seen
        /\ \/ pc' = "loop"
           \/ pc' = "write" /\ m \notin seen /\ cur' = [NoOp(m) EXCEPT !.op = "delete"]
    BY DEF Reconcile, session
  <2> QED  BY <2>1 DEF CurInv, NoOp, Writing
<1>6. CASE Write
  <2>1. /\ UNCHANGED <<phase, cur, seen, active, crossed, mailbox>> /\ pc \in Writing
        /\ pc = "write" => phase \in {"ops", "reconcile", "update"}
    BY <1>6, WriteFramed DEF Write, main, session, ghost, WriteFrame, WriteOperation, WriteAdd,
       WriteLabels, SetMsgLabels, SetMsgKey, RemoveOld, WriteDel, Remove, DelMsgKey,
       DelMsgLabels, Goto, Writing, RunInv, Outside
  <2>2. \/ /\ pc = "write" /\ cur.op \in {"add", "labels"}
           /\ pc' \in {"setlabels", "written", "failed"}
        \/ pc = "setlabels" /\ pc' = "setkey"
        \/ pc = "setkey" /\ pc' = (IF cur.op = "add" THEN "written" ELSE "remove")
        \/ pc = "remove" /\ pc' \in {"written", "failed"}
        \/ pc = "write" /\ cur.op = "delete" /\ pc' \in {"delkey", "written", "failed"}
        \/ pc = "delkey" /\ pc' = "dellabels"
        \/ pc = "dellabels" /\ pc' = "written"
    BY <1>6 DEF Write, WriteOperation, WriteAdd, WriteLabels, SetMsgLabels, SetMsgKey,
       RemoveOld, WriteDel, Remove, DelMsgKey, DelMsgLabels, Goto
  <2>3. ASSUME phase = "update" PROVE Taken'
    <3>1. Taken /\ (cur.op = "add" => pc' # "write")
      BY <2>1, <2>2, <2>3 DEF CurInv
    <3> QED  BY <2>1, <3>1 DEF Taken, Touched, mailbox
  <2>4. ASSUME pc' = "write" PROVE FALSE
    BY <2>2, <2>4
  <2>5. phase = "update" => cur.op \in {"add", "labels", "delete"}
    BY <2>1 DEF CurInv, Taken
  <2> QED  BY <2>1, <2>2, <2>3, <2>4, <2>5 DEF CurInv, Writing
<1>7. CASE FetchPage \/ SendMsg \/ PageDone
  <2>1. UNCHANGED <<mailbox, store, phase, pc, cur, seen, active, crossed>>
    BY <1>7 DEF FetchPage, SendMsg, PageDone, Listing, main, writer, session, ghost
  <2> QED  BY <1>1, <1>2, <2>1
<1>8. CASE \/ TakeMsg
           \/ \E w \in work : GetBody(w)
           \/ \E w \in work : GetMetadata(w)
           \/ \E w \in work : PutOp(w)
  <2>1. UNCHANGED <<mailbox, store, phase, pc, cur, seen, active, crossed>>
    BY <1>8 DEF TakeMsg, GetBody, GetMetadata, PutOp, Working, main, writer, session, ghost
  <2> QED  BY <1>1, <1>2, <2>1
<1>9. CASE UNCHANGED vars
  <2>1. UNCHANGED <<mailbox, store, phase, pc, cur, seen, active, crossed>>
    BY <1>9 DEF vars, main, writer, session, ghost
  <2> QED  BY <1>1, <1>2, <2>1
<1>12. CASE External
  <2>1. UNCHANGED <<store, phase, pc, cur, seen, active, crossed>>
    BY <1>12 DEF External, main, writer, session, ghost
  <2>2. ASSUME pc \in Writing, phase = "update" PROVE Taken'
    <3>1. Taken /\ cur.msg \in Msgs /\ historyIdx \in Nat
      BY <2>2 DEF CurInv, TypeInv, Ops
    <3> PICK m : m = cur.msg
      OBVIOUS
    <3>2. Touched(m) => Touched(m)' /\ (m \notin live => m \notin live')
      BY <1>12, <3>1, DownStep
    <3> QED  BY <2>1, <3>1, <3>2 DEF Taken, Touched, store
  <2> QED  BY <2>1, <2>2 DEF CurInv
<1>13. CASE Crossing
  <2>1. \/ pc' \notin Writing
        \/ pc' = "write" /\ phase' = "update" /\ Taken'
    BY <1>13, CrossingFacts DEF Writing
  <2> QED  BY <1>1, <2>1 DEF CurInv
<1>10. CASE Starts \/ Clear \/ Begin \/ Written \/ BeginReconcile \/ CommitIndex
  <2>1. pc' \notin Writing
    BY <1>10 DEF Starts, StartForced, StartFull, Starting, Clear, ClearSession, Begin, Written,
       BeginReconcile, CommitIndex, Writing
  <2> QED  BY <1>1, <2>1
<1>11. CASE Fail \/ Kill
  <2>1. pc' \notin Writing
    BY <1>11, Ended DEF EndRun, Writing
  <2> QED  BY <1>1, <2>1
<1> QED
  BY <1>3, <1>4, <1>5, <1>6, <1>7, <1>8, <1>9, <1>10, <1>11, <1>12, <1>13, Steps

-----------------------------------------------------------------------------
(* The store is kept                                                       *)

(* Every step leaves the cache and the maildir in agreement.               *)
LEMMA StoreStep ==
    ASSUME FullSyncInv, [Next]_vars
    PROVE  StoreInv'
<1> USE DEF FullSyncInv
<1>1. CASE Write
  BY <1>1, WriteFramed, WriteStore DEF Write, WriteResult
<1>2. ASSUME UNCHANGED <<store, cut, pc, cur, fresh>> PROVE StoreInv'
  BY <1>2 DEF StoreInv, store, KeysApart, FreshApart, MidWrite, One, Delivered, Replaced,
     FilesOf, FilesAt
<1>3. CASE Fail \/ Kill
  <2>1. EndRun /\ cut \subseteq cut' /\ (pc \in Writing => cur.msg \in cut')
    BY <1>3, Ended
  <2>2. UNCHANGED store /\ pc' = "idle"
    BY <2>1 DEF EndRun
  <2>3. \A m \in Msgs \ cut' : ~MidWrite(m) /\ ~MidWrite(m)'
    BY <2>1, <2>2 DEF MidWrite, Writing
  <2>4. \A m \in Msgs \ cut' : One(m)'
    BY <2>1, <2>2, <2>3, OneKept DEF StoreInv, store, FilesOf
  <2> QED
    BY <2>2, <2>3, <2>4 DEF StoreInv, store, KeysApart
<1>4. CASE \/ Starts \/ Clear \/ Begin \/ Receive \/ Written \/ BeginReconcile \/ CommitIndex
           \/ \E m \in Msgs : Reconcile(m)
  <2>1. UNCHANGED <<store, cut>>
    BY <1>4 DEF Starts, StartForced, StartFull, Starting, Clear, Begin, Receive, Written,
       BeginReconcile, CommitIndex, Reconcile, ghost
  <2>2. pc \notin Writing /\ pc' \notin Writing \ {"write"}
    BY <1>4 DEF Starts, StartForced, StartFull, Starting, Clear, ClearSession, Begin, Receive,
       Written, BeginReconcile, CommitIndex, Reconcile, Writing
  <2> QED  BY <2>1, <2>2, StoreStill
<1>5. CASE \/ FetchPage \/ SendMsg \/ MarkSeen \/ PageDone
  BY <1>2, <1>5 DEF FetchPage, SendMsg, MarkSeen, PageDone, Listing, ghost, writer
<1>6. CASE \/ TakeMsg
           \/ \E w \in work : GetBody(w)
           \/ \E w \in work : GetMetadata(w)
           \/ \E w \in work : PutOp(w)
  BY <1>2, <1>6 DEF TakeMsg, GetBody, GetMetadata, PutOp, Working, ghost, writer
<1>7. CASE External \/ UNCHANGED vars
  BY <1>2, <1>7 DEF External, vars, ghost, writer
<1>8. CASE Crossing
  <2>1. /\ UNCHANGED <<store, cut>> /\ pc \notin Writing \ {"write"}
        /\ pc' \notin Writing \ {"write"}
    BY <1>8, CrossingFacts DEF Writing
  <2> QED  BY <2>1, StoreStill
<1> QED
  BY <1>1, <1>3, <1>4, <1>5, <1>6, <1>7, <1>8, Steps

-----------------------------------------------------------------------------
(* The pipeline                                                            *)

(* With nothing on its way nothing is there twice.                         *)
LEMMA OnceEmpty ==
    ASSUME EmptyPipe', Being' = {}
    PROVE  OnceInv' /\ Flight' = {} /\ page' = {} /\ Unsent' = {}
<1>1. Elements(newMsgs)' = {} /\ Single(newMsgs)'
  BY DEF EmptyPipe, Elements, Single
<1>2. MsgsIn(ops)' = {} /\ SingleMsgs(ops)'
  BY DEF EmptyPipe, MsgsIn, SingleMsgs
<1>3. InWork' = {} /\ work' = {} /\ page' = {}
  BY DEF EmptyPipe, InWork
<1>4. Unsent' = {}
  BY <1>3 DEF Unsent
<1> QED
  BY <1>1, <1>2, <1>3, <1>4 DEF OnceInv, Flight

(* Where a step leaves the run in one of these, nothing is on its way.     *)
LEMMA NothingThere ==
    ASSUME FullSyncInv, [Next]_vars,
           pc' \in Outside \/ phase' \in {"reconcile", "update"}
    PROVE  /\ EmptyPipe' /\ Being' = {} /\ Unmarked' = {}
           /\ OnceInv' /\ Flight' = {} /\ page' = {} /\ Unsent' = {}
<1>1. RunInv'
  BY RunStep
<1>2. EmptyPipe' /\ Being' = {}
  BY <1>1 DEF RunInv, Being, Outside, Writing
<1>3. ppc' # "mark"
  BY <1>1 DEF RunInv
<1> QED
  BY <1>2, <1>3, OnceEmpty DEF Unmarked

(* The places of messages when they do not move.                           *)
LEMMA PlacesStill ==
    ASSUME UNCHANGED <<newMsgs, work, ops>>
    PROVE  /\ Elements(newMsgs)' = Elements(newMsgs) /\ (Single(newMsgs)' <=> Single(newMsgs))
           /\ MsgsIn(ops)' = MsgsIn(ops) /\ (SingleMsgs(ops)' <=> SingleMsgs(ops))
           /\ InWork' = InWork
BY DEF Elements, Single, MsgsIn, SingleMsgs, InWork

(* A page has none of the messages that are on their way.                  *)
LEMMA OnceFetch ==
    ASSUME FullSyncInv, FetchPage
    PROVE  /\ OnceInv' /\ Unsent' = page' /\ Flight' = Flight
           /\ page = {} /\ Unmarked' = {} /\ page' \subseteq live
<1> USE DEF FullSyncInv
<1> PICK P \in SUBSET live : IsPage(P, token) /\ page' = P
  BY DEF FetchPage
<1>1. /\ UNCHANGED <<pc, phase, cur, newMsgs, work, ops>> /\ ppc = "fetch" /\ ppc' = "send"
      /\ token' = TokenAfter(P, token)
  BY DEF FetchPage, Listing, main, writer, pipe
<1>2. Being' = Being /\ page = {} /\ Unsent' = P
  BY <1>1 DEF Being, RunInv, Unsent
<1>3. Flight' = Flight
  BY <1>1, <1>2, PlacesStill DEF Flight
<1>4. /\ TokenAfter(P, token) \in Tokens
      /\ \A m \in P : m \in Msgs /\ (token # 0 => m < token)
      /\ TokenAfter(P, token) # 0 => /\ TokenAfter(P, token) \in P
                                     /\ \A m \in P : TokenAfter(P, token) <= m
  BY NextToken DEF MailboxInv, TypeInv
<1>5. CASE token = 0
  <2>1. Elements(newMsgs) = {} /\ InWork = {} /\ MsgsIn(ops) = {}
    BY <1>1, <1>5 DEF RunInv, EmptyPipe, Elements, InWork, MsgsIn
  <2>2. Being = {}
    BY <1>1, <1>5 DEF RunInv, Being, Writing
  <2>3. Flight = {}
    BY <2>1, <2>2 DEF Flight
  <2>4. \A m \in P : m \in Nat
    BY <1>4, Numbers
  <2>5. token' # 0 => \A m \in page' \union Flight' : m >= token'
    BY <1>1, <1>3, <1>4, <2>3, <2>4, Numbers
  <2> QED
    BY <1>1, <1>2, <1>3, <2>3, <2>5, PlacesStill DEF OnceInv, Unmarked
<1>6. CASE token # 0
  <2>1. \A m \in Flight : m >= token
    BY <1>6 DEF OnceInv
  <2>2. Flight \subseteq Nat
    <3>1. Elements(newMsgs) \subseteq Msgs
      BY DEF Elements, TypeInv
    <3>2. InWork \subseteq Msgs
      BY DEF InWork, TypeInv, PipeOps
    <3>3. MsgsIn(ops) \subseteq Msgs
      <4>1. \A i \in DOMAIN ops : ops[i] \in PipeOps
        BY DEF TypeInv
      <4> QED  BY <4>1 DEF MsgsIn, PipeOps
    <3>4. Being \subseteq Msgs
      BY DEF Being, TypeInv, Ops
    <3> QED  BY <3>1, <3>2, <3>3, <3>4, Numbers DEF Flight
  <2>3. token \in Nat /\ P \subseteq Nat /\ (token' # 0 => token' \in P)
    BY <1>1, <1>4, Numbers DEF TypeInv, Tokens
  <2>4. P \intersect Flight = {}
    BY <1>4, <1>6, <2>1, <2>2, <2>3
  <2>5. ASSUME token' # 0, NEW m \in P \union Flight PROVE m >= token'
    <3>1. token' \in P /\ token' \in Nat /\ token' < token /\ \A k \in P : token' <= k
      BY <1>1, <1>4, <1>6, <2>3, <2>5
    <3> QED  BY <2>1, <2>2, <2>3, <3>1
  <2> QED
    BY <1>1, <1>2, <1>3, <2>4, <2>5, PlacesStill DEF OnceInv, Unmarked
<1> QED  BY <1>5, <1>6

(* A message goes from the page to the channel.                            *)
LEMMA OnceSend ==
    ASSUME FullSyncInv, SendMsg
    PROVE  /\ OnceInv' /\ Newest(page) \in page /\ page' = page /\ Unsent = page
           /\ Unsent' = page \ {Newest(page)} /\ Unmarked' = {Newest(page)}
           /\ Flight' = Flight \union {Newest(page)}
<1> USE DEF FullSyncInv
<1> PICK m : m = Newest(page)
  OBVIOUS
<1>1. /\ UNCHANGED <<pc, phase, cur, token, page, work, ops>> /\ ppc = "send" /\ ppc' = "mark"
      /\ page # {} /\ newMsgs' = Append(newMsgs, m)
  BY DEF SendMsg, Listing, main, writer
<1>2. m \in page /\ m \in Msgs
  BY <1>1, PageTypes DEF MailboxInv, TypeInv
<1>3. Unsent = page /\ Unsent' = page \ {m} /\ Unmarked' = {m} /\ Being' = Being
  BY <1>1 DEF Unsent, Unmarked, Being
<1>4. m \notin Flight
  BY <1>2, <1>3 DEF OnceInv
<1>5. Single(newMsgs)' /\ Elements(newMsgs)' = Elements(newMsgs) \union {m}
  <2>1. m \notin Elements(newMsgs) /\ Single(newMsgs)
    BY <1>4 DEF Flight, OnceInv
  <2>2. Single(Append(newMsgs, m)) /\ Elements(Append(newMsgs, m)) = Elements(newMsgs) \union {m}
    BY <1>2, <2>1, AppendSingle DEF TypeInv
  <2>3. Single(newMsgs)'
    BY <1>1, <2>2 DEF Single
  <2>4. Elements(newMsgs)' = Elements(Append(newMsgs, m))
    BY <1>1 DEF Elements
  <2> QED  BY <2>2, <2>3, <2>4
<1>6. InWork' = InWork /\ MsgsIn(ops)' = MsgsIn(ops) /\ SingleMsgs(ops)'
  BY <1>1 DEF InWork, MsgsIn, SingleMsgs, OnceInv
<1>7. Flight' = Flight \union {m}
  BY <1>3, <1>5, <1>6 DEF Flight
<1>8. \A v, w \in work' : v.o.msg = w.o.msg => v = w
  BY <1>1 DEF OnceInv
<1>9. token' # 0 => \A k \in page' \union Flight' : k >= token'
  BY <1>1, <1>2, <1>7 DEF OnceInv
<1>10. Unsent' \intersect Flight' = {}
  BY <1>3, <1>7 DEF OnceInv
<1>11. /\ Elements(newMsgs)' \intersect (InWork' \union MsgsIn(ops)' \union Being') = {}
       /\ InWork' \intersect (MsgsIn(ops)' \union Being') = {}
       /\ MsgsIn(ops)' \intersect Being' = {}
  BY <1>3, <1>4, <1>5, <1>6 DEF OnceInv, Flight
<1> QED
  BY <1>1, <1>2, <1>3, <1>5, <1>6, <1>7, <1>8, <1>9, <1>10, <1>11 DEF OnceInv

(* What is sent is marked, or the page is done.                            *)
LEMMA OnceMark ==
    ASSUME FullSyncInv, MarkSeen \/ PageDone
    PROVE  /\ OnceInv' /\ Unsent' = Unsent /\ Flight' = Flight /\ Unmarked' = {}
           /\ page' = page \ Unmarked /\ seen' = seen \union Unmarked
<1> USE DEF FullSyncInv
<1>1. UNCHANGED <<pc, phase, cur, token, newMsgs, work, ops>>
  BY DEF MarkSeen, PageDone, Listing, main, writer, pipe
<1>2. Being' = Being /\ Flight' = Flight
  BY <1>1, PlacesStill DEF Being, Flight
<1>3. /\ Unsent' = Unsent /\ Unmarked' = {}
      /\ page' = page \ Unmarked /\ seen' = seen \union Unmarked
  BY DEF MarkSeen, PageDone, Unsent, Unmarked, session
<1>4. page' \subseteq page
  BY <1>3
<1> QED
  BY <1>1, <1>2, <1>3, <1>4, PlacesStill DEF OnceInv

(* An id goes to a worker ...                                              *)
LEMMA OnceTake ==
    ASSUME FullSyncInv, TakeMsg
    PROVE  OnceInv' /\ Flight' = Flight
<1> USE DEF FullSyncInv
<1> PICK m : m = Head(newMsgs)
  OBVIOUS
<1> PICK v : v = [at |-> IF keyOf[m] = {} THEN "body" ELSE "meta", o |-> NoOp(m)]
  OBVIOUS
<1>1. /\ UNCHANGED <<pc, phase, cur, token, page, ppc, ops>>
      /\ newMsgs # <<>> /\ newMsgs' = Tail(newMsgs) /\ work' = work \union {v}
      /\ v.o.msg = m
  BY DEF TakeMsg, Working, writer, main, producer, NoOp
<1>2. Being' = Being /\ Unsent' = Unsent
  BY <1>1 DEF Being, Unsent
<1>3. /\ Single(newMsgs)' /\ Elements(newMsgs)' = Elements(newMsgs) \ {m}
      /\ m \in Elements(newMsgs)
  <2>1. Single(newMsgs) /\ newMsgs \in Seq(Msgs)
    BY DEF OnceInv, TypeInv
  <2>2. /\ Single(Tail(newMsgs)) /\ Elements(Tail(newMsgs)) = Elements(newMsgs) \ {m}
        /\ m \in Elements(newMsgs)
    BY <1>1, <2>1, TailSingle
  <2>3. Single(newMsgs)'
    BY <1>1, <2>2 DEF Single
  <2>4. Elements(newMsgs)' = Elements(Tail(newMsgs))
    BY <1>1 DEF Elements
  <2> QED  BY <2>2, <2>3, <2>4
<1>4. MsgsIn(ops)' = MsgsIn(ops) /\ SingleMsgs(ops)'
  BY <1>1 DEF MsgsIn, SingleMsgs, OnceInv
<1>5. InWork' = InWork \union {m}
  BY <1>1 DEF InWork
<1>6. m \notin InWork /\ m \notin MsgsIn(ops) /\ m \notin Being
  BY <1>3 DEF OnceInv
<1>7. \A a, b \in work' : a.o.msg = b.o.msg => a = b
  BY <1>1, <1>6 DEF OnceInv, InWork
<1>8. Flight' = Flight
  BY <1>2, <1>3, <1>4, <1>5 DEF Flight
<1>9. /\ Elements(newMsgs)' \intersect (InWork' \union MsgsIn(ops)' \union Being') = {}
      /\ InWork' \intersect (MsgsIn(ops)' \union Being') = {}
      /\ MsgsIn(ops)' \intersect Being' = {}
  BY <1>2, <1>3, <1>4, <1>5, <1>6 DEF OnceInv
<1> QED
  BY <1>1, <1>2, <1>3, <1>4, <1>7, <1>8, <1>9 DEF OnceInv

(* ... which finds out what to do about it ...                             *)
LEMMA OnceGet ==
    ASSUME FullSyncInv, NEW w \in work, NEW p, NEW o, o.msg = w.o.msg, Becomes(w, p, o),
           UNCHANGED <<pc, phase, cur, token, page, ppc, newMsgs, ops>>
    PROVE  OnceInv' /\ Flight' = Flight
<1> USE DEF FullSyncInv
<1> PICK v : v = [at |-> p, o |-> o]
  OBVIOUS
<1>1. work' = (work \ {w}) \union {v} /\ v.o.msg = w.o.msg
  BY DEF Becomes
<1>2. Being' = Being /\ Unsent' = Unsent
  BY DEF Being, Unsent
<1>3. /\ Single(newMsgs)' /\ Elements(newMsgs)' = Elements(newMsgs)
      /\ MsgsIn(ops)' = MsgsIn(ops) /\ SingleMsgs(ops)'
  BY DEF MsgsIn, SingleMsgs, OnceInv, Single, Elements
<1>5. InWork' = InWork
  BY <1>1 DEF InWork
<1>7. \A a, b \in work' : a.o.msg = b.o.msg => a = b
  BY <1>1 DEF OnceInv
<1>8. Flight' = Flight
  BY <1>2, <1>3, <1>5 DEF Flight
<1> QED
  BY <1>2, <1>3, <1>5, <1>7, <1>8 DEF OnceInv

(* ... and passes it on.                                                   *)
LEMMA OncePut ==
    ASSUME FullSyncInv, NEW w \in work, NEW o \in PipeOps, o.msg = w.o.msg,
           work' = work \ {w}, ops' = Append(ops, o),
           UNCHANGED <<pc, phase, cur, token, page, ppc, newMsgs>>
    PROVE  OnceInv' /\ Flight' = Flight
<1> USE DEF FullSyncInv
<1> PICK m : m = w.o.msg
  OBVIOUS
<1>2. Being' = Being /\ Unsent' = Unsent
  BY DEF Being, Unsent
<1>3. Single(newMsgs)' /\ Elements(newMsgs)' = Elements(newMsgs)
  BY DEF OnceInv, Single, Elements
<1>4. m \in InWork /\ InWork' = InWork \ {m}
  BY DEF InWork, OnceInv
<1>5. m \notin MsgsIn(ops) /\ m \notin Elements(newMsgs) /\ m \notin Being
  BY <1>4 DEF OnceInv
<1>6. SingleMsgs(ops)' /\ MsgsIn(ops)' = MsgsIn(ops) \union {m}
  <2>1. SingleMsgs(ops) /\ ops \in Seq(PipeOps) /\ o.msg \notin MsgsIn(ops)
    BY <1>5 DEF OnceInv, TypeInv
  <2>2. SingleMsgs(Append(ops, o)) /\ MsgsIn(Append(ops, o)) = MsgsIn(ops) \union {m}
    BY <2>1, AppendSingleMsgs
  <2>3. SingleMsgs(ops)'
    BY <2>2 DEF SingleMsgs
  <2>4. MsgsIn(ops)' = MsgsIn(Append(ops, o))
    BY DEF MsgsIn
  <2> QED  BY <2>2, <2>3, <2>4
<1>7. \A a, b \in work' : a.o.msg = b.o.msg => a = b
  BY DEF OnceInv
<1>8. Flight' = Flight
  BY <1>2, <1>3, <1>4, <1>6 DEF Flight
<1>9. /\ Elements(newMsgs)' \intersect (InWork' \union MsgsIn(ops)' \union Being') = {}
      /\ InWork' \intersect (MsgsIn(ops)' \union Being') = {}
      /\ MsgsIn(ops)' \intersect Being' = {}
  BY <1>2, <1>3, <1>4, <1>5, <1>6 DEF OnceInv
<1> QED
  BY <1>2, <1>3, <1>6, <1>7, <1>8, <1>9 DEF OnceInv

(* The main goroutine takes an operation and writes it or not.             *)
LEMMA OnceReceive ==
    ASSUME FullSyncInv, Receive
    PROVE  /\ OnceInv' /\ ops \in Seq(PipeOps) /\ ops # <<>>
           /\ Head(ops).msg \in Flight /\ Flight' \subseteq Flight
           /\ Flight \subseteq Flight' \union {Head(ops).msg}
           /\ pc' = "write" => Flight' = Flight
           /\ UNCHANGED <<page, Unsent, Unmarked>>
<1> USE DEF FullSyncInv
<1> PICK o : o = Head(ops)
  OBVIOUS
<1> PICK m : m = o.msg
  OBVIOUS
<1>1. /\ UNCHANGED <<phase, token, page, ppc, newMsgs, work>>
      /\ pc = "loop" /\ ops # <<>> /\ ops' = Tail(ops) /\ phase = "ops"
      /\ \/ pc' \in {"loop", "failed"}
         \/ pc' = "write" /\ cur' = o
  BY DEF Receive, producer
<1>2. Being = {} /\ Unsent' = Unsent /\ Unmarked' = Unmarked
      /\ Being' = (IF pc' = "write" THEN {m} ELSE {})
  BY <1>1 DEF Being, Unsent, Unmarked, Writing
<1>3. Single(newMsgs)' /\ Elements(newMsgs)' = Elements(newMsgs) /\ InWork' = InWork
  BY <1>1 DEF OnceInv, Single, Elements, InWork
<1>4. ops \in Seq(PipeOps) /\ SingleMsgs(ops)
  BY DEF OnceInv, TypeInv
<1>5. /\ SingleMsgs(ops)' /\ MsgsIn(ops)' = MsgsIn(ops) \ {m} /\ m \in MsgsIn(ops)
  <2>1. /\ SingleMsgs(Tail(ops)) /\ MsgsIn(Tail(ops)) = MsgsIn(ops) \ {m}
        /\ m \in MsgsIn(ops)
    BY <1>1, <1>4, TailSingleMsgs
  <2>3. SingleMsgs(ops)'
    BY <1>1, <2>1 DEF SingleMsgs
  <2>4. MsgsIn(ops)' = MsgsIn(Tail(ops))
    BY <1>1 DEF MsgsIn
  <2> QED  BY <2>1, <2>3, <2>4
<1>6. m \notin Elements(newMsgs) /\ m \notin InWork
  BY <1>5 DEF OnceInv
<1>7. \A a, b \in work' : a.o.msg = b.o.msg => a = b
  BY <1>1 DEF OnceInv
<1>8. /\ Flight' \subseteq Flight /\ Flight \subseteq Flight' \union {m} /\ m \in Flight
      /\ pc' = "write" => Flight' = Flight
  BY <1>2, <1>3, <1>5 DEF Flight
<1>9. /\ Elements(newMsgs)' \intersect (InWork' \union MsgsIn(ops)' \union Being') = {}
      /\ InWork' \intersect (MsgsIn(ops)' \union Being') = {}
      /\ MsgsIn(ops)' \intersect Being' = {}
  BY <1>2, <1>3, <1>5, <1>6 DEF OnceInv
<1>10. token' # 0 => \A k \in page' \union Flight' : k >= token'
  BY <1>1, <1>8 DEF OnceInv
<1>11. Unsent' \intersect Flight' = {}
  BY <1>2, <1>8 DEF OnceInv
<1> QED
  BY <1>1, <1>2, <1>3, <1>4, <1>5, <1>7, <1>8, <1>9, <1>10, <1>11 DEF OnceInv

(* A write that ends leaves the pipeline.                                  *)
LEMMA OnceWrite ==
    ASSUME FullSyncInv, UNCHANGED <<producer, pipe, main>>, Being' \in {Being, {}}
    PROVE  /\ OnceInv' /\ Flight' \subseteq Flight /\ Flight \subseteq Flight' \union Being
           /\ Being' = Being => Flight' = Flight
           /\ UNCHANGED <<Unsent, Unmarked>>
<1> USE DEF FullSyncInv
<1>1. UNCHANGED <<token, page, ppc, newMsgs, work, ops>>
  BY DEF producer, pipe
<1>2. Unsent' = Unsent /\ Unmarked' = Unmarked
  BY <1>1 DEF Unsent, Unmarked
<1>3. /\ Flight' \subseteq Flight /\ Flight \subseteq Flight' \union Being
      /\ Being' = Being => Flight' = Flight
  BY <1>1, PlacesStill DEF Flight
<1>4. token' # 0 => \A k \in page' \union Flight' : k >= token'
  BY <1>1, <1>3 DEF OnceInv
<1>5. Unsent' \intersect Flight' = {}
  BY <1>2, <1>3 DEF OnceInv
<1>6. \A a, b \in work' : a.o.msg = b.o.msg => a = b
  BY <1>1 DEF OnceInv
<1>7. /\ Elements(newMsgs)' \intersect (InWork' \union MsgsIn(ops)' \union Being') = {}
      /\ InWork' \intersect (MsgsIn(ops)' \union Being') = {}
      /\ MsgsIn(ops)' \intersect Being' = {}
  BY <1>1, PlacesStill DEF OnceInv
<1> QED
  BY <1>1, <1>2, <1>3, <1>4, <1>5, <1>6, <1>7, PlacesStill DEF OnceInv

-----------------------------------------------------------------------------
(* What is steady                                                          *)

(* The mailbox stands still for a message that no change is ahead of.      *)
LEMMA StillUntouched ==
    ASSUME UNCHANGED <<mailbox, since>>, NEW m
    PROVE  (Untouched(m)' <=> Untouched(m)) /\ lab' = lab /\ live' = live
BY DEF Untouched, Ahead, mailbox

(* Within a session a message becomes an exception, never the reverse; as  *)
(* long as it is none, it is in the mailbox what it was.                   *)
LEMMA SteadyStep ==
    ASSUME FullSyncInv, [Next]_vars, ~(Begin /\ ~active)
    PROVE  /\ \A m \in Msgs : Untouched(m)' =>
                  Untouched(m) /\ (m \in live' <=> m \in live) /\ lab'[m] = lab[m]
           /\ inHand \subseteq inHand' /\ cut \subseteq cut' /\ stale' = stale
           /\ crossed \subseteq crossed' /\ first' = first
           /\ \A m \in Msgs : Steady(m)' =>
                  Steady(m) /\ (m \in live' <=> m \in live) /\ lab'[m] = lab[m]
<1> USE DEF FullSyncInv
<1> SUFFICES /\ \A m \in Msgs : Untouched(m)' =>
                    Untouched(m) /\ (m \in live' <=> m \in live) /\ lab'[m] = lab[m]
             /\ inHand \subseteq inHand' /\ cut \subseteq cut' /\ stale' = stale
             /\ crossed \subseteq crossed' /\ first' = first
  BY DEF Steady
<1>1. CASE UNCHANGED <<mailbox, since>> /\ inHand \subseteq inHand' /\ cut \subseteq cut'
           /\ stale' = stale /\ crossed \subseteq crossed' /\ first' = first
  BY <1>1, StillUntouched
<1>2. CASE External
  <2>1. historyIdx \in Nat /\ since \in Nat /\ since <= top
    BY MailboxAssumption DEF TypeInv, MailboxInv, MailboxTypeOK
  <2> QED  BY <1>2, <2>1, UntouchedStill DEF External, ghost
<1>3. CASE Fail \/ Kill
  <2>1. EndRun /\ cut \subseteq cut'
    BY <1>3, Ended
  <2>2. UNCHANGED <<mailbox, since, crossed>> /\ inHand \subseteq inHand' /\ stale' = stale
        /\ first' = first
    BY <2>1 DEF EndRun
  <2> QED  BY <1>1, <2>1, <2>2
<1>4. CASE Begin /\ active
  BY <1>1, <1>4 DEF Begin
<1>5. CASE Starts \/ Clear \/ FetchPage \/ SendMsg \/ MarkSeen \/ PageDone
  BY <1>1, <1>5 DEF Starts, StartForced, StartFull, Starting, Clear, FetchPage, SendMsg,
     MarkSeen, PageDone, Listing, ghost
<1>6. CASE \/ TakeMsg
           \/ \E w \in work : GetBody(w)
           \/ \E w \in work : GetMetadata(w)
           \/ \E w \in work : PutOp(w)
  BY <1>1, <1>6 DEF TakeMsg, GetBody, GetMetadata, PutOp, Working, ghost
<1>7. CASE \/ Receive \/ Written \/ BeginReconcile \/ CommitIndex
           \/ \E m \in Msgs : Reconcile(m)
  BY <1>1, <1>7 DEF Receive, Written, BeginReconcile, CommitIndex, Reconcile, ghost
<1>8. CASE Write
  BY <1>1, <1>8 DEF Write, WriteOperation, WriteAdd, WriteLabels, SetMsgLabels, SetMsgKey,
     RemoveOld, WriteDel, Remove, DelMsgKey, DelMsgLabels, Goto, ghost
<1>9. CASE UNCHANGED vars
  BY <1>1, <1>9 DEF vars, ghost
<1>10. CASE Crossing
  BY <1>1, <1>10, CrossingFacts
<1> QED
  BY <1>2, <1>3, <1>4, <1>5, <1>6, <1>7, <1>8, <1>9, <1>10, Steps

(* What is on its way are messages.                                        *)
LEMMA FlightTypes ==
    ASSUME TypeInv
    PROVE  /\ Flight \subseteq Msgs
           /\ \A w \in work : w.o \in PipeOps /\ w.o.msg \in Msgs
           /\ \A i \in DOMAIN ops : ops[i] \in PipeOps /\ ops[i].msg \in Msgs
<1>1. \A w \in work : w.o \in PipeOps /\ w.o.msg \in Msgs
  BY DEF TypeInv, PipeOps
<1>2. \A i \in DOMAIN ops : ops[i] \in PipeOps
  BY DEF TypeInv
<1>3. \A i \in DOMAIN ops : ops[i].msg \in Msgs
  BY <1>2 DEF PipeOps
<1>4. Elements(newMsgs) \subseteq Msgs
  BY DEF Elements, TypeInv
<1>5. Being \subseteq Msgs
  BY DEF Being, TypeInv, Ops
<1> QED
  BY <1>1, <1>2, <1>3, <1>4, <1>5 DEF Flight, InWork, MsgsIn

(* A message on its way that is not being written has the cache true.      *)
LEMMA OneInFlight ==
    ASSUME FullSyncInv, NEW m \in Msgs \ cut,
           m \in InWork \/ m \in MsgsIn(ops)
    PROVE  One(m)
<1> USE DEF FullSyncInv
<1>1. m \notin Being
  BY DEF OnceInv
<1>2. ~EmptyPipe
  <2>1. work # {} \/ ops # <<>>
    BY DEF InWork, MsgsIn
  <2> QED  BY <2>1 DEF EmptyPipe
<1>3. phase = "ops"
  BY <1>2 DEF RunInv
<1>4. ~MidWrite(m)
  BY <1>1, <1>3 DEF MidWrite, Being
<1> QED  BY <1>4 DEF StoreInv

-----------------------------------------------------------------------------
(* What operations say                                                     *)

(* It is true as long as the message is not written.                       *)
LEMMA OpTrueKept ==
    ASSUME NEW o, OpTrue(o), keyOf'[o.msg] = keyOf[o.msg], labOf'[o.msg] = labOf[o.msg],
           Steady(o.msg)' => Steady(o.msg) /\ lab'[o.msg] = lab[o.msg]
    PROVE  OpTrue(o)'
BY DEF OpTrue

(* Operations stay true while neither they nor the store move.             *)
LEMMA OpsStill ==
    ASSUME FullSyncInv, [Next]_vars, ~(Begin /\ ~active),
           UNCHANGED <<store, work, ops, pc, cur, phase>>
    PROVE  OpsInv'
<1> USE DEF FullSyncInv
<1>1. keyOf' = keyOf /\ labOf' = labOf
  BY DEF store
<1>2. ASSUME NEW w \in work, w.at = "put" PROVE OpTrue(w.o)'
  BY <1>1, <1>2, FlightTypes, SteadyStep, OpTrueKept DEF OpsInv
<1>3. ASSUME NEW i \in DOMAIN ops PROVE OpTrue(ops[i])'
  <2> PICK o : o = ops[i]
    OBVIOUS
  <2>1. OpTrue(o)'
    BY <1>1, FlightTypes, SteadyStep, OpTrueKept DEF OpsInv
  <2> QED  BY <2>1 DEF OpTrue
<1> PICK c : c = cur
  OBVIOUS
<1>4. pc \in Writing => c.msg \in Msgs
  BY DEF TypeInv, Ops
<1>5. pc = "write" /\ phase = "ops" => OpTrue(c)'
  BY <1>1, <1>4, SteadyStep, OpTrueKept DEF OpsInv, Writing
<1>6. pc \in Writing /\ phase = "ops" /\ Steady(c.msg)' => c.labels = lab'[c.msg]
  BY <1>4, SteadyStep DEF OpsInv
<1>7. pc' = "write" /\ phase' = "ops" => OpTrue(cur)'
  BY <1>5 DEF OpTrue
<1>8. pc' \in Writing /\ phase' = "ops" /\ Steady(cur.msg)' => cur'.labels = lab'[cur'.msg]
  BY <1>6 DEF Steady
<1>9. \A w \in work' : IF w.at = "put" THEN OpTrue(w.o)' ELSE w.o.op = "none"
  BY <1>2 DEF OpsInv
<1>10. \A i \in DOMAIN ops' : OpTrue(ops[i])'
  BY <1>3
<1> QED
  BY <1>7, <1>8, <1>9, <1>10 DEF OpsInv

(* A worker makes an operation from what Gmail and the cache say, ...      *)
LEMMA MetaTrue ==
    ASSUME FullSyncInv, NEW m \in live,
           NEW o, o.msg = m, o.op = Kind(m, lab[m], keyOf[m]), o.labels = lab[m]
    PROVE  OpTrue(o)
BY DEF OpTrue, Kind, LabelsChanged

(* ... and one of a message that is gone or cannot be parsed is not of a   *)
(* steady message.                                                         *)
LEMMA GoneTrue ==
    ASSUME FullSyncInv, NEW m \in InWork, m \notin Readable,
           NEW o, o.msg = m, o.op \in {"none", "error"}
    PROVE  OpTrue(o)
<1>1. ~EmptyPipe /\ m \in Flight
  BY DEF EmptyPipe, InWork, Flight
<1>2. active
  BY <1>1 DEF FullSyncInv, RunInv
<1>3. ~Steady(m)
  BY <1>1, <1>2 DEF FullSyncInv, LiveInv, Readable, Steady
<1> QED  BY <1>3 DEF OpTrue

(* The operations of the workers are true when they are passed on.         *)
LEMMA OpsWork ==
    ASSUME FullSyncInv, [Next]_vars,
           \/ TakeMsg
           \/ \E w \in work : GetBody(w)
           \/ \E w \in work : GetMetadata(w)
           \/ \E w \in work : PutOp(w)
    PROVE  OpsInv'
<1> USE DEF FullSyncInv
<1>0. /\ UNCHANGED <<keyOf, labOf, pc, cur, phase>> /\ ~Begin
      /\ UNCHANGED <<store, mailbox, ghost>>
  BY DEF TakeMsg, GetBody, GetMetadata, PutOp, Working, writer, main, store, Begin, producer
<1>1. ASSUME NEW o, OpTrue(o), o.msg \in Msgs PROVE OpTrue(o)'
  BY <1>0, <1>1, SteadyStep, OpTrueKept
<1>2. ASSUME \A w \in work' : IF w.at = "put" THEN OpTrue(w.o) ELSE w.o.op = "none",
             \A w \in work' : w.o.msg \in Msgs,
             \A i \in DOMAIN ops' : OpTrue(ops'[i]) /\ ops'[i].msg \in Msgs
      PROVE  OpsInv'
  <2>1. ASSUME NEW w \in work', w.at = "put" PROVE OpTrue(w.o)'
    BY <1>1, <1>2, <2>1
  <2>2. ASSUME NEW i \in DOMAIN ops' PROVE OpTrue(ops[i])'
    <3> PICK o : o = ops'[i]
      OBVIOUS
    <3>1. OpTrue(o)'
      BY <1>1, <1>2
    <3> QED  BY <3>1 DEF OpTrue
  <2> PICK c : c = cur
    OBVIOUS
  <2>3. pc \in Writing => c.msg \in Msgs
    BY DEF TypeInv, Ops
  <2>4. pc = "write" /\ phase = "ops" => OpTrue(c)'
    BY <1>1, <2>3 DEF OpsInv, Writing
  <2>5. pc \in Writing /\ phase = "ops" /\ Steady(c.msg)' => c.labels = lab'[c.msg]
    BY <1>0, <2>3, SteadyStep DEF OpsInv
  <2>6. pc' = "write" /\ phase' = "ops" => OpTrue(cur)'
    BY <1>0, <2>4 DEF OpTrue
  <2>7. pc' \in Writing /\ phase' = "ops" /\ Steady(cur.msg)' => cur'.labels = lab'[cur'.msg]
    BY <1>0, <2>5 DEF Steady
  <2>8. \A w \in work' : IF w.at = "put" THEN OpTrue(w.o)' ELSE w.o.op = "none"
    BY <1>2, <2>1
  <2> QED  BY <2>2, <2>6, <2>7, <2>8 DEF OpsInv
<1>3. ASSUME NEW p, NEW o, NEW w \in work, o.msg = w.o.msg,
             IF p = "put" THEN OpTrue(o) ELSE o.op = "none",
             Becomes(w, p, o), ops' = ops
      PROVE  OpsInv'
  <2> PICK v : v = [at |-> p, o |-> o]
    OBVIOUS
  <2>1. work' = (work \ {w}) \union {v} /\ v.at = p /\ v.o = o
    BY <1>3 DEF Becomes
  <2>2. \A x \in work' : IF x.at = "put" THEN OpTrue(x.o) ELSE x.o.op = "none"
    BY <1>3, <2>1 DEF OpsInv
  <2>3. \A x \in work' : x.o.msg \in Msgs
    BY <1>3, <2>1, FlightTypes
  <2>4. \A i \in DOMAIN ops' : OpTrue(ops'[i]) /\ ops'[i].msg \in Msgs
    BY <1>3, FlightTypes DEF OpsInv
  <2> QED  BY <1>2, <2>2, <2>3, <2>4
<1>4. CASE TakeMsg
  <2> PICK m : m = Head(newMsgs)
    OBVIOUS
  <2> PICK v : v = [at |-> IF keyOf[m] = {} THEN "body" ELSE "meta", o |-> NoOp(m)]
    OBVIOUS
  <2>1. /\ work' = work \union {v} /\ ops' = ops
        /\ v.o.msg = m /\ v.o.op = "none" /\ v.at # "put"
    BY <1>4 DEF TakeMsg, NoOp
  <2>2. m \in Msgs
    BY <1>4, TailOf DEF TakeMsg, TypeInv
  <2>3. \A x \in work' : IF x.at = "put" THEN OpTrue(x.o) ELSE x.o.op = "none"
    BY <2>1 DEF OpsInv
  <2>4. \A x \in work' : x.o.msg \in Msgs
    BY <2>1, <2>2, FlightTypes
  <2>5. \A i \in DOMAIN ops' : OpTrue(ops'[i]) /\ ops'[i].msg \in Msgs
    BY <2>1, FlightTypes DEF OpsInv
  <2> QED  BY <1>2, <2>3, <2>4, <2>5
<1>5. CASE \E w \in work : GetBody(w)
  <2> PICK w \in work : GetBody(w)
    BY <1>5
  <2>1. /\ w.at = "body" /\ ops' = ops
        /\ Becomes(w, IF w.o.msg \in Readable THEN "meta" ELSE "put", w.o)
    BY DEF GetBody
  <2>2. w.o.op = "none" /\ w.o.msg \in InWork
    BY <2>1 DEF OpsInv, InWork
  <2>3. w.o.msg \notin Readable => OpTrue(w.o)
    BY <2>2, GoneTrue
  <2>4. CASE w.o.msg \in Readable
    <3>1. Becomes(w, "meta", w.o)
      BY <2>1, <2>4
    <3> QED  BY <1>3, <2>1, <2>2, <3>1
  <2>5. CASE w.o.msg \notin Readable
    <3>1. Becomes(w, "put", w.o)
      BY <2>1, <2>5
    <3> QED  BY <1>3, <2>1, <2>3, <2>5, <3>1
  <2> QED  BY <2>4, <2>5
<1>6. CASE \E w \in work : GetMetadata(w)
  <2> PICK w \in work : GetMetadata(w)
    BY <1>6
  <2> PICK m : m = w.o.msg
    OBVIOUS
  <2>1. m \in Msgs /\ m \in InWork /\ ops' = ops /\ w.o \in PipeOps
    BY FlightTypes DEF InWork, GetMetadata
  <2>2. CASE m \notin live
    <3> PICK e : e = [w.o EXCEPT !.op = "error"]
      OBVIOUS
    <3>1. e.msg = m /\ e.op = "error"
      BY <2>1 DEF PipeOps
    <3>2. Becomes(w, "put", e)
      BY <2>2 DEF GetMetadata
    <3>3. OpTrue(e)
      BY <2>1, <2>2, <3>1, GoneTrue DEF Readable
    <3> QED  BY <1>3, <2>1, <3>1, <3>2, <3>3
  <2>3. CASE m \in live
    <3> PICK o : o = [op |-> Kind(m, lab[m], keyOf[m]), msg |-> m, labels |-> lab[m],
                      hid |-> MetaId(m)]
      OBVIOUS
    <3>1. o.msg = m /\ o.op = Kind(m, lab[m], keyOf[m]) /\ o.labels = lab[m]
      OBVIOUS
    <3>2. Becomes(w, "put", o)
      BY <2>3 DEF GetMetadata
    <3>3. OpTrue(o)
      BY <2>3, <3>1, MetaTrue
    <3> QED  BY <1>3, <2>1, <3>1, <3>2, <3>3
  <2> QED  BY <2>2, <2>3
<1>7. CASE \E w \in work : PutOp(w)
  <2> PICK w \in work : PutOp(w)
    BY <1>7
  <2> PICK m : m = w.o.msg
    OBVIOUS
  <2>1. /\ m \in Msgs /\ m \in InWork /\ w.o \in PipeOps /\ w.at = "put" /\ OpTrue(w.o)
        /\ work' = work \ {w}
    BY FlightTypes DEF InWork, PutOp, OpsInv
  <2> PICK e : e = [w.o EXCEPT !.op = "error"]
    OBVIOUS
  <2>2. e.msg = m /\ e.op = "error" /\ e \in PipeOps
    BY <2>1, PipeOpTypes DEF PipeOps, MailboxInv
  <2>3. ASSUME w.o.op = "labels", FilesAt(keyOf[m]) = {} PROVE OpTrue(e)
    <3>1. keyOf[m] # {}
      BY <2>1, <2>3 DEF OpTrue
    <3>2. m \notin cut => One(m)
      BY <2>1, OneInFlight
    <3>3. m \in cut
      BY <2>3, <3>1, <3>2 DEF One, FilesAt
    <3> QED  BY <2>2, <3>3 DEF OpTrue, Steady
  <2>4. \E o \in {e, w.o} : ops' = Append(ops, o) /\ OpTrue(o)
    BY <2>1, <2>3 DEF PutOp
  <2> PICK o \in {e, w.o} : ops' = Append(ops, o) /\ OpTrue(o)
    BY <2>4
  <2>5. o \in PipeOps /\ o.msg \in Msgs
    BY <2>1, <2>2
  <2>6. \A i \in DOMAIN ops' : ops'[i] = o \/ (i \in DOMAIN ops /\ ops'[i] = ops[i])
    BY <2>5, AppendOf DEF TypeInv
  <2>7. \A i \in DOMAIN ops : OpTrue(ops[i]) /\ ops[i].msg \in Msgs
    BY FlightTypes DEF OpsInv
  <2>8. \A i \in DOMAIN ops' : OpTrue(ops'[i]) /\ ops'[i].msg \in Msgs
    BY <2>5, <2>6, <2>7
  <2>9. \A x \in work' : IF x.at = "put" THEN OpTrue(x.o) ELSE x.o.op = "none"
    BY <2>1 DEF OpsInv
  <2>10. \A x \in work' : x.o.msg \in Msgs
    BY <2>1, FlightTypes
  <2> QED  BY <1>2, <2>8, <2>9, <2>10
<1> QED  BY <1>4, <1>5, <1>6, <1>7

(* The main goroutine takes an operation as it is ...                      *)
LEMMA OpsReceive ==
    ASSUME FullSyncInv, [Next]_vars, Receive
    PROVE  OpsInv'
<1> USE DEF FullSyncInv
<1> PICK o : o = Head(ops)
  OBVIOUS
<1>1. /\ UNCHANGED <<store, keyOf, labOf, mailbox, ghost, phase, work>> /\ ~Begin
      /\ ops # <<>> /\ ops' = Tail(ops) /\ phase = "ops"
      /\ \/ pc' \in {"loop", "failed"}
         \/ pc' = "write" /\ cur' = o /\ o.op \notin {"none", "error"}
  BY DEF Receive, store, Begin
<1>2. ASSUME NEW x, OpTrue(x), x.msg \in Msgs PROVE OpTrue(x)'
  BY <1>1, <1>2, SteadyStep, OpTrueKept
<1>3. 1 \in DOMAIN ops /\ o = ops[1]
  BY <1>1, TailOf DEF TypeInv
<1>4. OpTrue(o) /\ o.msg \in Msgs
  BY <1>3, FlightTypes DEF OpsInv
<1>5. ASSUME NEW i \in DOMAIN ops' PROVE OpTrue(ops[i])'
  <2> PICK x : x = ops'[i]
    OBVIOUS
  <2>1. i + 1 \in DOMAIN ops /\ x = ops[i + 1]
    BY <1>1, TailOf DEF TypeInv
  <2>2. OpTrue(x) /\ x.msg \in Msgs
    BY <2>1, FlightTypes DEF OpsInv
  <2>3. OpTrue(x)'
    BY <1>2, <2>2
  <2> QED  BY <2>3 DEF OpTrue
<1>6. ASSUME NEW w \in work', w.at = "put" PROVE OpTrue(w.o)'
  BY <1>1, <1>2, <1>6, FlightTypes DEF OpsInv
<1>7. \A w \in work' : IF w.at = "put" THEN OpTrue(w.o)' ELSE w.o.op = "none"
  BY <1>1, <1>6 DEF OpsInv
<1>8. OpTrue(o)'
  BY <1>2, <1>4
<1>9. pc' = "write" => OpTrue(cur)'
  BY <1>1, <1>8 DEF OpTrue
<1>10. pc' \in Writing /\ Steady(cur.msg)' => cur'.labels = lab'[cur'.msg]
  <2>1. Steady(o.msg)' /\ o.op # "none" => o.labels = lab'[o.msg]
    BY <1>8 DEF OpTrue
  <2> QED  BY <1>1, <2>1 DEF Steady, Writing
<1> QED
  BY <1>5, <1>7, <1>9, <1>10 DEF OpsInv

(* ... and writes it: no other operation is of the same message.           *)
LEMMA OpsWrite ==
    ASSUME FullSyncInv, [Next]_vars, Write, phase = "ops"
    PROVE  OpsInv'
<1> USE DEF FullSyncInv
<1> PICK c : c = cur
  OBVIOUS
<1> PICK m : m = c.msg
  OBVIOUS
<1>1. WriteFrame /\ WriteResult
  BY WriteFramed, WriteStore DEF Write
<1>2. /\ UNCHANGED <<pipe, main, phase, cur, work, ops>> /\ ~Begin
      /\ pc \in Writing /\ pc' # "write"
  BY DEF Write, WriteOperation, WriteAdd, WriteLabels, SetMsgLabels, SetMsgKey,
     RemoveOld, WriteDel, Remove, DelMsgKey, DelMsgLabels, Goto, Writing, Begin, pipe, main
<1>3. m \in Being /\ m \in Msgs
  BY <1>1, <1>2 DEF Being, WriteFrame
<1>4. ASSUME NEW x, OpTrue(x), x.msg \in Msgs, x.msg # m PROVE OpTrue(x)'
  BY <1>1, <1>2, <1>4, SteadyStep, OpTrueKept DEF WriteResult
<1>5. ASSUME NEW w \in work, w.at = "put" PROVE OpTrue(w.o)'
  <2>1. w.o.msg # m
    BY <1>3 DEF OnceInv, InWork
  <2> QED  BY <1>4, <1>5, <2>1, FlightTypes DEF OpsInv
<1>6. ASSUME NEW i \in DOMAIN ops PROVE OpTrue(ops[i])'
  <2> PICK x : x = ops[i]
    OBVIOUS
  <2>1. x.msg # m
    BY <1>3 DEF OnceInv, MsgsIn
  <2>2. OpTrue(x)'
    BY <1>4, <2>1, FlightTypes DEF OpsInv
  <2> QED  BY <1>2, <2>2 DEF OpTrue
<1>7. \A w \in work' : IF w.at = "put" THEN OpTrue(w.o)' ELSE w.o.op = "none"
  BY <1>2, <1>5 DEF OpsInv
<1>8. Steady(m)' => c.labels = lab'[m]
  BY <1>2, <1>3, SteadyStep DEF OpsInv
<1>9. Steady(cur.msg)' => cur'.labels = lab'[cur'.msg]
  BY <1>2, <1>8 DEF Steady
<1> QED
  BY <1>2, <1>6, <1>7, <1>9 DEF OpsInv

(* Every step leaves the operations on their way true.                     *)
LEMMA OpsStep ==
    ASSUME FullSyncInv, [Next]_vars
    PROVE  OpsInv'
<1> USE DEF FullSyncInv
<1>1. ASSUME EmptyPipe', phase' = "ops" => pc' \notin Writing PROVE OpsInv'
  BY <1>1 DEF EmptyPipe, OpsInv, Writing
<1>2. CASE pc' \in Outside \/ phase' \in {"reconcile", "update"}
  <2>1. EmptyPipe'
    BY <1>2, NothingThere
  <2> QED  BY <1>1, <1>2, <2>1 DEF Outside, Writing
<1>3. CASE Begin
  <2>1. EmptyPipe' /\ pc' = "loop"
    BY <1>3 DEF Begin, RunInv, EmptyPipe, Outside, pipe
  <2> QED  BY <1>1, <2>1 DEF Writing
<1>4. CASE Starts \/ Clear \/ CommitIndex \/ BeginReconcile
  <2>1. pc' \in Outside \/ phase' = "reconcile"
    BY <1>4 DEF Starts, StartForced, StartFull, Starting, Clear, ClearSession, CommitIndex,
       BeginReconcile, Outside
  <2> QED  BY <1>2, <2>1
<1>5. CASE Fail \/ Kill
  <2>1. pc' \in Outside
    BY <1>5, Ended DEF EndRun, Outside
  <2> QED  BY <1>2, <2>1
<1>6. CASE \E m \in Msgs : Reconcile(m)
  <2>1. phase' = "reconcile"
    BY <1>6 DEF Reconcile
  <2> QED  BY <1>2, <2>1
<1>7. CASE FetchPage \/ SendMsg \/ MarkSeen \/ PageDone
  <2>1. UNCHANGED <<store, work, ops, pc, cur, phase>> /\ ~Begin
    BY <1>7 DEF FetchPage, SendMsg, MarkSeen, PageDone, Listing, writer, main, pipe, Begin
  <2> QED  BY <2>1, OpsStill
<1>8. CASE Written
  <2>1. UNCHANGED <<store, mailbox, work, ops, phase, keyOf, labOf>> /\ ~Begin
        /\ pc' \notin Writing
    BY <1>8 DEF Written, main, pipe, Begin, store, Writing
  <2>2. ASSUME NEW w \in work, w.at = "put" PROVE OpTrue(w.o)'
    BY <2>1, <2>2, FlightTypes, SteadyStep, OpTrueKept DEF OpsInv
  <2>3. ASSUME NEW i \in DOMAIN ops PROVE OpTrue(ops[i])'
    <3> PICK o : o = ops[i]
      OBVIOUS
    <3>1. OpTrue(o)'
      BY <2>1, FlightTypes, SteadyStep, OpTrueKept DEF OpsInv
    <3> QED  BY <2>1, <3>1 DEF OpTrue
  <2>4. \A w \in work' : IF w.at = "put" THEN OpTrue(w.o)' ELSE w.o.op = "none"
    BY <2>1, <2>2 DEF OpsInv
  <2> QED  BY <2>1, <2>3, <2>4 DEF OpsInv, Writing
<1>9. CASE External \/ UNCHANGED vars
  <2>1. UNCHANGED <<store, work, ops, pc, cur, phase>> /\ (Begin => active)
    BY <1>9 DEF External, vars, writer, main, pipe, Begin
  <2> QED  BY <2>1, OpsStill
<1>10. CASE Write
  <2>1. phase \in {"ops", "reconcile", "update"} /\ phase' = phase
    <3>1. pc \notin Outside
      BY <1>10 DEF Write, WriteOperation, WriteAdd, WriteLabels, SetMsgLabels, SetMsgKey,
         RemoveOld, WriteDel, DelMsgKey, DelMsgLabels, Outside
    <3> QED  BY <1>10, <3>1 DEF RunInv, Write, main
  <2> QED  BY <1>2, <1>10, <2>1, OpsWrite
<1>11. CASE Crossing
  <2>1. pc' \in Outside \/ phase' = "update"
    BY <1>11, CrossingFacts DEF Outside
  <2> QED  BY <1>2, <2>1
<1> QED
  BY <1>3, <1>4, <1>5, <1>6, <1>7, <1>8, <1>9, <1>10, <1>11, Steps, OpsWork, OpsReceive

-----------------------------------------------------------------------------
(* The session                                                             *)

(* What a step of a write leaves alone, and where it goes.                 *)
LEMMA WriteFacts ==
    ASSUME FullSyncInv, Write
    PROVE  /\ WriteFrame /\ WriteResult
           /\ UNCHANGED <<mailbox, session, producer, pipe, main, ghost, cur>>
           /\ phase \in {"ops", "reconcile", "update"} /\ (phase # "update" => active)
           /\ pc \in Writing
           /\ \/ pc = "write" /\ pc' \in {"setlabels", "written", "failed", "delkey"}
              \/ pc = "setlabels" /\ pc' = "setkey"
              \/ pc = "setkey" /\ pc' \in {"remove", "written"}
              \/ pc = "remove" /\ pc' \in {"written", "failed"}
              \/ pc = "delkey" /\ pc' = "dellabels"
              \/ pc = "dellabels" /\ pc' = "written"
<1>1. WriteFrame /\ WriteResult
  BY WriteFramed, WriteStore DEF Write
<1>2. UNCHANGED <<mailbox, session, producer, pipe, main, ghost, cur>>
  BY DEF Write, WriteOperation, WriteAdd, WriteLabels, SetMsgLabels, SetMsgKey,
     RemoveOld, WriteDel, Remove, DelMsgKey, DelMsgLabels, Goto
<1>3. /\ pc \in Writing
      /\ \/ pc = "write" /\ pc' \in {"setlabels", "written", "failed", "delkey"}
         \/ pc = "setlabels" /\ pc' = "setkey"
         \/ pc = "setkey" /\ pc' \in {"remove", "written"}
         \/ pc = "remove" /\ pc' \in {"written", "failed"}
         \/ pc = "delkey" /\ pc' = "dellabels"
         \/ pc = "dellabels" /\ pc' = "written"
  BY DEF Write, WriteOperation, WriteAdd, WriteLabels, SetMsgLabels, SetMsgKey,
     RemoveOld, WriteDel, Remove, DelMsgKey, DelMsgLabels, Goto, Writing
<1>4. pc \notin Outside
  BY <1>3 DEF Writing, Outside
<1>5. phase \in {"ops", "reconcile", "update"} /\ (phase # "update" => active)
  BY <1>4 DEF FullSyncInv, RunInv
<1> QED  BY <1>1, <1>2, <1>3, <1>5

(* The steps of a run leave the mailbox alone.                             *)
LEMMA MailboxStays ==
    ASSUME FullSyncInv, [Next]_vars
    PROVE  /\ MailboxInv' /\ Down'
           /\ ~External => UNCHANGED mailbox
<1> USE DEF FullSyncInv
<1>1. CASE External
  <2>1. historyIdx \in Nat
    BY DEF TypeInv
  <2> QED  BY <1>1, <2>1, ExternalMailbox, DownStep
<1>2. CASE UNCHANGED mailbox
  <2>1. MailboxInv' /\ \A m : Touched(m)' <=> Touched(m)
    BY <1>2, StillInv
  <2> QED  BY <1>2, <2>1 DEF Down
<1>3. CASE Starts \/ Clear \/ Begin \/ FetchPage \/ SendMsg \/ MarkSeen \/ PageDone
  BY <1>2, <1>3 DEF Starts, StartForced, StartFull, Starting, Clear, Begin, FetchPage, SendMsg,
     MarkSeen, PageDone, Listing
<1>4. CASE \/ TakeMsg
           \/ \E w \in work : GetBody(w)
           \/ \E w \in work : GetMetadata(w)
           \/ \E w \in work : PutOp(w)
  BY <1>2, <1>4 DEF TakeMsg, GetBody, GetMetadata, PutOp, Working
<1>5. CASE \/ Receive \/ Written \/ BeginReconcile \/ CommitIndex
           \/ \E m \in Msgs : Reconcile(m)
  BY <1>2, <1>5 DEF Receive, Written, BeginReconcile, CommitIndex, Reconcile
<1>6. CASE Write
  BY <1>2, <1>6, WriteFacts
<1>7. CASE Fail \/ Kill \/ UNCHANGED vars
  BY <1>2, <1>7, Ended DEF EndRun, vars
<1>8. CASE Crossing
  BY <1>2, <1>8, CrossingFacts
<1> QED  BY <1>1, <1>2, <1>3, <1>4, <1>5, <1>6, <1>7, <1>8, Steps

(* A session is begun: what is left of an earlier one is excepted.         *)
LEMMA NewSession ==
    ASSUME FullSyncInv, Begin, ~active
    PROVE  /\ \A m \in Msgs : Steady(m)' => m \notin seen /\ m \notin LeftOut
           /\ \A m \in live : m <= first' /\ live' = live
           /\ seen' = seen /\ seen \union LeftOut = stale'
<1> USE DEF FullSyncInv
<1>1. /\ stale' = seen \union LeftOut /\ live' = live /\ seen' = seen
      /\ first' = Newest(live \union {0})
  BY DEF Begin, mailbox
<1>2. \A k \in live : k <= Newest(live \union {0})
  BY PageTypes DEF MailboxInv
<1> QED
  BY <1>1, <1>2 DEF Steady

(* What a run that is starting has.                                        *)
LEMMA Beginning ==
    ASSUME FullSyncInv, Begin
    PROVE  /\ EmptyPipe' /\ Being' = {} /\ Unmarked' = {} /\ Flight' = {} /\ page' = {}
           /\ OnceInv' /\ Unsent' = {} /\ Unmarked = {} /\ Flight = {} /\ page = {}
           /\ Unsent = {}
           /\ pc' = "loop" /\ phase' = "ops" /\ ppc' = "fetch" /\ ppc = "off"
           /\ UNCHANGED <<seen, pageToken, store, mailbox, cut>>
<1> USE DEF FullSyncInv
<1>1. EmptyPipe' /\ EmptyPipe /\ pc' = "loop" /\ pc = "begin" /\ ppc' = "fetch" /\ ppc = "off"
  BY DEF Begin, RunInv, EmptyPipe, Outside, pipe
<1>2. Being' = {} /\ Being = {}
  BY <1>1 DEF Being, Writing
<1>3. Elements(newMsgs) = {} /\ InWork = {} /\ MsgsIn(ops) = {}
  BY <1>1 DEF EmptyPipe, Elements, InWork, MsgsIn
<1> QED
  BY <1>1, <1>2, <1>3, OnceEmpty DEF Flight, Unsent, Unmarked, EmptyPipe, Begin

(* Between runs, while one reconciles and in an incremental run nothing is *)
(* on its way.                                                             *)
LEMMA NothingOnWay ==
    ASSUME FullSyncInv, pc \in Outside \/ phase \in {"reconcile", "update"}
    PROVE  Flight = {} /\ page = {} /\ Unsent = {} /\ Unmarked = {}
<1> USE DEF FullSyncInv
<1>1. EmptyPipe /\ ppc # "mark"
  BY DEF RunInv
<1>2. Being = {}
  BY DEF Being, Outside, Writing
<1>3. Elements(newMsgs) = {} /\ InWork = {} /\ MsgsIn(ops) = {}
  BY <1>1 DEF EmptyPipe, Elements, InWork, MsgsIn
<1> QED
  BY <1>1, <1>2, <1>3 DEF Flight, Unsent, Unmarked, EmptyPipe

(* An arrival is newer than the messages of the session.                   *)
LEMMA NewIsLater ==
    ASSUME FullSyncInv, External
    PROVE  \A m \in live' : m <= first => m \in live
<1> USE DEF FullSyncInv
<1> SUFFICES ASSUME NEW m \in live', m \notin live, m <= first PROVE FALSE
  OBVIOUS
<1>1. historyIdx \in Nat
  BY DEF TypeInv
<1>2. ~Touched(m) /\ \A k \in Msgs : k < m => Touched(k)
  BY <1>1, DownStep
<1>3. m \in Msgs /\ m \in Nat \ {0}
  <2>1. MailboxInv'
    BY <1>1, ExternalMailbox
  <2> QED  BY <2>1, Numbers DEF MailboxInv, MailboxTypeOK
<1>4. first \in Msgs /\ first \in Nat /\ Touched(first)
  BY <1>3, Numbers DEF TypeInv, Tokens
<1>5. m # first
  BY <1>2, <1>4
<1>6. m < first
  BY <1>3, <1>4, <1>5
<1> QED  BY <1>2, <1>3, <1>4, <1>6 DEF Down

(* While the listing stands still.                                         *)
LEMMA CoverStill ==
    ASSUME FullSyncInv, [Next]_vars, ~Begin,
           active' => active,
           seen \subseteq seen', page' = page, pageToken' = pageToken,
           ppc = "fetch" => ppc' = "fetch", Paused => Paused'
    PROVE  CoverInv'
<1> USE DEF FullSyncInv
<1> SUFFICES ASSUME active', NEW m \in live', m <= first'
             PROVE  m \in seen' \union inHand' \union stale' \union page' \/ ToList(m)'
  BY DEF CoverInv
<1>1. /\ inHand \subseteq inHand' /\ stale' = stale /\ first' = first
  BY SteadyStep
<1>2. m \in live
  <2>1. CASE External
    BY <1>1, <2>1, NewIsLater
  <2>2. CASE ~External
    BY <2>2, MailboxStays DEF mailbox
  <2> QED  BY <2>1, <2>2
<1>3. m \in seen \union inHand \union stale \union page \/ ToList(m)
  BY <1>1, <1>2 DEF CoverInv
<1>4. ToList(m) => ToList(m)'
  BY DEF ToList
<1> QED  BY <1>1, <1>3, <1>4

(* Every step keeps what was there seen, excepted or still to be listed.   *)
LEMMA CoverStep ==
    ASSUME FullSyncInv, [Next]_vars
    PROVE  CoverInv'
<1> USE DEF FullSyncInv
<1>0. pc \notin Outside /\ phase # "update" => ~Paused
  BY DEF Paused, Outside
<1>1. CASE Starts
  <2>1. /\ UNCHANGED <<active, seen, page, pageToken, ppc>> /\ pc = "idle" /\ Paused' /\ ~Begin
    BY <1>1 DEF Starts, StartForced, StartFull, Starting, Paused, session, producer, Begin
  <2> QED  BY <2>1, CoverStill
<1>2. CASE Clear
  <2>1. ~active'
    BY <1>2 DEF Clear, ClearSession, RunInv
  <2> QED  BY <2>1 DEF CoverInv
<1>3. CASE Begin
  <2> SUFFICES ASSUME NEW m \in live', m <= first'
               PROVE  m \in seen' \union inHand' \union stale' \union page' \/ ToList(m)'
    BY DEF CoverInv
  <2>1. /\ seen' = seen /\ page = {} /\ page' = {} /\ live' = live /\ ppc' = "fetch"
        /\ ppc = "off" /\ pageToken' = pageToken
    BY <1>3, Beginning DEF mailbox
  <2>2. CASE active
    <3>1. inHand' = inHand /\ stale' = stale /\ first' = first
      BY <1>3, <2>2 DEF Begin
    <3>2. m \in seen \union inHand \union stale \union page \/ ToList(m)
      BY <2>1, <2>2, <3>1 DEF CoverInv
    <3>3. ToList(m) => ToList(m)'
      BY <2>1 DEF ToList
    <3> QED  BY <2>1, <3>1, <3>2, <3>3
  <2>3. CASE ~active
    <3>1. stale' = seen \union LeftOut
      BY <1>3, <2>3, NewSession
    <3>2. CASE pageToken = 0
      BY <2>1, <3>2 DEF ToList
    <3>3. CASE pageToken # 0 /\ m >= pageToken
      BY <2>1, <3>1, <3>3 DEF LeftOut
    <3>4. CASE pageToken # 0 /\ m < pageToken
      BY <2>1, <3>4 DEF ToList
    <3>5. m \in Nat /\ pageToken \in Nat
      BY <2>1, Numbers, PageTypes DEF MailboxInv, MailboxTypeOK, TypeInv
    <3> QED  BY <3>2, <3>3, <3>4, <3>5
  <2> QED  BY <2>2, <2>3
<1>4. CASE FetchPage
  <2> SUFFICES ASSUME active', NEW m \in live', m <= first'
               PROVE  m \in seen' \union inHand' \union stale' \union page' \/ ToList(m)'
    BY DEF CoverInv
  <2> PICK P \in SUBSET live : IsPage(P, token) /\ page' = P
    BY <1>4 DEF FetchPage
  <2>1. /\ UNCHANGED <<active, seen, live, inHand, stale, first, pc, phase>>
        /\ ppc = "fetch" /\ ppc' = "send"
        /\ token' = TokenAfter(P, token) /\ pageToken' = token'
    BY <1>4 DEF FetchPage, Listing, mailbox, ghost, main
  <2>2. pc \notin Outside /\ token = pageToken /\ page = {}
    BY <2>1 DEF RunInv
  <2>3. m \in seen \union inHand \union stale \/ ToList(m)
    BY <2>1, <2>2 DEF CoverInv
  <2>4. token = 0 \/ m < token =>
            m \in P \/ (TokenAfter(P, token) # 0 /\ m < TokenAfter(P, token))
    BY <2>1, NextToken DEF MailboxInv, TypeInv
  <2>5. ToList(m) => token = 0 \/ m < token
    BY <2>2 DEF ToList
  <2>6. pageToken' # 0 /\ m < pageToken' => ToList(m)'
    BY DEF ToList
  <2> QED  BY <2>1, <2>3, <2>4, <2>5, <2>6
<1>5. CASE MarkSeen
  <2> SUFFICES ASSUME active', NEW m \in live', m <= first'
               PROVE  m \in seen' \union inHand' \union stale' \union page' \/ ToList(m)'
    BY DEF CoverInv
  <2>1. /\ UNCHANGED <<active, live, inHand, stale, first, pc, phase, pageToken>>
        /\ ppc = "mark"
    BY <1>5 DEF MarkSeen, Listing, mailbox, ghost, main
  <2>2. page' = page \ Unmarked /\ seen' = seen \union Unmarked
    BY <1>5, OnceMark
  <2>3. m \in seen \union inHand \union stale \union page \/ ToList(m)
    BY <2>1 DEF CoverInv
  <2>4. pc \notin Outside /\ phase # "update"
    BY <2>1 DEF RunInv
  <2>5. ToList(m) => ToList(m)'
    BY <1>0, <2>1, <2>4 DEF ToList
  <2> QED  BY <2>1, <2>2, <2>3, <2>5
<1>6. CASE SendMsg \/ PageDone
  <2>1. /\ UNCHANGED <<active, seen, page, pageToken, pc, phase>> /\ ppc = "send" /\ ~Begin
    BY <1>6 DEF SendMsg, PageDone, Listing, main, session, Begin
  <2> QED  BY <2>1, CoverStill DEF Paused
<1>7. CASE \/ TakeMsg
           \/ \E w \in work : GetBody(w)
           \/ \E w \in work : GetMetadata(w)
           \/ \E w \in work : PutOp(w)
  <2>1. UNCHANGED <<active, seen, page, pageToken, pc, phase, ppc>> /\ ~Begin
    BY <1>7 DEF TakeMsg, GetBody, GetMetadata, PutOp, Working, main, session, producer, Begin
  <2> QED  BY <2>1, CoverStill DEF Paused
<1>8. CASE \/ Receive \/ Write \/ Written \/ BeginReconcile
           \/ \E m \in Msgs : Reconcile(m)
  <2>1. /\ UNCHANGED <<active, seen, page, pageToken, ppc>> /\ pc \notin Outside /\ ~Begin
        /\ phase = "update" => phase' = "update"
    BY <1>8 DEF Receive, Write, Written, BeginReconcile, Reconcile, session, producer, main,
       Begin, WriteOperation, WriteAdd, WriteLabels, SetMsgLabels, SetMsgKey, RemoveOld,
       WriteDel, DelMsgKey, DelMsgLabels, Outside
  <2>2. Paused => Paused'
    BY <1>0, <2>1 DEF Paused
  <2> QED  BY <2>1, <2>2, CoverStill
<1>9. CASE CommitIndex
  <2> SUFFICES ASSUME active', NEW m \in live', m <= first'
               PROVE  m \in seen' \union inHand' \union stale' \union page' \/ ToList(m)'
    BY DEF CoverInv
  <2>1. /\ UNCHANGED <<active, live, inHand, stale, first, pageToken, seen, page>>
        /\ phase = "reconcile"
    BY <1>9 DEF CommitIndex, mailbox, ghost
  <2>2. ppc = "done" /\ pc \notin Outside /\ pageToken = 0
    BY <2>1 DEF RunInv
  <2>3. m \in seen \union inHand \union stale \union page \/ ToList(m)
    BY <2>1 DEF CoverInv
  <2>4. ~ToList(m)
    BY <1>0, <2>1, <2>2 DEF ToList
  <2> QED  BY <2>1, <2>3, <2>4
<1>10. CASE Fail \/ Kill
  <2> SUFFICES ASSUME active', NEW m \in live', m <= first'
               PROVE  m \in seen' \union inHand' \union stale' \union page' \/ ToList(m)'
    BY DEF CoverInv
  <2>1. /\ UNCHANGED <<active, live, stale, first, pageToken, seen>>
        /\ inHand' = inHand \union Unfinished /\ page \subseteq Unfinished /\ pc' = "idle"
    BY <1>10, Ended DEF EndRun, mailbox, session, Unfinished
  <2>2. m \in seen \union inHand \union stale \union page \/ ToList(m)
    BY <2>1 DEF CoverInv
  <2>3. ToList(m) => ToList(m)'
    BY <2>1 DEF ToList, Paused
  <2> QED  BY <2>1, <2>2, <2>3
<1>11. CASE External \/ UNCHANGED vars
  <2>1. UNCHANGED <<active, seen, page, pageToken, pc, phase, ppc>>
    BY <1>11 DEF External, vars, main, session, producer
  <2>2. ~Begin
    BY <2>1 DEF Begin
  <2> QED  BY <2>1, <2>2, CoverStill DEF Paused
<1>12. CASE Crossing
  <2>1. UNCHANGED <<active, seen, page, pageToken, ppc>> /\ ~Begin /\ Paused'
    BY <1>12, CrossingFacts DEF producer
  <2> QED  BY <2>1, CoverStill
<1> QED
  BY <1>1, <1>2, <1>3, <1>4, <1>5, <1>6, <1>7, <1>8, <1>9, <1>10, <1>11, <1>12, Steps

-----------------------------------------------------------------------------
(* What is on its way, step by step                                        *)

(* What the workers do moves messages along only.                          *)
LEMMA WorkFlight ==
    ASSUME FullSyncInv,
           \/ TakeMsg
           \/ \E w \in work : GetBody(w)
           \/ \E w \in work : GetMetadata(w)
           \/ \E w \in work : PutOp(w)
    PROVE  OnceInv' /\ Flight' = Flight /\ UNCHANGED <<page, seen>>
<1> USE DEF FullSyncInv
<1>0. UNCHANGED <<page, seen>>
  BY DEF TakeMsg, GetBody, GetMetadata, PutOp, Working, producer, session
<1>1. CASE TakeMsg
  BY <1>0, <1>1, OnceTake
<1>2. CASE \E w \in work : GetBody(w)
  <2> PICK w \in work : GetBody(w)
    BY <1>2
  <2>1. \E p : Becomes(w, p, w.o)
    BY DEF GetBody
  <2>2. UNCHANGED <<pc, phase, cur, token, page, ppc, newMsgs, ops>>
    BY DEF GetBody, Working, main, producer, writer
  <2> QED  BY <1>0, <2>1, <2>2, OnceGet
<1>3. CASE \E w \in work : GetMetadata(w)
  <2> PICK w \in work : GetMetadata(w)
    BY <1>3
  <2>1. w.o \in PipeOps
    BY FlightTypes
  <2> PICK e : e = [w.o EXCEPT !.op = "error"]
    OBVIOUS
  <2> PICK o : o = [op |-> Kind(w.o.msg, lab[w.o.msg], keyOf[w.o.msg]), msg |-> w.o.msg,
                    labels |-> lab[w.o.msg], hid |-> MetaId(w.o.msg)]
    OBVIOUS
  <2>2. e.msg = w.o.msg /\ o.msg = w.o.msg
    BY <2>1 DEF PipeOps
  <2>3. Becomes(w, "put", e) \/ Becomes(w, "put", o)
    BY DEF GetMetadata
  <2>4. UNCHANGED <<pc, phase, cur, token, page, ppc, newMsgs, ops>>
    BY DEF GetMetadata, Working, main, producer, writer
  <2> QED  BY <1>0, <2>2, <2>3, <2>4, OnceGet
<1>4. CASE \E w \in work : PutOp(w)
  <2> PICK w \in work : PutOp(w)
    BY <1>4
  <2>1. w.o \in PipeOps
    BY FlightTypes
  <2> PICK e : e = [w.o EXCEPT !.op = "error"]
    OBVIOUS
  <2>2. e.msg = w.o.msg /\ e \in PipeOps
    BY <2>1, PipeOpTypes DEF PipeOps, MailboxInv
  <2>3. work' = work \ {w} /\ (ops' = Append(ops, e) \/ ops' = Append(ops, w.o))
    BY DEF PutOp
  <2>4. UNCHANGED <<pc, phase, cur, token, page, ppc, newMsgs>>
    BY DEF PutOp, Working, main, producer, writer
  <2> QED  BY <1>0, <2>1, <2>2, <2>3, <2>4, OncePut
<1> QED  BY <1>1, <1>2, <1>3, <1>4

(* Outside a page that is fetched nothing new comes on its way, and what   *)
(* is marked was on the page.                                              *)
LEMMA OnceStep ==
    ASSUME FullSyncInv, [Next]_vars
    PROVE  /\ OnceInv'
           /\ ~Begin /\ ~FetchPage =>
                  page' \union Flight' \union seen' \subseteq page \union Flight \union seen
<1> USE DEF FullSyncInv
<1>1. CASE Starts \/ Clear \/ CommitIndex \/ BeginReconcile
  <2>1. pc' \in Outside \/ phase' = "reconcile"
    BY <1>1 DEF Starts, StartForced, StartFull, Starting, Clear, ClearSession, CommitIndex,
       BeginReconcile, Outside
  <2>2. seen' \subseteq seen
    BY <1>1 DEF Starts, StartForced, StartFull, Starting, Clear, ClearSession, CommitIndex,
       BeginReconcile, session
  <2> QED  BY <2>1, <2>2, NothingThere
<1>2. CASE Fail \/ Kill
  <2>1. pc' \in Outside /\ seen' = seen
    BY <1>2, Ended DEF EndRun, Outside, session
  <2> QED  BY <2>1, NothingThere
<1>3. CASE \E m \in Msgs : Reconcile(m)
  <2>1. phase' = "reconcile" /\ seen' = seen
    BY <1>3 DEF Reconcile, session
  <2> QED  BY <2>1, NothingThere
<1>4. CASE Begin
  BY <1>4, Beginning
<1>5. CASE FetchPage
  BY <1>5, OnceFetch
<1>6. CASE SendMsg
  BY <1>6, OnceSend DEF SendMsg, session
<1>7. CASE MarkSeen \/ PageDone
  <2>1. Unmarked \subseteq page
    <3>1. ppc = "mark" => Newest(page) \in page
      BY PageTypes DEF RunInv, MailboxInv
    <3> QED  BY <3>1 DEF Unmarked
  <2> QED  BY <1>7, <2>1, OnceMark
<1>8. CASE \/ TakeMsg
           \/ \E w \in work : GetBody(w)
           \/ \E w \in work : GetMetadata(w)
           \/ \E w \in work : PutOp(w)
  BY <1>8, WorkFlight
<1>9. CASE Receive
  BY <1>9, OnceReceive DEF Receive, session
<1>10. CASE Write
  <2>1. /\ UNCHANGED <<producer, pipe, main, phase, cur, seen, page>>
        /\ pc \in Writing
    BY <1>10, WriteFacts DEF main, session, producer
  <2>2. Being' \in {Being, {}}
    BY <2>1 DEF Being
  <2> QED  BY <2>1, <2>2, OnceWrite
<1>11. CASE Written
  <2>1. UNCHANGED <<producer, pipe, main, seen, page>> /\ pc' \notin Writing
    BY <1>11 DEF Written, producer, Writing
  <2>2. Being' \in {Being, {}}
    BY <2>1 DEF Being
  <2> QED  BY <2>1, <2>2, OnceWrite
<1>12. CASE External \/ UNCHANGED vars
  <2>1. UNCHANGED <<producer, pipe, main, seen, page, pc, phase, cur>>
    BY <1>12 DEF External, vars, producer, main, session, writer
  <2>2. Being' \in {Being, {}}
    BY <2>1 DEF Being
  <2> QED  BY <2>1, <2>2, OnceWrite
<1>13. CASE Crossing
  <2>1. (pc' \in Outside \/ phase' = "update") /\ seen' = seen
    BY <1>13, CrossingFacts DEF Outside
  <2> QED  BY <2>1, NothingThere
<1> QED
  BY <1>1, <1>2, <1>3, <1>4, <1>5, <1>6, <1>7, <1>8, <1>9, <1>10, <1>11, <1>12, <1>13, Steps

(* A session is opened only by the run that begins it.                     *)
LEMMA SessionStep ==
    ASSUME FullSyncInv, [Next]_vars, ~Begin
    PROVE  active' => active
<1>1. CASE Starts \/ Clear \/ FetchPage \/ SendMsg \/ MarkSeen \/ PageDone
  BY <1>1 DEF Starts, StartForced, StartFull, Starting, Clear, ClearSession, FetchPage,
     SendMsg, MarkSeen, PageDone, session
<1>2. CASE \/ TakeMsg
           \/ \E w \in work : GetBody(w)
           \/ \E w \in work : GetMetadata(w)
           \/ \E w \in work : PutOp(w)
  BY <1>2 DEF TakeMsg, GetBody, GetMetadata, PutOp, Working, session
<1>3. CASE \/ Receive \/ Write \/ Written \/ BeginReconcile \/ CommitIndex
           \/ \E m \in Msgs : Reconcile(m)
  BY <1>3 DEF Receive, Write, Written, BeginReconcile, CommitIndex, Reconcile, session
<1>4. CASE Fail \/ Kill \/ External \/ UNCHANGED vars
  BY <1>4, Ended DEF EndRun, External, vars, session
<1>5. CASE Crossing
  BY <1>5, CrossingFacts
<1> QED  BY <1>1, <1>2, <1>3, <1>4, <1>5, Steps

(* A message that was met is still there unless it was changed, and one    *)
(* that was not changed was there when the session was begun.              *)
LEMMA LiveStep ==
    ASSUME FullSyncInv, [Next]_vars
    PROVE  LiveInv'
<1> USE DEF FullSyncInv
<1>0. live \subseteq Msgs /\ page \subseteq Msgs /\ seen \subseteq Msgs /\ Flight \subseteq Msgs
  BY FlightTypes DEF TypeInv, MailboxInv, MailboxTypeOK
<1>1. CASE Begin /\ ~active
  <2>1. page' = {} /\ Flight' = {} /\ seen' = seen
    BY <1>1, Beginning
  <2>2. /\ \A m \in seen : ~Steady(m)'
        /\ \A m \in live' : m <= first'
    BY <1>0, <1>1, NewSession DEF Begin, mailbox
  <2> QED  BY <2>1, <2>2 DEF LiveInv
<1>2. CASE ~(Begin /\ ~active) /\ active'
  <2>1. active
    BY <1>2, SessionStep
  <2>2. page' \union Flight' \union seen' \subseteq live \union page \union Flight \union seen
    <3>1. CASE Begin
      BY <3>1, Beginning
    <3>2. CASE FetchPage
      BY <3>2, OnceFetch DEF FetchPage
    <3> QED  BY <3>1, <3>2, OnceStep
  <2>3. ASSUME NEW m \in page' \union Flight' \union seen', Steady(m)' PROVE m \in live'
    <3>1. m \in Msgs /\ m \in live \union page \union Flight \union seen
      BY <1>0, <2>2
    <3>2. Steady(m) /\ (m \in live' <=> m \in live)
      BY <1>2, <2>3, <3>1, SteadyStep
    <3> QED  BY <2>1, <3>1, <3>2 DEF LiveInv
  <2>4. ASSUME NEW m \in live', Untouched(m)' PROVE m <= first'
    <3>1. m \in Msgs
      <4>1. TypeInv' /\ MailboxInv'
        BY TypeStep, MailboxStays
      <4> QED  BY <4>1 DEF MailboxInv, MailboxTypeOK
    <3>2. m \in live /\ Untouched(m) /\ first' = first
      BY <1>2, <2>4, <3>1, SteadyStep
    <3> QED  BY <2>1, <3>2 DEF LiveInv
  <2> QED  BY <2>3, <2>4 DEF LiveInv
<1> QED  BY <1>1, <1>2 DEF LiveInv

-----------------------------------------------------------------------------
(* What is seen is mirrored                                                *)

(* A mirror stays exact for a message that neither changes nor is written. *)
LEMMA MirroredKept ==
    ASSUME NEW m, Mirrored(m), FilesOf(m)' = FilesOf(m),
           m \in live' <=> m \in live, lab'[m] = lab[m]
    PROVE  Mirrored(m)'
BY DEF Mirrored, FilesOf

(* Within a session: what leaves the pipeline is mirrored, and what is     *)
(* mirrored stays so.                                                      *)
LEMMA DoneKept ==
    ASSUME FullSyncInv, [Next]_vars, ~(Begin /\ ~active),
           seen' \union Unmarked' \subseteq seen \union Unmarked \union Flight',
           \A m \in Unsent \union Flight :
               Steady(m)' => m \in Unsent' \union Flight' \/ Mirrored(m)',
           \A m \in seen \union Unmarked :
               Steady(m)' => FilesOf(m)' = FilesOf(m) \/ m \in Flight' \/ Mirrored(m)'
    PROVE  DoneInv'
<1> USE DEF FullSyncInv
<1> SUFFICES ASSUME active', NEW m \in seen' \union Unmarked', Steady(m)'
             PROVE  m \in Unsent' \union Flight' \/ Mirrored(m)'
  BY DEF DoneInv
<1>1. active
  BY SessionStep
<1>2. CASE m \in Flight'
  BY <1>2
<1>3. CASE m \in seen \union Unmarked
  <2>1. m \in Msgs
    <3>1. Unmarked \subseteq page
      BY PageTypes DEF Unmarked, RunInv, MailboxInv
    <3> QED  BY <1>3, <3>1 DEF TypeInv
  <2>2. Steady(m) /\ (m \in live' <=> m \in live) /\ lab'[m] = lab[m]
    BY <2>1, SteadyStep
  <2>3. m \in Unsent \union Flight \/ Mirrored(m)
    BY <1>1, <1>3, <2>2 DEF DoneInv
  <2>4. FilesOf(m)' = FilesOf(m) /\ Mirrored(m) => Mirrored(m)'
    BY <2>2, MirroredKept
  <2> QED  BY <1>3, <2>3, <2>4
<1> QED  BY <1>2, <1>3

(* The same for a step that leaves the maildir alone.                      *)
LEMMA DoneStill ==
    ASSUME FullSyncInv, [Next]_vars, ~(Begin /\ ~active), files' = files,
           seen' \union Unmarked' \subseteq seen \union Unmarked \union Flight',
           \A m \in Unsent \union Flight :
               Steady(m)' => m \in Unsent' \union Flight' \/ Mirrored(m)'
    PROVE  DoneInv'
<1>1. \A m : FilesOf(m)' = FilesOf(m)
  BY DEF FilesOf
<1> QED  BY <1>1, DoneKept

(* A steady message whose operation is "none" is mirrored already.         *)
LEMMA NoneMirrored ==
    ASSUME FullSyncInv, NEW o, OpTrue(o), o.msg \in MsgsIn(ops), Steady(o.msg), o.op = "none"
    PROVE  Mirrored(o.msg)
<1> USE DEF FullSyncInv
<1> PICK m : m = o.msg
  OBVIOUS
<1>1. keyOf[m] # {} /\ labOf[m] = {lab[m]}
  BY DEF OpTrue
<1>2. m \in Msgs /\ m \in Flight
  BY FlightTypes DEF Flight
<1>3. One(m)
  BY <1>2, OneInFlight DEF Steady
<1>4. active
  <2>1. ~EmptyPipe
    BY DEF EmptyPipe, MsgsIn
  <2> QED  BY <2>1 DEF RunInv
<1>5. m \in live
  BY <1>2, <1>4 DEF LiveInv
<1>6. \E f \in files : FilesOf(m) = {f} /\ {lab[m]} = {f.labels}
  BY <1>1, <1>3 DEF One
<1>7. \E f \in files : FilesOf(m) = {f} /\ f.labels = lab[m]
  BY <1>6
<1> QED  BY <1>5, <1>7 DEF Mirrored

(* What is in hand when a run ends is excepted.                            *)
LEMMA CutOff ==
    ASSUME FullSyncInv
    PROVE  page \union Flight \subseteq Unfinished
<1> USE DEF FullSyncInv
<1>1. pc \in Writing /\ phase = "ops" => cur.op # "delete"
  BY DEF CurInv, Writing
<1>2. Being \subseteq Unfinished
  BY <1>1 DEF Being, Unfinished
<1>3. MsgsIn(ops) \subseteq Unfinished
  BY DEF MsgsIn, Unfinished, Elements
<1>4. InWork \subseteq Unfinished /\ Elements(newMsgs) \subseteq Unfinished
  BY DEF InWork, Unfinished
<1>5. page \subseteq Unfinished
  BY DEF Unfinished
<1> QED  BY <1>2, <1>3, <1>4, <1>5 DEF Flight

(* A write of the first phase leaves its message mirrored.                 *)
LEMMA DoneWrite ==
    ASSUME FullSyncInv, [Next]_vars, Write
    PROVE  DoneInv'
<1> USE DEF FullSyncInv
<1> PICK m : m = cur.msg
  OBVIOUS
<1>1. /\ WriteFrame /\ WriteResult /\ pc \in Writing
      /\ phase \in {"ops", "reconcile", "update"} /\ (phase # "update" => active)
      /\ UNCHANGED <<producer, pipe, main, phase, cur, seen, active, crossed>> /\ ~Begin
      /\ pc' \in Writing \union {"written", "failed"} /\ UNCHANGED <<mailbox, lab, live, cut>>
  BY WriteFacts DEF main, session, Begin, Writing, mailbox, ghost
<1>2. m \in Msgs
  BY <1>1 DEF WriteFrame
<1>3. Being' \in {Being, {}}
  BY <1>1 DEF Being
<1>4. /\ UNCHANGED <<Unsent, Unmarked>> /\ Flight \subseteq Flight' \union Being
      /\ Being' = Being => Flight' = Flight
  BY <1>1, <1>3, OnceWrite
<1>5. \A x \in Msgs : x # m /\ Steady(x)' => FilesOf(x)' = FilesOf(x)
  BY <1>1 DEF WriteResult, Steady
<1>6. seen \union Unmarked \subseteq Msgs
  BY PageTypes DEF Unmarked, RunInv, MailboxInv, TypeInv
<1>7. CASE phase = "reconcile"
  <2>1. Unsent = {} /\ Flight = {} /\ Unmarked = {} /\ m \notin seen
    BY <1>1, <1>7, NothingOnWay DEF CurInv
  <2> QED  BY <1>1, <1>4, <1>5, <1>6, <2>1, DoneKept
<1>8. CASE phase = "ops"
  <2>1. Being = {m}
    BY <1>1, <1>8 DEF Being
  <2>2. Steady(m)' => m \in Flight' \/ Mirrored(m)'
    <3>1. CASE pc' \in Writing
      <4>1. Being' = Being
        BY <1>1, <1>8, <3>1 DEF Being
      <4> QED  BY <1>4, <2>1, <4>1 DEF Flight
    <3>2. CASE pc' = "failed"
      BY <1>1, <3>2 DEF WriteResult, Steady
    <3>3. CASE pc' = "written"
      <4> SUFFICES ASSUME Steady(m)' PROVE Mirrored(m)'
        OBVIOUS
      <4>1. Steady(m) /\ m \notin cut
        BY <1>1, <1>2, SteadyStep DEF Steady
      <4>2. cur.labels = lab[m]
        BY <1>1, <1>8, <4>1 DEF OpsInv
      <4>3. m \in live
        BY <1>1, <1>8, <2>1, <4>1 DEF LiveInv, Flight
      <4>4. \E f \in files' : FilesOf(m)' = {f} /\ f.labels = lab[m]
        <5>1. cur.op # "delete" /\ ~Dropped
          BY <1>1, <1>8 DEF CurInv, Writing, OpsInv, OpTrue, Dropped
        <5> QED  BY <1>1, <3>3, <4>1, <4>2, <5>1 DEF WriteResult
      <4> QED  BY <1>1, <4>3, <4>4 DEF Mirrored, FilesOf
    <3> QED  BY <1>1, <3>1, <3>2, <3>3
  <2> QED  BY <1>1, <1>4, <1>5, <1>6, <2>1, <2>2, DoneKept
<1>9. CASE phase = "update"
  <2>1. Unsent = {} /\ Flight = {} /\ Unmarked = {}
    BY <1>9, NothingOnWay
  <2>2. active => m \in crossed
    BY <1>1, <1>9 DEF CurInv, Taken
  <2>3. CASE ~active
    BY <1>1, <2>3 DEF DoneInv
  <2>4. CASE active
    <3>1. ~Steady(m)'
      BY <1>1, <2>2, <2>4 DEF Steady
    <3> QED  BY <1>1, <1>4, <1>5, <1>6, <2>1, <3>1, DoneKept
  <2> QED  BY <1>1, <2>3, <2>4
<1> QED  BY <1>1, <1>7, <1>8, <1>9

(* What is seen stays on its way until it is mirrored.                     *)
LEMMA DoneStep ==
    ASSUME FullSyncInv, [Next]_vars
    PROVE  DoneInv'
<1> USE DEF FullSyncInv
<1>1. CASE Starts \/ Clear \/ CommitIndex \/ BeginReconcile
  <2>1. pc' \in Outside \/ phase' = "reconcile"
    BY <1>1 DEF Starts, StartForced, StartFull, Starting, Clear, ClearSession, CommitIndex,
       BeginReconcile, Outside
  <2>2. seen' \subseteq seen /\ files' = files /\ ~Begin
    BY <1>1 DEF Starts, StartForced, StartFull, Starting, Clear, ClearSession, CommitIndex,
       BeginReconcile, session, store, Begin
  <2>3. Unsent = {} /\ Flight = {}
    <3>1. CASE BeginReconcile
      <4>1. pc = "loop" /\ ppc = "done" /\ newMsgs = <<>> /\ work = {} /\ ops = <<>>
        BY <3>1 DEF BeginReconcile, OpsClosed
      <4>2. page = {} /\ Being = {}
        BY <4>1 DEF RunInv, Being, Writing
      <4> QED
        BY <4>1, <4>2 DEF Flight, Unsent, Elements, InWork, MsgsIn
    <3>2. CASE Starts \/ Clear \/ CommitIndex
      <4>1. pc \in Outside \/ phase = "reconcile"
        BY <3>2 DEF Starts, StartForced, StartFull, Starting, Clear, ClearSession, CommitIndex,
           Outside
      <4> QED  BY <4>1, NothingOnWay
    <3> QED  BY <1>1, <3>1, <3>2
  <2>4. Unmarked' = {}
    BY <2>1, NothingThere
  <2> QED  BY <2>2, <2>3, <2>4, DoneStill
<1>2. CASE Fail \/ Kill
  <2>1. /\ pc' \in Outside /\ seen' = seen /\ files' = files /\ ~Begin
        /\ inHand' = inHand \union Unfinished
    BY <1>2, Ended DEF EndRun, Outside, session, store, Begin
  <2>2. Unmarked' = {}
    BY <2>1, NothingThere
  <2>3. Unsent \union Flight \subseteq inHand'
    BY <2>1, CutOff DEF Unsent
  <2>4. \A m \in Unsent \union Flight : ~Steady(m)'
    BY <2>3 DEF Steady
  <2> QED  BY <2>1, <2>2, <2>4, DoneStill
<1>3. CASE \E m \in Msgs : Reconcile(m)
  <2>1. phase' = "reconcile" /\ phase = "reconcile" /\ seen' = seen /\ files' = files /\ ~Begin
    BY <1>3 DEF Reconcile, session, store, Begin
  <2> QED  BY <2>1, NothingThere, NothingOnWay, DoneStill
<1>4. CASE Begin /\ active
  <2>1. /\ Unsent = {} /\ Flight = {} /\ Unmarked' = {} /\ seen' = seen /\ files' = files
    BY <1>4, Beginning DEF store
  <2> QED  BY <1>4, <2>1, DoneStill
<1>5. CASE Begin /\ ~active
  <2>1. Unmarked' = {} /\ seen' = seen
    BY <1>5, Beginning
  <2>2. \A m \in seen : ~Steady(m)'
    BY <1>5, NewSession DEF TypeInv
  <2> QED  BY <2>1, <2>2 DEF DoneInv
<1>6. CASE FetchPage
  <2>1. seen' = seen /\ files' = files /\ ~Begin
    BY <1>6 DEF FetchPage, Listing, store, Begin
  <2>2. Unsent = {}
    BY <1>6, OnceFetch DEF Unsent
  <2> QED  BY <1>6, <2>1, <2>2, OnceFetch, DoneStill
<1>7. CASE SendMsg
  <2>1. seen' = seen /\ files' = files /\ ~Begin
    BY <1>7 DEF SendMsg, Listing, store, session, Begin
  <2> QED  BY <1>7, <2>1, OnceSend, DoneStill
<1>8. CASE MarkSeen \/ PageDone
  <2>1. files' = files /\ ~Begin
    BY <1>8 DEF MarkSeen, PageDone, Listing, store, Begin
  <2> QED  BY <1>8, <2>1, OnceMark, DoneStill
<1>9. CASE \/ TakeMsg
           \/ \E w \in work : GetBody(w)
           \/ \E w \in work : GetMetadata(w)
           \/ \E w \in work : PutOp(w)
  <2>1. seen' = seen /\ files' = files /\ ~Begin /\ UNCHANGED <<page, ppc>>
    BY <1>9 DEF TakeMsg, GetBody, GetMetadata, PutOp, Working, store, session, producer, Begin
  <2>2. Unsent' = Unsent /\ Unmarked' = Unmarked
    BY <2>1 DEF Unsent, Unmarked
  <2>3. Flight' = Flight
    BY <1>9, WorkFlight
  <2> QED  BY <2>1, <2>2, <2>3, DoneStill
<1>10. CASE Receive
  <2> PICK o : o = Head(ops)
    OBVIOUS
  <2>1. seen' = seen /\ files' = files /\ ~Begin /\ UNCHANGED <<mailbox, live, lab>>
    BY <1>10 DEF Receive, store, session, Begin, mailbox
  <2>2. /\ Flight \subseteq Flight' \union {o.msg} /\ (pc' = "write" => Flight' = Flight)
        /\ ops \in Seq(PipeOps) /\ ops # <<>> /\ UNCHANGED <<Unsent, Unmarked>>
    BY <1>10, OnceReceive
  <2>3. pc' = "write" \/ o.op \in {"error", "none"}
    BY <1>10 DEF Receive
  <2>4. OpTrue(o) /\ o.msg \in MsgsIn(ops) /\ o.msg \in Msgs
    <3>1. 1 \in DOMAIN ops /\ o = ops[1]
      BY <2>2, TailOf
    <3> QED  BY <3>1, FlightTypes DEF OpsInv, MsgsIn
  <2>5. CASE pc' = "write"
    BY <2>1, <2>2, <2>5, DoneStill
  <2>6. CASE o.op \in {"error", "none"}
    <3>1. Steady(o.msg)' => Steady(o.msg)
      BY <2>1, <2>4, SteadyStep
    <3>2. Steady(o.msg)' => Mirrored(o.msg)
      BY <2>4, <2>6, <3>1, NoneMirrored DEF OpTrue
    <3>3. Mirrored(o.msg) => Mirrored(o.msg)'
      BY <2>1 DEF Mirrored, FilesOf
    <3>4. ASSUME NEW x \in Unsent \union Flight, Steady(x)'
          PROVE  x \in Unsent' \union Flight' \/ Mirrored(x)'
      <4> PICK y : y = o.msg
        OBVIOUS
      <4>1. Steady(y)' => Mirrored(y)
        BY <3>2 DEF Steady
      <4>2. Mirrored(y) => Mirrored(y)'
        BY <2>1 DEF Mirrored, FilesOf
      <4> QED  BY <2>2, <3>4, <4>1, <4>2
    <3> QED  BY <2>1, <2>2, <3>4, DoneStill
  <2> QED  BY <2>3, <2>5, <2>6
<1>11. CASE Written
  <2>1. /\ UNCHANGED <<producer, pipe, main, seen, page>> /\ pc' = "loop" /\ pc = "written"
        /\ files' = files /\ ~Begin
    BY <1>11 DEF Written, producer, store, Begin
  <2>2. Being' = {} /\ Being = {}
    BY <2>1 DEF Being, Writing
  <2> QED  BY <2>1, <2>2, OnceWrite, DoneStill
<1>12. CASE External \/ UNCHANGED vars
  <2>1. /\ UNCHANGED <<producer, pipe, main, seen, page, pc, phase, cur>> /\ files' = files
        /\ (Begin => active)
    BY <1>12 DEF External, vars, producer, main, session, writer, store, Begin
  <2>2. Being' = Being
    BY <2>1 DEF Being
  <2> QED  BY <2>1, <2>2, OnceWrite, DoneStill
<1>13. CASE Crossing
  <2>1. /\ pc' \in Outside \/ phase' = "update"
        /\ pc \in Outside \/ phase = "update"
        /\ seen' = seen /\ files' = files /\ ~Begin
    BY <1>13, CrossingFacts DEF Outside, store, Crossing, IncrementalRun, StartIncremental,
       TakeRecord, EndIncremental
  <2> QED  BY <2>1, NothingThere, NothingOnWay, DoneStill
<1> QED
  BY <1>1, <1>2, <1>3, <1>4, <1>5, <1>6, <1>7, <1>8, <1>9, <1>10, <1>11, <1>12, <1>13, Steps,
     DoneWrite

-----------------------------------------------------------------------------
(* What is gone is reconciled                                              *)

(* While neither the main goroutine nor the cache moves.                   *)
LEMMA GoneStill ==
    ASSUME FullSyncInv, [Next]_vars, ~Begin, UNCHANGED <<pc, phase, todo, cur, keyOf>>
    PROVE  GoneInv'
<1> USE DEF FullSyncInv
<1> SUFFICES ASSUME phase = "reconcile" \/ Complete, NEW m \in Msgs \ live', Steady(m)'
             PROVE  \/ phase = "reconcile" /\ m \in todo
                    \/ pc \in {"write", "delkey"} /\ m = cur.msg
                    \/ keyOf[m] = {}
  BY DEF GoneInv, Complete
<1>1. Steady(m) /\ m \notin live
  BY SteadyStep
<1> QED  BY <1>1 DEF GoneInv

(* A deletion takes the key of the message.                                *)
LEMMA GoneWrite ==
    ASSUME FullSyncInv, [Next]_vars, Write
    PROVE  GoneInv'
<1> USE DEF FullSyncInv
<1> PICK c : c = cur.msg
  OBVIOUS
<1>1. /\ WriteFrame /\ WriteResult /\ pc \in Writing /\ pc' \notin Outside
      /\ UNCHANGED <<phase, cur, todo, live>> /\ ~Begin
      /\ \/ pc = "write" /\ pc' \in {"setlabels", "written", "failed", "delkey"}
         \/ pc = "setlabels" /\ pc' = "setkey"
         \/ pc = "setkey" /\ pc' \in {"remove", "written"}
         \/ pc = "remove" /\ pc' \in {"written", "failed"}
         \/ pc = "delkey" /\ pc' = "dellabels"
         \/ pc = "dellabels" /\ pc' = "written"
  BY WriteFacts DEF main, Begin, Outside, mailbox
<1> SUFFICES ASSUME phase = "reconcile", NEW m \in Msgs \ live, Steady(m)'
             PROVE  \/ m \in todo
                    \/ pc' \in {"write", "delkey"} /\ m = c
                    \/ keyOf'[m] = {}
  BY <1>1 DEF GoneInv, Complete, Outside
<1>2. Steady(m)
  BY <1>1, SteadyStep
<1>3. m \in todo \/ (pc \in {"write", "delkey"} /\ m = c) \/ keyOf[m] = {}
  BY <1>2 DEF GoneInv
<1>4. CASE m # c
  <2>1. keyOf'[m] = keyOf[m]
    BY <1>1, <1>4 DEF WriteResult
  <2> QED  BY <1>3, <1>4, <2>1
<1>5. CASE m = c
  <2>1. m \notin cut
    BY <1>2 DEF Steady
  <2>2. CASE pc = "write"
    <3>1. cur.op = "delete"
      BY <2>2 DEF CurInv
    <3>2. WriteDel
      BY <2>2, <3>1 DEF Write, WriteOperation, WriteAdd, WriteLabels, SetMsgLabels, SetMsgKey,
         RemoveOld, DelMsgKey, DelMsgLabels
    <3>3. \/ keyOf[m] = {} /\ keyOf' = keyOf
          \/ pc' \in {"failed", "delkey"}
      BY <1>5, <3>2 DEF WriteDel, Remove, Goto
    <3>4. pc' # "failed"
      BY <1>1, <1>5, <2>1 DEF WriteResult
    <3> QED  BY <1>5, <3>3, <3>4
  <2>3. CASE pc = "delkey"
    <3>1. StoreInv' /\ pc' = "dellabels" /\ cur'.msg = c
      BY <1>1, <2>3 DEF WriteResult
    <3> QED  BY <1>5, <3>1 DEF StoreInv
  <2>4. CASE pc = "dellabels"
    <3>1. DelMsgLabels
      BY <2>4 DEF Write, WriteOperation, WriteAdd, WriteLabels, SetMsgLabels, SetMsgKey,
         RemoveOld, DelMsgKey, WriteDel
    <3>2. keyOf' = keyOf /\ keyOf[c] = {}
      BY <2>4, <3>1 DEF DelMsgLabels, StoreInv
    <3> QED  BY <1>5, <3>2
  <2> QED  BY <1>1, <2>2, <2>3, <2>4 DEF CurInv
<1> QED  BY <1>4, <1>5

(* What is cached and gone stays to be reconciled until its key is taken.  *)
LEMMA GoneStep ==
    ASSUME FullSyncInv, [Next]_vars
    PROVE  GoneInv'
<1> USE DEF FullSyncInv
<1>1. CASE Starts \/ Clear \/ Begin \/ Receive \/ Fail \/ Kill
  <2>1. phase' # "reconcile" /\ ~Complete'
    <3>1. CASE Starts
      BY <3>1 DEF Starts, StartForced, StartFull, Starting, Complete, RunInv, Outside
    <3>2. CASE Clear
      <4>1. phase # "reconcile"
        BY <3>2 DEF RunInv, Clear, ClearSession, Outside
      <4> QED  BY <3>2, <4>1 DEF Clear, ClearSession, Complete
    <3>3. CASE Begin \/ Receive
      BY <3>3 DEF Begin, Receive, Complete
    <3>4. CASE Fail \/ Kill
      BY <3>4, Ended DEF EndRun, Complete
    <3> QED  BY <1>1, <3>1, <3>2, <3>3, <3>4
  <2> QED  BY <2>1 DEF GoneInv
<1>2. CASE FetchPage \/ SendMsg \/ MarkSeen \/ PageDone
  <2>1. UNCHANGED <<pc, phase, todo, cur, keyOf>> /\ ~Begin
    BY <1>2 DEF FetchPage, SendMsg, MarkSeen, PageDone, Listing, writer, main, store, Begin
  <2> QED  BY <2>1, GoneStill
<1>3. CASE \/ TakeMsg
           \/ \E w \in work : GetBody(w)
           \/ \E w \in work : GetMetadata(w)
           \/ \E w \in work : PutOp(w)
  <2>1. UNCHANGED <<pc, phase, todo, cur, keyOf>> /\ ~Begin
    BY <1>3 DEF TakeMsg, GetBody, GetMetadata, PutOp, Working, writer, main, store, Begin, producer
  <2> QED  BY <2>1, GoneStill
<1>4. CASE BeginReconcile
  BY <1>4 DEF BeginReconcile, GoneInv, store
<1>5. CASE \E m \in Msgs : Reconcile(m)
  <2> PICK x \in Msgs : Reconcile(x)
    BY <1>5
  <2>1. /\ pc = "loop" /\ phase = "reconcile" /\ todo' = todo \ {x} /\ ~Begin
        /\ UNCHANGED <<keyOf, live>> /\ phase' = "reconcile"
        /\ x \in seen \/ (pc' = "write" /\ cur'.msg = x)
    BY DEF Reconcile, store, mailbox, Begin, NoOp
  <2> SUFFICES ASSUME NEW m \in Msgs \ live, Steady(m)'
               PROVE  m \in todo' \/ (pc' = "write" /\ m = cur'.msg) \/ keyOf[m] = {}
    BY <2>1 DEF GoneInv
  <2>2. Steady(m) /\ active
    <3>1. pc \notin Outside
      BY <2>1 DEF Outside
    <3> QED  BY <2>1, <3>1, SteadyStep DEF RunInv
  <2>3. m \notin seen
    BY <2>2 DEF LiveInv
  <2>4. m \in todo \/ keyOf[m] = {}
    BY <2>1, <2>2 DEF GoneInv
  <2> QED  BY <2>1, <2>3, <2>4
<1>6. CASE CommitIndex
  <2>1. /\ pc = "loop" /\ phase = "reconcile" /\ todo = {} /\ ~Begin
        /\ UNCHANGED <<keyOf, live>>
    BY <1>6 DEF CommitIndex, store, mailbox, Begin
  <2>2. ASSUME NEW m \in Msgs \ live, Steady(m)' PROVE keyOf[m] = {}
    <3>1. Steady(m)
      BY <2>1, <2>2, SteadyStep
    <3> QED  BY <2>1, <2>2, <3>1 DEF GoneInv
  <2> QED  BY <2>1, <2>2 DEF GoneInv
<1>7. CASE Written
  <2>1. /\ pc = "written" /\ pc' = "loop" /\ ~Begin
        /\ UNCHANGED <<keyOf, live, phase, todo>>
    BY <1>7 DEF Written, store, mailbox, main, Begin
  <2>2. ASSUME NEW m \in Msgs \ live, Steady(m)', phase = "reconcile"
        PROVE  m \in todo \/ keyOf[m] = {}
    <3>1. Steady(m)
      BY <2>1, <2>2, SteadyStep
    <3> QED  BY <2>1, <2>2, <3>1 DEF GoneInv
  <2> QED  BY <2>1, <2>2 DEF GoneInv, Complete
<1>8. CASE External
  <2>1. UNCHANGED <<pc, phase, todo, cur, keyOf, active>>
    BY <1>8 DEF External, writer, main, store, session
  <2>2. ~Begin
    BY <2>1 DEF Begin
  <2> QED  BY <2>1, <2>2, GoneStill
<1>9. CASE UNCHANGED vars
  <2>1. UNCHANGED <<pc, phase, todo, cur, keyOf>>
    BY <1>9 DEF vars, writer, main, store
  <2>2. ~Begin
    BY <2>1 DEF Begin
  <2> QED  BY <2>1, <2>2, GoneStill
<1>10. CASE Crossing
  <2>1. phase' # "reconcile" /\ ~Complete'
    BY <1>10, CrossingFacts DEF Complete
  <2> QED  BY <2>1 DEF GoneInv
<1> QED
  BY <1>1, <1>2, <1>3, <1>4, <1>5, <1>6, <1>7, <1>8, <1>9, <1>10, Steps, GoneWrite

-----------------------------------------------------------------------------
(* The invariant                                                           *)

(* It holds at the start, whatever an earlier run has left in the mirror.  *)
LEMMA InitInv == Init => FullSyncInv
<1> SUFFICES ASSUME Init PROVE FullSyncInv
  OBVIOUS
<1>1. MailboxInv
  BY MailboxInitInv DEF Init
<1>2. Down
  <2>1. DOMAIN log = {}
    BY MailboxAssumption DEF Init, MailboxInit
  <2>2. \A m : Touched(m) <=> m \in Listed
    BY <2>1 DEF Touched
  <2> QED  BY <2>2, Numbers, MailboxAssumption DEF Down
<1>3. /\ pc = "idle" /\ active = FALSE /\ pageToken = 0 /\ highest = 0 /\ seen = {}
      /\ historyIdx = 0 /\ ppc = "off" /\ token = 0 /\ page = {} /\ newMsgs = <<>>
      /\ work = {} /\ ops = <<>> /\ phase = "none" /\ historyId = 0 /\ todo = {}
      /\ first = 0 /\ since = Base /\ cut = {} /\ fresh = {} /\ top = Base
  BY DEF Init, MailboxInit
<1>4. StoreInv
  <2>0. Readable \subseteq Msgs
    BY MailboxAssumption DEF Init, MailboxInit, Readable
  <2> PICK C \in SUBSET Readable, K \in [Msgs -> SUBSET Labels] :
          /\ \A m \in Msgs \ C : K[m] = {}
          /\ files = {[key |-> m, msg |-> m, labels |-> K[m]] : m \in C}
          /\ keyOf = [m \in Msgs |-> IF m \in C THEN {m} ELSE {}]
          /\ labOf = [m \in Msgs |-> IF m \in C THEN {K[m]} ELSE {}]
    BY DEF Init
  <2>1. keyOf \in [Msgs -> SUBSET Nat] /\ labOf \in [Msgs -> SUBSET (SUBSET Labels)]
    BY Numbers
  <2>2. KeysApart
    BY DEF KeysApart
  <2>3. ASSUME NEW m \in Msgs PROVE One(m)
    <3>1. CASE m \in C
      <4> PICK f : f = [key |-> m, msg |-> m, labels |-> K[m]]
        OBVIOUS
      <4>1. f \in files /\ f.msg = m /\ f.key = m /\ f.labels = K[m]
        BY <3>1
      <4>2. FilesOf(m) = {f}
        BY <3>1 DEF FilesOf
      <4>3. keyOf[m] = {m} /\ labOf[m] = {K[m]}
        BY <3>1
      <4> QED  BY <4>1, <4>2, <4>3 DEF One
    <3>2. CASE m \notin C
      <4>1. FilesOf(m) = {}
        BY <3>2 DEF FilesOf
      <4> QED  BY <3>2, <4>1 DEF One
    <3> QED  BY <3>1, <3>2
  <2> QED
    BY <1>3, <2>1, <2>2, <2>3 DEF StoreInv, MidWrite, Writing
<1>5. TypeInv
  <2>1. newMsgs \in Seq(Msgs) /\ ops \in Seq(PipeOps)
    BY <1>3
  <2>2. since \in Base .. top /\ first \in Tokens /\ pageToken \in Tokens /\ token \in Tokens
    BY <1>3, MailboxAssumption DEF Tokens
  <2>3. pc \in Outside /\ pc \notin Writing
    BY <1>3 DEF Outside, Writing
  <2>4. {historyIdx, historyId, highest} \subseteq Nat /\ fresh \subseteq Nat
    BY <1>3
  <2>5. /\ active \in BOOLEAN /\ seen \subseteq Msgs /\ page \subseteq Msgs /\ todo \subseteq Msgs
        /\ work \subseteq [at : {"body", "meta", "put"}, o : PipeOps]
        /\ ppc \in {"off", "fetch", "send", "mark", "done"} /\ first = 0
    BY <1>3
  <2> QED
    BY <2>1, <2>2, <2>3, <2>4, <2>5 DEF TypeInv
<1>6. EmptyPipe /\ pc \in Outside
  BY <1>3 DEF EmptyPipe, Outside
<1>7. RunInv
  BY <1>3, <1>6 DEF RunInv, Outside, Complete
<1>8. CurInv
  BY <1>3 DEF CurInv, Writing
<1>9. Being = {}
  BY <1>3 DEF Being, Writing
<1>10. OnceInv
  <2>1. Elements(newMsgs) = {} /\ Single(newMsgs)
    BY <1>3 DEF Elements, Single
  <2>2. MsgsIn(ops) = {} /\ SingleMsgs(ops)
    BY <1>3 DEF MsgsIn, SingleMsgs
  <2>3. InWork = {} /\ Unsent = {}
    BY <1>3 DEF InWork, Unsent
  <2> QED  BY <1>3, <1>9, <2>1, <2>2, <2>3 DEF OnceInv
<1>11. OpsInv
  BY <1>3 DEF OpsInv, Writing
<1>12. CoverInv /\ LiveInv /\ DoneInv /\ GoneInv
  BY <1>3 DEF CoverInv, LiveInv, DoneInv, GoneInv, Complete
<1> QED
  BY <1>1, <1>2, <1>4, <1>5, <1>7, <1>8, <1>10, <1>11, <1>12 DEF FullSyncInv

(* Every step keeps it.                                                    *)
LEMMA InvStep ==
    ASSUME FullSyncInv, [Next]_vars
    PROVE  FullSyncInv'
BY MailboxStays, StoreStep, TypeStep, RunStep, CurStep, OnceStep, OpsStep, CoverStep, LiveStep,
   DoneStep, GoneStep DEF FullSyncInv

(* It holds throughout every behaviour.                                    *)
LEMMA Invariant == Spec => []FullSyncInv
BY InitInv, InvStep, PTL DEF Spec

-----------------------------------------------------------------------------
(* What follows                                                            *)

(* Outside a write, and save for messages whose write was cut off, the     *)
(* cache has the key and the labels of a file that is there: the writes of *)
(* gmail.go:221-243 and 287-313 leave no half of themselves behind.        *)
THEOREM CacheTrueTheorem == Spec => []CacheTrue
<1>1. FullSyncInv => CacheTrue
  <2> SUFFICES ASSUME FullSyncInv, NEW m \in Msgs \ cut, ~(pc \in Writing /\ m = cur.msg)
               PROVE  True(m)
    BY DEF CacheTrue
  <2>1. One(m)
    BY DEF FullSyncInv, StoreInv, MidWrite
  <2>2. CASE keyOf[m] = {}
    BY <2>1, <2>2 DEF One, True
  <2>3. CASE keyOf[m] # {}
    <3> PICK f \in files : FilesOf(m) = {f} /\ f.key \in keyOf[m] /\ labOf[m] = {f.labels}
      BY <2>1, <2>3 DEF One
    <3>1. f.msg = m /\ f \in FilesAt(keyOf[m])
      BY DEF FilesOf, FilesAt
    <3> QED  BY <2>3, <3>1 DEF True
  <2> QED  BY <2>2, <2>3
<1> QED  BY <1>1, Invariant, PTL

(* Reconciliation, which deletes what is cached and was not seen, deletes  *)
(* a message that exists only if it arrived after the session was begun or *)
(* is one of the exceptions: in hand when a run was cut off, or hidden by  *)
(* what was left of an earlier session (gmail.go:610-616).                 *)
THEOREM DeletesOnlyGoneTheorem == Spec => []DeletesOnlyGone
<1>1. FullSyncInv => DeletesOnlyGone
  <2> SUFFICES ASSUME FullSyncInv, pc = "write", cur.op = "delete", cur.msg \in live,
                      ~(cur.msg > first)
               PROVE  cur.msg \in inHand \union stale
    BY DEF DeletesOnlyGone
  <2> USE DEF FullSyncInv
  <2>1. pc \notin Outside
    BY DEF Outside
  <2>2. phase = "reconcile" /\ active
    BY <2>1 DEF RunInv, CurInv, Taken, Writing
  <2>3. cur.msg \notin seen /\ ppc = "done" /\ page = {} /\ pageToken = 0
    BY <2>1, <2>2 DEF RunInv, CurInv, Writing, EmptyPipe
  <2>4. ~ToList(cur.msg)
    BY <2>1, <2>2, <2>3 DEF ToList, Paused, Outside
  <2>5. cur.msg \in Nat /\ first \in Nat
    BY Numbers, PageTypes DEF MailboxInv, MailboxTypeOK, TypeInv
  <2>6. cur.msg <= first
    BY <2>5
  <2> QED  BY <2>2, <2>3, <2>4, <2>6 DEF CoverInv
<1> QED  BY <1>1, Invariant, PTL

(* When a session is complete the mirror has every message that did not    *)
(* change since the session was begun exactly as Gmail has it, in one      *)
(* file, and no file of one that was gone by then, save the exceptions;    *)
(* whatever the number of runs, of workers and of messages                 *)
(* (gmail.go:523-621).                                                     *)
THEOREM UnchangedExactTheorem == Spec => []UnchangedExact
<1>1. FullSyncInv => UnchangedExact
  <2> SUFFICES ASSUME FullSyncInv, Complete, NEW m \in Msgs, Steady(m)
               PROVE  Mirrored(m)
    BY DEF UnchangedExact, Steady
  <2> USE DEF FullSyncInv
  <2>1. pc = "clear1" /\ phase = "end" /\ pc \in Outside
    BY DEF Complete, Outside
  <2>2. active /\ pageToken = 0 /\ ppc = "off"
    BY <2>1 DEF RunInv
  <2>3. Flight = {} /\ page = {} /\ Unsent = {}
    BY <2>1, NothingOnWay
  <2>4. CASE m \in live
    <3>1. m <= first
      BY <2>2, <2>4 DEF LiveInv, Steady
    <3>2. ~ToList(m)
      BY <2>1, <2>2 DEF ToList, Paused
    <3>3. m \in seen
      BY <2>2, <2>3, <2>4, <3>1, <3>2 DEF CoverInv, Steady
    <3> QED  BY <2>2, <2>3, <3>3 DEF DoneInv
  <2>5. CASE m \notin live
    <3>1. keyOf[m] = {}
      BY <2>1, <2>5 DEF GoneInv
    <3>2. One(m)
      BY <2>1 DEF StoreInv, MidWrite, Steady, Writing
    <3> QED  BY <2>5, <3>1, <3>2 DEF One, Mirrored
  <2> QED  BY <2>4, <2>5
<1> QED  BY <1>1, Invariant, PTL

-----------------------------------------------------------------------------
(* An update and its pipeline                                              *)

Hands == [at : {"new", "body", "meta", "open", "put"}, o : Ops, key : SUBSET Nat]

PipeTypes ==
    /\ event \subseteq Ops /\ ops \in Seq(Ops)
    /\ histEvents \in [Shards -> Seq(Ops)] /\ hand \in [Shards -> SUBSET Hands]

UpdateTypes ==
    /\ pc \in Writing \union {"idle", "loop", "written", "failed"}
    /\ ppc \in {"off", "fetch", "record", "send", "close", "done"}
    /\ {historyIdx, historyId, last} \subseteq Nat
    /\ cur \in Ops /\ fresh \subseteq Nat

(* The operations on their way from the history to the store, in the order *)
(* of the places they pass: from the reader's hand to the writer's.        *)
InHist == UNION {Elements(histEvents[s]) : s \in Shards}
InHand == UNION {{w.o : w \in hand[s]} : s \in Shards}
InWrite == IF pc \in Writing THEN {cur} ELSE {}
OnWay == event \union InHist \union InHand \union Elements(ops) \union InWrite

(* The others are not written.                                             *)
Real(o) == o.op \in {"add", "delete", "labels"}

UpdateRun ==
    /\ Base <= historyIdx /\ historyIdx <= historyId /\ historyId <= top /\ last <= top
    /\ ppc \in {"fetch", "record", "send"} => historyId <= last
    /\ ppc # "send" => event = {}
    /\ pc = "idle" => ppc = "off" /\ OnWay = {} /\ historyId = historyIdx
    /\ pc = "write" => Real(cur)

(* The reader and each worker have one event at a time, and a shard those  *)
(* of its messages alone.                                                  *)
Sharded ==
    /\ \A v, w \in event : v = w
    /\ \A s \in Shards :
        /\ \A v, w \in hand[s] : v = w
        /\ \A o \in Elements(histEvents[s]) : o.msg % ConcurrentDownloads = s
        /\ \A w \in hand[s] : w.o.msg % ConcurrentDownloads = s

(* An operation is made of a record that the run has read.                 *)
FromLog ==
    \A o \in OnWay : Real(o) =>
        /\ o.hid \in DOMAIN log /\ historyIdx < o.hid /\ o.hid <= historyId
        /\ log[o.hid].msg = o.msg
        /\ o.op = "add" => log[o.hid].op = "add"
        /\ o.op = "delete" => log[o.hid].op = "delete"

(* The operations of a message keep the order of its records.              *)
Before(S, T) ==
    \A x \in S, y \in T : Real(x) /\ Real(y) /\ x.msg = y.msg => x.hid < y.hid

Rising(s) == \A i, j \in DOMAIN s : i < j => Before({s[i]}, {s[j]})

InOrder ==
    /\ Before(InWrite, Elements(ops)) /\ Before(InWrite, InHand)
    /\ Before(InWrite, InHist) /\ Before(InWrite, event)
    /\ Before(Elements(ops), InHand) /\ Before(Elements(ops), InHist)
    /\ Before(Elements(ops), event)
    /\ Before(InHand, InHist) /\ Before(InHand, event)
    /\ Before(InHist, event)
    /\ Rising(ops) /\ \A s \in Shards : Rising(histEvents[s])

(* The key that a worker has read for an addition is still that of the     *)
(* message.                                                                *)
KeyRead ==
    /\ \A s \in Shards : \A w \in hand[s] :
          /\ w.at \in {"new", "body", "meta"} => w.o.op = "add"
          /\ w.at = "open" => w.o.op = "labels"
          /\ w.o.op = "add" /\ w.at # "new" => w.key = keyOf[w.o.msg]
          /\ w.o.op = "add" /\ w.at \in {"body", "put"} => w.key = {}
    /\ \A o \in Elements(ops) : o.op = "add" => keyOf[o.msg] = {}
    /\ pc = "write" /\ cur.op = "add" => keyOf[cur.msg] = {}

(* What is still to be done of the records that are read.                  *)
InCur == IF pc = "write" THEN {cur} ELSE {}
ToDo == event \union InHist \union InHand \union Elements(ops) \union InCur

Pending(m, k) == \E o \in ToDo : o.msg = m /\ o.op = k

Due(m, k) ==
    Pending(m, k) \/ \E n \in Ahead(historyId) : log[n].msg = m /\ log[n].op = k

(* A message is deleted after it is added.                                 *)
DeletesLast ==
    \A n \in DOMAIN log :
        n <= historyId /\ log[n].op = "delete" /\ Pending(log[n].msg, "add") =>
            Pending(log[n].msg, "delete")

(* A message whose write was cut off or whose body cannot be parsed may    *)
(* have no file.                                                           *)
Lost == cut \union Unparseable

Presence ==
    \A m \in Msgs \ Lost : /\ m \in live \ Mirror => Due(m, "add")
                           /\ m \in Mirror \ live => Due(m, "delete")

UpdateInv ==
    /\ MailboxInv /\ StoreInv /\ CurKind /\ UpdateTypes /\ PipeTypes /\ UpdateRun
    /\ Sharded /\ FromLog /\ InOrder /\ KeyRead /\ DeletesLast /\ Presence

USE DEF Lost

-----------------------------------------------------------------------------
(* Labels                                                                  *)

(* With labels K, message m is wrong only where a record above p sets it   *)
(* right.                                                                  *)
Right(m, K, p) ==
    \A l \in Labels : \/ l \in lab[m] <=> l \in K
                      \/ \E n \in Ahead(p) : SetsLabel(n, m, l)

(* One record of the message, at most, is not above p.                     *)
Alone(m, p) ==
    \A j, k \in DOMAIN log :
        j <= p /\ k <= p /\ log[j].msg = m /\ log[k].msg = m => j = k

(* The operations whose labels are those that will be written.             *)
Labelled ==
    {o \in OnWay : o.op = "labels"}
    \union {o \in Elements(ops) \union InWrite : o.op = "add"}
    \union UNION {{w.o : w \in {u \in hand[s] : u.at = "put" /\ u.o.op = "add"}} : s \in Shards}

(* The message is on its way, or the run is to fail.                       *)
Busy(m) == \E o \in OnWay : Real(o) /\ o.msg = m
Failing == pc = "failed" \/ \E o \in OnWay : o.op = "error"

(* All that the run has labels of is right at the committed index: it can  *)
(* start again.                                                            *)
RightBehind ==
    \A m \in live \ Lost :
        /\ labOf[m] = {} => \E n \in Ahead(historyIdx) : log[n].msg = m /\ log[n].op = "add"
        /\ Alone(m, historyIdx) =>
              /\ \A f \in FilesOf(m) : Right(m, f.labels, historyIdx)
              /\ \A C \in labOf[m] : Right(m, C, historyIdx)
              /\ \A o \in Labelled : o.msg = m => Right(m, o.labels, historyIdx)

(* What it has done is right where it has come to: it can commit.          *)
RightAhead ==
    \A m \in live \ Lost : Alone(m, historyId) =>
        /\ \A o \in Labelled : o.msg = m => Right(m, o.labels, historyId)
        /\ \/ Busy(m) \/ Failing
           \/ \A f \in FilesOf(m) : Right(m, f.labels, historyId)

-----------------------------------------------------------------------------
(* Places                                                                  *)

(* A step of the pipeline keeps the order, and what it leaves in it was    *)
(* there before.                                                           *)
Carried ==
    \A x \in OnWay' : Real(x) => \E y \in OnWay :
        /\ Real(y) /\ y.msg = x.msg /\ y.hid = x.hid
        /\ x.op \in {"add", "delete"} => y.op = x.op

Moves == PipeTypes' /\ Sharded' /\ InOrder' /\ KeyRead' /\ Carried

(* Nothing is done by it.                                                  *)
Keeps == \A m \in Msgs : \A k \in {"add", "delete"} : Pending(m, k)' <=> Pending(m, k)

(* No labels are computed by it, and nothing is lost by it.                *)
Preserves ==
    /\ Labelled' \subseteq Labelled
    /\ \A m \in Msgs : Busy(m) => Busy(m)'
    /\ Failing => Failing'

(* The order in which the head of a channel leaves it.                     *)
LEMMA HeadOf ==
    ASSUME NEW s \in Seq(Ops), s # <<>>
    PROVE  /\ Head(s) \in Ops /\ Tail(s) \in Seq(Ops)
           /\ Elements(s) = Elements(Tail(s)) \union {Head(s)}
           /\ Rising(s) => Rising(Tail(s)) /\ Before({Head(s)}, Elements(Tail(s)))
<1>0. /\ Tail(s) \in Seq(Ops) /\ Head(s) \in Ops /\ 1 \in DOMAIN s /\ Head(s) = s[1]
      /\ \A i \in DOMAIN Tail(s) : i + 1 \in DOMAIN s /\ Tail(s)[i] = s[i + 1]
      /\ \A j \in DOMAIN s : j = 1 \/ (j - 1 \in DOMAIN Tail(s) /\ Tail(s)[j - 1] = s[j])
      /\ DOMAIN s \subseteq Nat /\ DOMAIN Tail(s) \subseteq Nat \ {0}
  BY TailOf
<1>1. Elements(s) = Elements(Tail(s)) \union {Head(s)}
  <2>1. ASSUME NEW j \in DOMAIN s PROVE s[j] = Head(s) \/ s[j] \in Elements(Tail(s))
    BY <1>0 DEF Elements
  <2>2. Head(s) \in Elements(s) /\ \A e \in Elements(Tail(s)) : e \in Elements(s)
    BY <1>0 DEF Elements
  <2> QED  BY <2>1, <2>2 DEF Elements
<1>2. ASSUME Rising(s) PROVE Rising(Tail(s))
  <2>1. ASSUME NEW i \in DOMAIN Tail(s), NEW j \in DOMAIN Tail(s), i < j
        PROVE  Before({Tail(s)[i]}, {Tail(s)[j]})
    <3>1. i + 1 \in DOMAIN s /\ j + 1 \in DOMAIN s /\ i + 1 < j + 1
      BY <1>0, <2>1
    <3>2. Before({s[i + 1]}, {s[j + 1]})
      BY <1>2, <3>1 DEF Rising
    <3> QED  BY <1>0, <3>2
  <2> QED  BY <2>1 DEF Rising
<1>3. ASSUME Rising(s) PROVE Before({Head(s)}, Elements(Tail(s)))
  <2>1. ASSUME NEW i \in DOMAIN Tail(s) PROVE Before({Head(s)}, {Tail(s)[i]})
    <3>1. 1 < i + 1 /\ i + 1 \in DOMAIN s
      BY <1>0
    <3>2. Before({s[1]}, {s[i + 1]})
      BY <1>0, <1>3, <3>1 DEF Rising
    <3> QED  BY <1>0, <3>2
  <2> QED  BY <2>1 DEF Before, Elements
<1> QED  BY <1>0, <1>1, <1>2, <1>3

(* What enters a channel enters it last.                                   *)
LEMMA LastOf ==
    ASSUME NEW s \in Seq(Ops), NEW e \in Ops
    PROVE  /\ Append(s, e) \in Seq(Ops)
           /\ Elements(Append(s, e)) = Elements(s) \union {e}
           /\ Rising(s) /\ Before(Elements(s), {e}) => Rising(Append(s, e))
<1>0. /\ Append(s, e) \in Seq(Ops) /\ Len(s) \in Nat /\ DOMAIN s = 1 .. Len(s)
      /\ DOMAIN Append(s, e) = DOMAIN s \union {Len(s) + 1}
      /\ Append(s, e)[Len(s) + 1] = e
      /\ \A i \in DOMAIN s : Append(s, e)[i] = s[i]
  BY AppendOf
<1>1. Elements(Append(s, e)) = Elements(s) \union {e}
  BY <1>0 DEF Elements
<1>2. ASSUME Rising(s), Before(Elements(s), {e}) PROVE Rising(Append(s, e))
  <2>1. ASSUME NEW i \in DOMAIN Append(s, e), NEW j \in DOMAIN Append(s, e), i < j
        PROVE  Before({Append(s, e)[i]}, {Append(s, e)[j]})
    <3>1. i \in DOMAIN s
      BY <1>0, <2>1
    <3>2. CASE j \in DOMAIN s
      BY <1>0, <1>2, <2>1, <3>1, <3>2 DEF Rising
    <3>3. CASE j = Len(s) + 1
      <4>1. s[i] \in Elements(s)
        BY <3>1 DEF Elements
      <4> QED  BY <1>0, <1>2, <3>1, <3>3, <4>1 DEF Before
    <3> QED  BY <1>0, <3>2, <3>3
  <2> QED  BY <2>1 DEF Rising
<1> QED  BY <1>0, <1>1, <1>2

(* Every step of an update, by the goroutine that takes it.                *)
LEMMA UpdateSteps ==
    ASSUME [IncNext]_incVars
    PROVE  \/ StartUpdate
           \/ HistoryGone \/ GetHistory \/ NextRecord \/ SendEvent \/ RecordsDone
           \/ \E s \in Shards : TakeEvent(s)
           \/ \E s \in Shards : \E w \in hand[s] : LookUp(s, w)
           \/ \E s \in Shards : \E w \in hand[s] : FetchBody(s, w)
           \/ \E s \in Shards : \E w \in hand[s] : FetchMetadata(s, w)
           \/ \E s \in Shards : \E w \in hand[s] : OpenFile(s, w)
           \/ \E s \in Shards : \E w \in hand[s] : Put(s, w)
           \/ TakeOp \/ WriteOp \/ OpWritten
           \/ CommitHistory \/ FailUpdate \/ KillUpdate
           \/ Gmail
           \/ UNCHANGED incVars
BY DEF IncNext, Update, ReadHistory, ShardWorker, WriteOps

(* Where an operation can be.                                              *)
LEMMA InPlaces ==
    ASSUME UpdateInv, NEW s \in Shards
    PROVE  /\ \A w \in hand[s] : w.o \in InHand /\ w.o \in Ops /\ w \in Hands
           /\ histEvents[s] \in Seq(Ops) /\ Elements(histEvents[s]) \subseteq InHist
           /\ s \in Nat /\ InHist \subseteq Ops
BY StoreAssumption DEF UpdateInv, PipeTypes, InHand, InHist, Hands, Shards, Elements

(* What leaves a place for the next one is behind all that is there.       *)
LEMMA Behind ==
    ASSUME NEW A, NEW B, NEW C
    PROVE  /\ Before(A \union B, C) <=> Before(A, C) /\ Before(B, C)
           /\ Before(A, B \union C) <=> Before(A, B) /\ Before(A, C)
           /\ Before({}, A) /\ Before(A, {})
BY Zenon DEF Before

(* The event is sent to its shard.                                         *)
LEMMA SendMoves ==
    ASSUME UpdateInv, SendEvent
    PROVE  Moves /\ Keeps /\ Preserves
<1> USE DEF UpdateInv
<1> PICK o \in event, s \in Shards :
        /\ s = ShardForMsgId(o)
        /\ histEvents' = [histEvents EXCEPT ![s] = Append(@, o)]
  BY DEF SendEvent
<1>1. /\ event' = {} /\ hand' = hand /\ ops' = ops /\ pc' = pc /\ cur' = cur /\ keyOf' = keyOf
  BY DEF SendEvent, Reading, store, writer
<1>2. event = {o} /\ o \in Ops
  BY DEF Sharded, PipeTypes
<1>3. /\ histEvents' \in [Shards -> Seq(Ops)]
      /\ Elements(histEvents'[s]) = Elements(histEvents[s]) \union {o}
      /\ \A t \in Shards \ {s} : histEvents'[t] = histEvents[t]
      /\ Before(Elements(histEvents[s]), {o}) => Rising(histEvents'[s])
  <2>1. histEvents[s] \in Seq(Ops) /\ histEvents'[s] = Append(histEvents[s], o)
    BY DEF PipeTypes
  <2>2. Append(histEvents[s], o) \in Seq(Ops)
    BY <1>2, <2>1, LastOf
  <2> QED  BY <1>2, <2>1, <2>2, LastOf DEF PipeTypes, InOrder
<1>4. InHist' = InHist \union {o} /\ Elements(histEvents[s]) \subseteq InHist
  BY <1>3 DEF InHist
<1>5. InHand' = InHand /\ InWrite' = InWrite /\ Elements(ops)' = Elements(ops)
  BY <1>1 DEF InHand, InWrite, Elements
<1>6. PipeTypes'
  BY <1>1, <1>3 DEF PipeTypes
<1>7. Sharded'
  BY <1>1, <1>3 DEF Sharded, ShardForMsgId
<1>8. InOrder'
  <2>1. \A t \in Shards : Rising(histEvents'[t])
    BY <1>2, <1>3, <1>4 DEF InOrder, Before
  <2> QED  BY <1>1, <1>2, <1>4, <1>5, <2>1, Behind DEF InOrder
<1>9. KeyRead'
  BY <1>1, <1>5 DEF KeyRead
<1>10. OnWay' = OnWay /\ ToDo' = ToDo
  BY <1>1, <1>2, <1>4, <1>5 DEF OnWay, ToDo, InCur
<1>11. Preserves
  BY <1>1, <1>5, <1>10 DEF Preserves, Labelled, Busy, Failing
<1> QED
  BY <1>6, <1>7, <1>8, <1>9, <1>10, <1>11 DEF Moves, Carried, Keeps, Pending

(* A worker takes the event it is to handle.                               *)
LEMMA TakeMoves ==
    ASSUME UpdateInv, NEW s \in Shards, TakeEvent(s)
    PROVE  Moves /\ Keeps /\ Preserves
<1> USE DEF UpdateInv
<1> PICK o : o = Head(histEvents[s])
  OBVIOUS
<1> PICK w : w = [at |-> IF o.op = "add" THEN "new" ELSE "put", o |-> o, key |-> {}]
  OBVIOUS
<1>1. /\ histEvents' = [histEvents EXCEPT ![s] = Tail(@)]
      /\ hand' = [hand EXCEPT ![s] = {w}] /\ hand[s] = {}
      /\ event' = event /\ ops' = ops /\ pc' = pc /\ cur' = cur /\ keyOf' = keyOf
  BY DEF TakeEvent, Holds, Handling, Reading, store, writer, reader
<1>2. /\ o \in Ops /\ histEvents' \in [Shards -> Seq(Ops)]
      /\ Elements(histEvents[s]) = Elements(histEvents'[s]) \union {o}
      /\ \A t \in Shards \ {s} : histEvents'[t] = histEvents[t]
      /\ Rising(histEvents'[s]) /\ Before({o}, Elements(histEvents'[s]))
  <2>1. histEvents[s] \in Seq(Ops) /\ histEvents[s] # <<>> /\ Rising(histEvents[s])
        /\ histEvents'[s] = Tail(histEvents[s])
    BY <1>1 DEF PipeTypes, TakeEvent, InOrder
  <2>2. Tail(histEvents[s]) \in Seq(Ops)
    BY <2>1, HeadOf
  <2> QED  BY <1>1, <2>1, <2>2, HeadOf DEF PipeTypes
<1>3. InHist = InHist' \union {o}
  BY <1>2 DEF InHist
<1>4. w \in Hands /\ w.o = o /\ hand' \in [Shards -> SUBSET Hands]
      /\ hand'[s] = {w} /\ \A t \in Shards \ {s} : hand'[t] = hand[t]
  BY <1>1, <1>2 DEF Hands, PipeTypes
<1>5. InHand' = InHand \union {o}
  <2>1. \A t \in Shards : {v.o : v \in hand'[t]} = {v.o : v \in hand[t]} \union
                              (IF t = s THEN {o} ELSE {})
    BY <1>1, <1>4
  <2> DEFINE A(t) == {v.o : v \in hand[t]}
             B(t) == {v.o : v \in hand'[t]}
  <2>2. InHand = UNION {A(t) : t \in Shards} /\ InHand' = UNION {B(t) : t \in Shards}
    BY DEF InHand
  <2>3. \A t \in Shards : B(t) = A(t) \union (IF t = s THEN {o} ELSE {})
    BY <2>1
  <2> HIDE DEF A, B, UpdateInv
  <2>4. ASSUME NEW x \in InHand' PROVE x \in InHand \union {o}
    BY <2>2, <2>3, <2>4
  <2>5. ASSUME NEW x \in InHand \union {o} PROVE x \in InHand'
    BY <2>2, <2>3, <2>5
  <2> QED  BY <2>4, <2>5
<1>6. InWrite' = InWrite /\ Elements(ops)' = Elements(ops)
  BY <1>1 DEF InWrite, Elements
<1>7. PipeTypes'
  BY <1>1, <1>2, <1>4 DEF PipeTypes
<1>8. Sharded' /\ o.msg % ConcurrentDownloads = s
  <2>1. o.msg % ConcurrentDownloads = s
    BY <1>2 DEF Sharded
  <2>2. ASSUME NEW t \in Shards
        PROVE  /\ \A u, v \in hand'[t] : u = v
               /\ \A x \in Elements(histEvents'[t]) : x.msg % ConcurrentDownloads = t
               /\ \A v \in hand'[t] : v.o.msg % ConcurrentDownloads = t
    <3>1. CASE t = s
      BY <1>2, <1>4, <2>1, <3>1 DEF Sharded
    <3>2. CASE t # s
      BY <1>2, <1>4, <3>2 DEF Sharded
    <3> QED  BY <3>1, <3>2
  <2> QED  BY <1>1, <2>1, <2>2 DEF Sharded
<1>9. Before({o}, InHist')
  <2>1. ASSUME NEW t \in Shards, NEW x \in Elements(histEvents'[t]) PROVE Before({o}, {x})
    <3>1. CASE t = s
      BY <1>2, <2>1, <3>1 DEF Before
    <3>2. CASE t # s
      BY <1>8, <2>1, <3>2 DEF Sharded, Before
    <3> QED  BY <3>1, <3>2
  <2> QED  BY <2>1 DEF InHist, Before
<1>10. InOrder'
  <2>1. \A t \in Shards : Rising(histEvents'[t])
    BY <1>2 DEF InOrder
  <2> QED  BY <1>1, <1>3, <1>5, <1>6, <1>9, <2>1, Behind DEF InOrder
<1>11. KeyRead'
  BY <1>1, <1>4, <1>6 DEF KeyRead
<1>12. OnWay' = OnWay /\ ToDo' = ToDo
  BY <1>1, <1>3, <1>5, <1>6 DEF OnWay, ToDo, InCur
<1>13. Preserves
  <2>1. \A t \in Shards : \A u \in hand'[t] :
            u.at = "put" /\ u.o.op = "add" => u \in hand[t]
    BY <1>4
  <2>2. Labelled' \subseteq Labelled
    BY <1>6, <1>12, <2>1 DEF Labelled
  <2> QED  BY <1>1, <1>12, <2>2 DEF Preserves, Busy, Failing
<1> QED
  BY <1>7, <1>8, <1>10, <1>11, <1>12, <1>13 DEF Moves, Carried, Keeps, Pending

(* A worker goes on with its event, which stays of the same record.        *)
LEMMA HoldMoves ==
    ASSUME UpdateInv, NEW s \in Shards, NEW w \in hand[s], NEW v \in Hands,
           hand' = [hand EXCEPT ![s] = {v}],
           UNCHANGED <<event, histEvents, ops, pc, cur, keyOf>>,
           v.o.msg = w.o.msg, Real(v.o) => Real(w.o) /\ v.o.hid = w.o.hid,
           v.o.op \in {"add", "delete"} => v.o.op = w.o.op,
           v.at \in {"new", "body", "meta"} => v.o.op = "add",
           v.at = "open" => v.o.op = "labels",
           v.o.op = "add" /\ v.at # "new" => v.key = keyOf[v.o.msg],
           v.o.op = "add" /\ v.at \in {"body", "put"} => v.key = {}
    PROVE  /\ Moves
           /\ \A m \in Msgs : \A k \in {"add", "delete"} :
                 /\ Pending(m, k)' => Pending(m, k)
                 /\ Pending(m, k) => Pending(m, k)' \/ (m = w.o.msg /\ k = w.o.op)
           /\ v.o.op = w.o.op => Keeps
<1> USE DEF UpdateInv
<1> DEFINE R == UNION {{u.o : u \in hand[t]} : t \in Shards \ {s}}
<1>0. w \in Hands /\ w.o \in Ops /\ hand[s] = {w}
  BY InPlaces DEF Sharded
<1>1. /\ hand' \in [Shards -> SUBSET Hands] /\ hand'[s] = {v}
      /\ \A t \in Shards \ {s} : hand'[t] = hand[t]
  BY DEF PipeTypes
<1>2. InHand = R \union {w.o} /\ InHand' = R \union {v.o}
  <2>1. InHand = R \union {w.o}
    BY <1>0 DEF InHand
  <2>2. InHand' = UNION {{u.o : u \in hand'[t]} : t \in Shards}
    BY DEF InHand
  <2>3. InHand' = R \union {v.o}
    BY <1>1, <2>2
  <2> QED  BY <2>1, <2>3
<1> HIDE DEF R
<1>3. InHist' = InHist /\ InWrite' = InWrite /\ Elements(ops)' = Elements(ops)
  BY DEF InHist, InWrite, Elements
<1>4. PipeTypes'
  BY <1>1 DEF PipeTypes
<1>5. Sharded'
  BY <1>1 DEF Sharded
<1>6. InOrder'
  <2>1. ASSUME NEW S, Before(S, InHand) PROVE Before(S, InHand')
    BY <1>2, <2>1 DEF Before
  <2>2. ASSUME NEW S, Before(InHand, S) PROVE Before(InHand', S)
    BY <1>2, <2>2 DEF Before
  <2> QED  BY <1>3, <2>1, <2>2 DEF InOrder
<1>7. KeyRead'
  BY <1>1, <1>3 DEF KeyRead
<1>8. ToDo = event \union InHist \union R \union {w.o} \union Elements(ops) \union InCur
      /\ ToDo' = event \union InHist \union R \union {v.o} \union Elements(ops) \union InCur
  BY <1>2, <1>3 DEF ToDo, InCur
<1>9. /\ OnWay = event \union InHist \union R \union {w.o} \union Elements(ops) \union InWrite
      /\ OnWay' = event \union InHist \union R \union {v.o} \union Elements(ops) \union InWrite
  BY <1>2, <1>3 DEF OnWay
<1>10. Carried
  BY <1>9 DEF Carried
<1>11. ASSUME NEW m \in Msgs, NEW k \in {"add", "delete"}
       PROVE  /\ Pending(m, k)' => Pending(m, k)
              /\ Pending(m, k) => Pending(m, k)' \/ (m = w.o.msg /\ k = w.o.op)
              /\ v.o.op = w.o.op => (Pending(m, k)' <=> Pending(m, k))
  BY <1>8 DEF Pending
<1> QED
  BY <1>4, <1>5, <1>6, <1>7, <1>10, <1>11 DEF Moves, Keeps

(* What it does to the labels that are computed and to what is on its way. *)
LEMMA HoldLabels ==
    ASSUME UpdateInv, NEW s \in Shards, NEW w \in hand[s], NEW v \in Hands,
           hand' = [hand EXCEPT ![s] = {v}],
           UNCHANGED <<event, histEvents, ops, pc, cur>>, v.o.msg = w.o.msg
    PROVE  /\ \A o \in Labelled' : \/ o \in Labelled
                                   \/ o = v.o /\ (o.op = "labels" \/ v.at = "put")
           /\ \A m \in Msgs : Busy(m) => Busy(m)' \/ (m = w.o.msg /\ ~Real(v.o))
           /\ v.o.op = "error" => Failing'
           /\ Real(w.o) /\ Failing => Failing'
<1> USE DEF UpdateInv
<1> DEFINE R == UNION {{u.o : u \in hand[t]} : t \in Shards \ {s}}
<1>0. w \in Hands /\ w.o \in Ops /\ hand[s] = {w}
  BY InPlaces DEF Sharded
<1>1. /\ hand' \in [Shards -> SUBSET Hands] /\ hand'[s] = {v}
      /\ \A t \in Shards \ {s} : hand'[t] = hand[t]
  BY DEF PipeTypes
<1>2. InHand = R \union {w.o} /\ InHand' = R \union {v.o}
  <2>1. InHand = R \union {w.o}
    BY <1>0 DEF InHand
  <2>2. InHand' = UNION {{u.o : u \in hand'[t]} : t \in Shards}
    BY DEF InHand
  <2>3. InHand' = R \union {v.o}
    BY <1>1, <2>2
  <2> QED  BY <2>1, <2>3
<1> HIDE DEF R
<1>3. InHist' = InHist /\ InWrite' = InWrite /\ Elements(ops)' = Elements(ops)
  BY DEF InHist, InWrite, Elements
<1>4. /\ OnWay = event \union InHist \union R \union {w.o} \union Elements(ops) \union InWrite
      /\ OnWay' = event \union InHist \union R \union {v.o} \union Elements(ops) \union InWrite
  BY <1>2, <1>3 DEF OnWay
<1>5. ASSUME NEW o \in Labelled'
      PROVE  o \in Labelled \/ (o = v.o /\ (o.op = "labels" \/ v.at = "put"))
  <2>1. CASE o \in OnWay' /\ o.op = "labels"
    BY <1>4, <2>1 DEF Labelled
  <2>2. CASE o \in Elements(ops) \union InWrite /\ o.op = "add"
    BY <2>2 DEF Labelled
  <2>3. ASSUME NEW t \in Shards, NEW u \in hand'[t], u.at = "put", u.o.op = "add", o = u.o
        PROVE  o \in Labelled \/ (o = v.o /\ (o.op = "labels" \/ v.at = "put"))
    <3>1. CASE t = s
      BY <1>1, <2>3, <3>1
    <3>2. CASE t # s
      <4>1. u \in hand[t]
        BY <1>1, <2>3, <3>2
      <4> QED  BY <2>3, <4>1 DEF Labelled
    <3> QED  BY <3>1, <3>2
  <2> QED  BY <1>3, <2>1, <2>2, <2>3 DEF Labelled
<1>6. \A m \in Msgs : Busy(m) => Busy(m)' \/ (m = w.o.msg /\ ~Real(v.o))
  BY <1>4 DEF Busy
<1>7. /\ v.o.op = "error" => Failing'
      /\ Real(w.o) /\ Failing => Failing'
  BY <1>4 DEF Failing, Real
<1>8. \A o \in Labelled' : \/ o \in Labelled
                           \/ o = v.o /\ (o.op = "labels" \/ v.at = "put")
  BY Zenon, <1>5
<1> QED  BY Zenon, <1>6, <1>7, <1>8

(* The operation is put into the channel of the main goroutine.            *)
LEMMA PutMoves ==
    ASSUME UpdateInv, NEW s \in Shards, NEW w \in hand[s], Put(s, w)
    PROVE  Moves /\ Keeps /\ Preserves
<1> USE DEF UpdateInv
<1> DEFINE R == UNION {{u.o : u \in hand[t]} : t \in Shards \ {s}}
<1> PICK o : o = w.o
  OBVIOUS
<1>0. w \in Hands /\ o \in Ops /\ hand[s] = {w} /\ o \in InHand
  BY InPlaces DEF Sharded
<1>1. /\ hand' = [hand EXCEPT ![s] = {}] /\ ops' = Append(ops, o) /\ w.at = "put"
      /\ event' = event /\ histEvents' = histEvents /\ pc' = pc /\ cur' = cur
      /\ keyOf' = keyOf
  BY DEF Put, Enqueue, Handling, Reading, store, writer, reader
<1>2. /\ hand' \in [Shards -> SUBSET Hands] /\ hand'[s] = {}
      /\ \A t \in Shards \ {s} : hand'[t] = hand[t]
  BY <1>1 DEF PipeTypes
<1>3. InHand = R \union {o} /\ InHand' = R
  <2>1. InHand = R \union {o}
    BY <1>0 DEF InHand
  <2>2. InHand' = UNION {{u.o : u \in hand'[t]} : t \in Shards}
    BY DEF InHand
  <2> QED  BY <1>2, <2>1, <2>2
<1>4. Before({o}, R)
  <2>1. ASSUME NEW t \in Shards \ {s}, NEW u \in hand[t] PROVE Before({o}, {u.o})
    BY <1>0, <2>1 DEF Sharded, Before
  <2> QED  BY <2>1 DEF Before
<1> HIDE DEF R
<1>5. /\ ops' \in Seq(Ops) /\ Elements(ops)' = Elements(ops) \union {o}
      /\ Rising(ops')
  <2>1. Before(Elements(ops), {o}) /\ Rising(ops) /\ ops \in Seq(Ops)
    BY <1>0 DEF InOrder, PipeTypes, Before
  <2>2. Append(ops, o) \in Seq(Ops) /\ Elements(Append(ops, o)) = Elements(ops) \union {o}
        /\ Rising(Append(ops, o))
    BY <1>0, <2>1, LastOf
  <2> QED  BY <1>1, <2>2
<1>6. InHist' = InHist /\ InWrite' = InWrite
  BY <1>1 DEF InHist, InWrite
<1>7. PipeTypes'
  BY <1>1, <1>2, <1>5 DEF PipeTypes
<1>8. Sharded'
  BY <1>1, <1>2 DEF Sharded
<1>9. InOrder'
  <2>1. ASSUME NEW S, Before(S, InHand) PROVE Before(S, R) /\ Before(S, {o})
    BY <1>3, <2>1, Behind
  <2>2. ASSUME NEW S, Before(InHand, S) PROVE Before(R, S) /\ Before({o}, S)
    BY <1>3, <2>2, Behind
  <2>3. /\ Before(InWrite, Elements(ops)') /\ Before(InWrite, R)
        /\ Before(InWrite, InHist) /\ Before(InWrite, event)
    <3>1. Before(InWrite, {o})
      BY <2>1 DEF InOrder
    <3> QED  BY <1>5, <2>1, <3>1 DEF InOrder, Before
  <2>4. /\ Before(Elements(ops)', R) /\ Before(Elements(ops)', InHist)
        /\ Before(Elements(ops)', event)
    <3>1. /\ Before({o}, InHist) /\ Before({o}, event)
          /\ Before(Elements(ops), R) /\ Before(Elements(ops), InHist)
          /\ Before(Elements(ops), event)
      BY <2>1, <2>2 DEF InOrder
    <3>2. ASSUME NEW S, Before(Elements(ops), S), Before({o}, S)
          PROVE  Before(Elements(ops)', S)
      BY <1>5, <3>2 DEF Before
    <3> QED  BY <1>4, <3>1, <3>2
  <2>5. Before(R, InHist) /\ Before(R, event) /\ Before(InHist, event)
    BY <2>2 DEF InOrder
  <2> QED  BY <1>1, <1>3, <1>5, <1>6, <2>3, <2>4, <2>5 DEF InOrder
<1>10. KeyRead'
  <2>1. o.op = "add" => keyOf[o.msg] = {}
    BY <1>1 DEF KeyRead
  <2> QED  BY <1>1, <1>2, <1>5, <2>1 DEF KeyRead
<1>11. OnWay' = OnWay /\ ToDo' = ToDo
  BY <1>1, <1>3, <1>5, <1>6 DEF OnWay, ToDo, InCur
<1>12. Preserves
  <2>1. \A t \in Shards : \A u \in hand'[t] : u \in hand[t]
    BY <1>2
  <2>2. o.op = "add" => o \in Labelled
    BY <1>1 DEF Labelled
  <2>3. Labelled' \subseteq Labelled
    BY <1>5, <1>6, <1>11, <2>1, <2>2 DEF Labelled
  <2> QED  BY <1>1, <1>11, <2>3 DEF Preserves, Busy, Failing
<1> QED
  BY <1>7, <1>8, <1>9, <1>10, <1>11, <1>12 DEF Moves, Carried, Keeps, Pending

(* The main goroutine takes an operation, and drops one that is none.      *)
LEMMA OpMoves ==
    ASSUME UpdateInv, TakeOp
    PROVE  Moves /\ Keeps /\ Preserves /\ cur' \in Ops /\ (pc' = "write" => Real(cur'))
<1> USE DEF UpdateInv
<1> PICK o : o = Head(ops)
  OBVIOUS
<1>1. /\ ops' = Tail(ops) /\ pc = "loop" /\ event' = event /\ histEvents' = histEvents
      /\ hand' = hand /\ keyOf' = keyOf
      /\ \/ o.op \notin {"add", "delete", "labels"} /\ pc' \in {"failed", "loop"} /\ cur' = cur
         \/ o.op \in {"add", "delete", "labels"} /\ cur' = o /\ pc' = "write"
  <2>1. o \in Ops
    BY HeadOf DEF TakeOp, PipeTypes
  <2> QED  BY <2>1 DEF TakeOp, store, reader, Ops
<1>2. /\ o \in Ops /\ ops' \in Seq(Ops) /\ Elements(ops) = Elements(ops)' \union {o}
      /\ Rising(ops') /\ Before({o}, Elements(ops)')
  <2>1. ops \in Seq(Ops) /\ ops # <<>> /\ Rising(ops)
    BY DEF TakeOp, PipeTypes, InOrder
  <2>2. /\ o \in Ops /\ Tail(ops) \in Seq(Ops) /\ Elements(ops) = Elements(Tail(ops)) \union {o}
        /\ Rising(Tail(ops)) /\ Before({o}, Elements(Tail(ops)))
    BY <2>1, HeadOf
  <2> QED  BY <1>1, <2>2
<1>3. /\ InHist' = InHist /\ InHand' = InHand /\ InWrite = {} /\ InCur = {}
      /\ InWrite' = InCur' /\ InCur' = IF Real(o) THEN {o} ELSE {}
  BY <1>1 DEF InHist, InHand, InWrite, InCur, Writing, Real
<1>4. PipeTypes'
  BY <1>1, <1>2 DEF PipeTypes
<1>5. Sharded'
  BY <1>1 DEF Sharded
<1>6. InOrder'
  <2>0. ASSUME NEW S, Before(Elements(ops), S) PROVE Before(Elements(ops)', S) /\ Before({o}, S)
    BY <1>2, <2>0 DEF Before
  <2>1. /\ Before({o}, Elements(ops)') /\ Before({o}, InHand) /\ Before({o}, InHist)
        /\ Before({o}, event)
    BY <1>2, <2>0 DEF InOrder
  <2>2. /\ Before(Elements(ops)', InHand) /\ Before(Elements(ops)', InHist)
        /\ Before(Elements(ops)', event)
    BY <2>0 DEF InOrder
  <2>3. InWrite' = {} \/ InWrite' = {o}
    BY <1>3
  <2>4. /\ Before(InWrite', Elements(ops)') /\ Before(InWrite', InHand)
        /\ Before(InWrite', InHist) /\ Before(InWrite', event)
    BY <2>1, <2>3, Behind
  <2> QED  BY <1>1, <1>2, <1>3, <2>2, <2>4 DEF InOrder
<1>7. KeyRead'
  <2>1. o \in Elements(ops)
    BY <1>2
  <2> QED  BY <1>1, <1>2, <2>1 DEF KeyRead
<1>8. /\ OnWay = event \union InHist \union InHand \union Elements(ops)' \union {o}
      /\ OnWay' = event \union InHist \union InHand \union Elements(ops)' \union InCur'
      /\ ToDo = OnWay /\ ToDo' = OnWay'
  BY <1>1, <1>2, <1>3 DEF OnWay, ToDo
<1>9. Carried
  BY <1>3, <1>8 DEF Carried
<1>10. ASSUME NEW m \in Msgs, NEW k \in {"add", "delete"}
       PROVE  Pending(m, k)' <=> Pending(m, k)
  BY <1>3, <1>8 DEF Pending, Real
<1>11. cur' \in Ops /\ (pc' = "write" => Real(cur'))
  BY <1>1, <1>2 DEF UpdateTypes, Real
<1>12. Preserves
  <2>1. o.op = "add" => o \in Labelled
    BY <1>2 DEF Labelled
  <2>2. OnWay' \subseteq OnWay /\ InWrite' \subseteq {o}
        /\ Elements(ops)' \subseteq Elements(ops)
    BY <1>2, <1>3, <1>8
  <2>3. Labelled' \subseteq Labelled
    BY <1>1, <2>1, <2>2 DEF Labelled
  <2>4. \A m \in Msgs : Busy(m) => Busy(m)'
    BY <1>3, <1>8 DEF Busy
  <2>5. o.op = "error" => pc' = "failed"
    BY <1>1 DEF TakeOp
  <2>6. Failing => Failing'
    BY <1>1, <1>8, <2>5 DEF Failing
  <2> QED  BY <2>3, <2>4, <2>6 DEF Preserves
<1> QED
  BY <1>4, <1>5, <1>6, <1>7, <1>9, <1>10, <1>11, <1>12 DEF Moves, Keeps

(* A step that moves nothing.                                              *)
LEMMA StillMoves ==
    ASSUME UpdateInv, UNCHANGED <<event, histEvents, hand, ops, keyOf>>,
           \/ UNCHANGED <<pc, cur>>
           \/ {pc, pc'} \intersect Writing = {} /\ pc # "failed"
    PROVE  Moves /\ Keeps /\ Preserves
<1> USE DEF UpdateInv
<1>0. InWrite' = InWrite /\ InCur' = InCur
  <2>1. "write" \in Writing
    BY DEF Writing
  <2>2. CASE {pc, pc'} \intersect Writing = {}
    BY <2>1, <2>2 DEF InWrite, InCur
  <2>3. CASE UNCHANGED <<pc, cur>>
    BY <2>3 DEF InWrite, InCur
  <2> QED  BY <2>2, <2>3
<1>1. /\ InHist' = InHist /\ InHand' = InHand /\ InWrite' = InWrite /\ InCur' = InCur
      /\ Elements(ops)' = Elements(ops) /\ event' = event
  BY <1>0 DEF InHist, InHand, Elements
<1>2. OnWay' = OnWay /\ ToDo' = ToDo
  BY <1>1 DEF OnWay, ToDo
<1>3. PipeTypes' /\ Sharded'
  BY DEF PipeTypes, Sharded
<1>4. InOrder'
  BY <1>1 DEF InOrder
<1>5. KeyRead'
  BY <1>1 DEF KeyRead, Writing
<1>6. Preserves
  BY <1>1, <1>2 DEF Preserves, Labelled, Busy, Failing
<1> QED
  BY <1>2, <1>3, <1>4, <1>5, <1>6 DEF Moves, Carried, Keeps, Pending

(* An expired index is reported to the main goroutine.                     *)
LEMMA GoneMoves ==
    ASSUME UpdateInv, HistoryGone
    PROVE  Moves /\ Keeps /\ Preserves
<1> USE DEF UpdateInv
<1> PICK o : o = [Nobody EXCEPT !.op = "error"]
  OBVIOUS
<1>0. o \in Ops /\ ~Real(o) /\ o.op = "error"
  BY IncrementalAssumption DEF Nobody, NoOp, Ops, Real
<1>1. /\ ops' = Append(ops, o) /\ event' = event /\ histEvents' = histEvents
      /\ hand' = hand /\ pc' = pc /\ cur' = cur /\ keyOf' = keyOf
  BY DEF HistoryGone, Enqueue, Reading, store, writer
<1>2. /\ ops' \in Seq(Ops) /\ Elements(ops)' = Elements(ops) \union {o}
      /\ Rising(ops')
  <2>1. Before(Elements(ops), {o}) /\ Rising(ops) /\ ops \in Seq(Ops)
    BY <1>0 DEF InOrder, PipeTypes, Before
  <2>2. Append(ops, o) \in Seq(Ops) /\ Elements(Append(ops, o)) = Elements(ops) \union {o}
        /\ Rising(Append(ops, o))
    BY <1>0, <2>1, LastOf
  <2> QED  BY <1>1, <2>2
<1>3. InHist' = InHist /\ InHand' = InHand /\ InWrite' = InWrite /\ InCur' = InCur
  BY <1>1 DEF InHist, InHand, InWrite, InCur
<1>4. PipeTypes' /\ Sharded'
  BY <1>1, <1>2 DEF PipeTypes, Sharded
<1>5. InOrder'
  <2>1. ASSUME NEW S PROVE Before(S, {o}) /\ Before({o}, S)
    BY <1>0 DEF Before
  <2>2. ASSUME NEW S, Before(Elements(ops), S) PROVE Before(Elements(ops)', S)
    BY <1>2, <2>1, <2>2 DEF Before
  <2>3. ASSUME NEW S, Before(S, Elements(ops)) PROVE Before(S, Elements(ops)')
    BY <1>2, <2>1, <2>3 DEF Before
  <2> QED  BY <1>1, <1>2, <1>3, <2>2, <2>3 DEF InOrder
<1>6. KeyRead'
  BY <1>0, <1>1, <1>2 DEF KeyRead
<1>7. /\ ToDo' = ToDo \union {o} /\ OnWay' = OnWay \union {o}
  BY <1>1, <1>2, <1>3 DEF OnWay, ToDo
<1>8. ASSUME NEW m, NEW k \in {"add", "delete"} PROVE Pending(m, k)' <=> Pending(m, k)
  BY <1>0, <1>7 DEF Pending
<1>9. Preserves
  <2>1. Labelled' \subseteq Labelled
    BY <1>0, <1>1, <1>2, <1>3, <1>7 DEF Labelled
  <2> QED  BY <1>1, <1>7, <2>1 DEF Preserves, Busy, Failing
<1> QED
  BY <1>0, <1>4, <1>5, <1>6, <1>7, <1>8, <1>9 DEF Moves, Carried, Keeps

-----------------------------------------------------------------------------
(* The workers                                                             *)

(* No operation of the message of an addition is ahead of it: the record   *)
(* is the first of the message.                                            *)
LEMMA AdditionFirst ==
    ASSUME UpdateInv, NEW a \in OnWay, a.op = "add",
           NEW x \in OnWay, Real(x), x.msg = a.msg
    PROVE  ~(x.hid < a.hid)
<1> USE DEF UpdateInv
<1>1. /\ a.hid \in DOMAIN log /\ log[a.hid].msg = a.msg /\ log[a.hid].op = "add"
      /\ x.hid \in DOMAIN log /\ log[x.hid].msg = x.msg
  BY DEF FromLog, Real
<1> QED  BY <1>1 DEF MailboxInv, RecordHolds

(* A message that a worker adds has its key read from a cache that no      *)
(* write of the message is changing.                                       *)
LEMMA AdditionAlone ==
    ASSUME UpdateInv, NEW a \in InHand \union Elements(ops), a.op = "add"
    PROVE  pc \in Writing => ~(Real(cur) /\ cur.msg = a.msg)
<1> SUFFICES ASSUME pc \in Writing, Real(cur), cur.msg = a.msg PROVE FALSE
  OBVIOUS
<1>1. cur \in InWrite /\ cur \in OnWay /\ a \in OnWay
  BY DEF InWrite, OnWay
<1>2. cur.hid < a.hid
  BY <1>1 DEF UpdateInv, InOrder, Before, Real
<1> QED  BY <1>1, <1>2, AdditionFirst

(* The operation in the hand of the main goroutine is to be written.       *)
LEMMA CurReal ==
    ASSUME UpdateInv, pc \in Writing
    PROVE  Real(cur) /\ cur \in Ops /\ cur.msg \in Msgs /\ cur \in OnWay
<1>1. Real(cur)
  BY DEF UpdateInv, CurKind, UpdateRun, Real, Writing
<1> QED  BY <1>1 DEF UpdateInv, UpdateTypes, Ops, OnWay, InWrite

(* A message with a key has a file, while nothing of it is written.        *)
LEMMA KeyMirrored ==
    ASSUME UpdateInv, NEW m \in Msgs \ cut, ~(pc \in Writing /\ cur.msg = m),
           keyOf[m] # {}
    PROVE  m \in Mirror
<1>1. One(m)
  BY DEF UpdateInv, StoreInv, MidWrite
<1> QED  BY <1>1 DEF One, Mirror

(* A worker's handling of its event.  What it drops is not needed.         *)
LEMMA HandStep ==
    ASSUME UpdateInv, NEW s \in Shards, NEW w \in hand[s],
           LookUp(s, w) \/ FetchBody(s, w) \/ FetchMetadata(s, w) \/ OpenFile(s, w)
    PROVE  /\ Moves
           /\ \A m \in Msgs : \A k \in {"add", "delete"} :
                 /\ Pending(m, k)' => Pending(m, k)
                 /\ Pending(m, k) => \/ Pending(m, k)'
                                     \/ k = "add" /\ m \notin Lost => m \notin live \ Mirror
                 /\ k = "delete" => (Pending(m, k)' <=> Pending(m, k))
<1> USE DEF UpdateInv
<1>0. /\ w \in Hands /\ w.o \in Ops /\ w.o.msg \in Msgs /\ w.o.hid \in Nat
      /\ w.o \in InHand /\ w.key \subseteq Nat /\ keyOf[w.o.msg] \subseteq Nat
  BY InPlaces DEF Hands, Ops, StoreInv
<1>1. UNCHANGED <<event, histEvents, ops, pc, cur, keyOf>>
  BY DEF LookUp, FetchBody, FetchMetadata, OpenFile, Handling, Reading, store, writer, reader
<1>2. /\ w.at \in {"new", "body", "meta"} => w.o.op = "add"
      /\ w.at = "open" => w.o.op = "labels"
      /\ w.o.op = "add" /\ w.at # "new" => w.key = keyOf[w.o.msg]
      /\ w.o.op = "add" /\ w.at \in {"body", "put"} => w.key = {}
  BY DEF KeyRead
<1>3. CASE LookUp(s, w)
  <2> PICK v : v = [at |-> IF keyOf[w.o.msg] = {} THEN "body" ELSE "meta", o |-> w.o,
                    key |-> keyOf[w.o.msg]]
    OBVIOUS
  <2>1. v \in Hands /\ v.o = w.o /\ v.key = keyOf[w.o.msg] /\ v.at \in {"body", "meta"}
        /\ (v.at = "body" => v.key = {})
    BY <1>0 DEF Hands
  <2>2. hand' = [hand EXCEPT ![s] = {v}] /\ w.at = "new"
    BY <1>3 DEF LookUp, Holds
  <2> QED  BY <1>1, <1>2, <2>1, <2>2, HoldMoves DEF Keeps
<1>4. CASE FetchBody(s, w)
  <2>0. w.at = "body" /\ w.o.op = "add" /\ w.key = {} /\ keyOf[w.o.msg] = {}
    BY <1>2, <1>4 DEF FetchBody
  <2>1. CASE w.o.msg \in Readable /\ Holds(s, "meta", w.o, {})
    <3> PICK v : v = [at |-> "meta", o |-> w.o, key |-> {}]
      OBVIOUS
    <3>1. v \in Hands /\ v.o = w.o /\ v.key = {} /\ v.at = "meta"
      BY <1>0 DEF Hands
    <3>2. hand' = [hand EXCEPT ![s] = {v}]
      BY <2>1 DEF Holds
    <3>3. v.key = keyOf[v.o.msg] /\ v.o.op = "add"
      BY <2>0, <3>1
    <3>4. Moves /\ Keeps
      BY <1>1, <3>1, <3>2, <3>3, HoldMoves
    <3> QED  BY <3>4 DEF Keeps
  <2>2. CASE w.o.msg \notin Readable /\ Holds(s, "put", NoOp(w.o.msg), {})
    <3> PICK v : v = [at |-> "put", o |-> NoOp(w.o.msg), key |-> {}]
      OBVIOUS
    <3>1. v \in Hands /\ v.o.msg = w.o.msg /\ v.o.op = "none" /\ v.key = {} /\ v.at = "put"
          /\ ~Real(v.o)
      BY <1>0 DEF Hands, Ops, NoOp, Real
    <3>2. hand' = [hand EXCEPT ![s] = {v}]
      BY <2>2 DEF Holds
    <3>3. /\ Moves
          /\ \A m \in Msgs : \A k \in {"add", "delete"} :
                /\ Pending(m, k)' => Pending(m, k)
                /\ Pending(m, k) => Pending(m, k)' \/ (m = w.o.msg /\ k = w.o.op)
      BY <1>1, <3>1, <3>2, HoldMoves
    <3>4. w.o.msg \notin Lost => w.o.msg \notin live \ Mirror
      BY <2>2 DEF Readable
    <3> QED  BY <2>0, <3>3, <3>4
  <2> QED  BY <1>4, <2>1, <2>2 DEF FetchBody
<1>5. CASE FetchMetadata(s, w)
  <2>0. w.at = "meta" /\ w.o.op = "add" /\ w.key = keyOf[w.o.msg]
    BY <1>2, <1>5 DEF FetchMetadata
  <2>1. CASE w.o.msg \notin live /\ Holds(s, "put", [w.o EXCEPT !.op = "error"], {})
    <3> PICK v : v = [at |-> "put", o |-> [w.o EXCEPT !.op = "error"], key |-> {}]
      OBVIOUS
    <3>1. v \in Hands /\ v.o.msg = w.o.msg /\ v.o.op = "error" /\ v.key = {} /\ v.at = "put"
          /\ ~Real(v.o)
      BY <1>0 DEF Hands, Ops, Real
    <3>2. hand' = [hand EXCEPT ![s] = {v}]
      BY <2>1 DEF Holds
    <3>3. /\ Moves
          /\ \A m \in Msgs : \A k \in {"add", "delete"} :
                /\ Pending(m, k)' => Pending(m, k)
                /\ Pending(m, k) => Pending(m, k)' \/ (m = w.o.msg /\ k = w.o.op)
      BY <1>1, <3>1, <3>2, HoldMoves
    <3> QED  BY <2>0, <2>1, <3>3
  <2>2. ASSUME w.o.msg \in live,
               NEW k, k = Kind(w.o.msg, lab[w.o.msg], w.key),
               Holds(s, IF k = "labels" THEN "open" ELSE "put",
                        [w.o EXCEPT !.op = k, !.labels = lab[w.o.msg]], w.key)
        PROVE  /\ Moves
               /\ \A m \in Msgs : \A j \in {"add", "delete"} :
                     /\ Pending(m, j)' => Pending(m, j)
                     /\ Pending(m, j) => \/ Pending(m, j)'
                                         \/ j = "add" /\ m \notin Lost => m \notin live \ Mirror
                     /\ j = "delete" => (Pending(m, j)' <=> Pending(m, j))
    <3>v. PICK v : v = [at |-> IF k = "labels" THEN "open" ELSE "put",
                        o |-> [w.o EXCEPT !.op = k, !.labels = lab[w.o.msg]], key |-> w.key]
      OBVIOUS
    <3>0. k \in {"add", "labels", "none"} /\ (k = "add" <=> w.key = {})
      BY <2>2 DEF Kind
    <3>1. v.o \in Ops /\ v.o.msg = w.o.msg /\ v.o.hid = w.o.hid /\ v.o.op = k
      BY <1>0, <3>v, <3>0 DEF Ops, MailboxInv, MailboxTypeOK
    <3>2. /\ v \in Hands /\ v.key = w.key /\ v.at \in {"open", "put"}
          /\ v.at = "open" => k = "labels"
      BY <1>0, <3>v, <3>1 DEF Hands
    <3>3. hand' = [hand EXCEPT ![s] = {v}]
      BY <2>2, <3>v DEF Holds
    <3>4. Real(w.o)
      BY <2>0 DEF Real
    <3>5. /\ Moves
          /\ \A m \in Msgs : \A j \in {"add", "delete"} :
                /\ Pending(m, j)' => Pending(m, j)
                /\ Pending(m, j) => Pending(m, j)' \/ (m = w.o.msg /\ j = w.o.op)
          /\ v.o.op = w.o.op => Keeps
      <4>1. /\ v.o.msg = w.o.msg
            /\ Real(v.o) => Real(w.o) /\ v.o.hid = w.o.hid
            /\ v.o.op \in {"add", "delete"} => v.o.op = w.o.op
            /\ v.at \in {"new", "body", "meta"} => v.o.op = "add"
            /\ v.at = "open" => v.o.op = "labels"
        BY <2>0, <3>0, <3>1, <3>2, <3>4
      <4>2. /\ v.o.op = "add" /\ v.at # "new" => v.key = keyOf[v.o.msg]
            /\ v.o.op = "add" /\ v.at \in {"body", "put"} => v.key = {}
        BY <2>0, <3>0, <3>1, <3>2
      <4>3. v \in Hands
        BY <3>2
      <4> HIDE DEF UpdateInv
      <4> QED  BY <1>1, <3>3, <4>1, <4>2, <4>3, HoldMoves
    <3>6. k # "add" /\ w.o.msg \notin Lost => w.o.msg \in Mirror
      <4> SUFFICES ASSUME k # "add", w.o.msg \notin Lost PROVE w.o.msg \in Mirror
        OBVIOUS
      <4>1. keyOf[w.o.msg] # {}
        BY <2>0, <3>0
      <4>2. ~(pc \in Writing /\ cur.msg = w.o.msg)
        BY <1>0, <2>0, AdditionAlone, CurReal
      <4> QED  BY <1>0, <4>1, <4>2, KeyMirrored
    <3> QED  BY <2>0, <3>1, <3>5, <3>6 DEF Keeps
  <2> QED  BY <1>5, <2>1, <2>2 DEF FetchMetadata
<1>6. CASE OpenFile(s, w)
  <2>0. w.at = "open" /\ w.o.op = "labels"
    BY <1>2, <1>6 DEF OpenFile
  <2> PICK v : v = [at |-> "put",
                    o |-> IF FilesAt(w.key) = {} THEN [w.o EXCEPT !.op = "error"] ELSE w.o,
                    key |-> {}]
    OBVIOUS
  <2>1. v.o \in Ops /\ v.o.msg = w.o.msg /\ v.o.hid = w.o.hid /\ v.o.op \in {"labels", "error"}
    BY <1>0, <2>0 DEF Ops
  <2>2. v \in Hands /\ v.at = "put"
    BY <2>1 DEF Hands
  <2>3. hand' = [hand EXCEPT ![s] = {v}]
    BY <1>6 DEF OpenFile, Holds
  <2>4. Real(w.o)
    BY <2>0 DEF Real
  <2>5. /\ Moves
        /\ \A m \in Msgs : \A j \in {"add", "delete"} :
              /\ Pending(m, j)' => Pending(m, j)
              /\ Pending(m, j) => Pending(m, j)' \/ (m = w.o.msg /\ j = w.o.op)
    BY <1>1, <2>0, <2>1, <2>2, <2>3, <2>4, HoldMoves
  <2> QED  BY <2>0, <2>5
<1> QED  BY <1>3, <1>4, <1>5, <1>6

-----------------------------------------------------------------------------
(* The main goroutine                                                      *)

(* A step of a write in an update.                                         *)
LEMMA UpdateFramed ==
    ASSUME UpdateInv, WriteOp
    PROVE  /\ WriteFrame /\ WriteResult /\ pc \in Writing /\ cur' = cur
           /\ UNCHANGED <<mailbox, historyIdx, reader, channels, cutOff>>
           /\ pc' \in (Writing \ {"write"}) \union {"written", "failed"}
           /\ fresh' \subseteq Nat /\ CurKind'
<1> USE DEF UpdateInv
<1>1. pc \in Writing /\ cur' = cur
  BY DEF WriteOp, WriteOperation, WriteAdd, WriteLabels, SetMsgLabels, SetMsgKey, RemoveOld,
     WriteDel, Remove, DelMsgKey, DelMsgLabels, Goto, Writing
<1>2. UNCHANGED <<historyIdx, reader, channels, cutOff>>
  BY DEF WriteOp
<1>3. WriteFrame
  BY <1>1, <1>2, CurReal DEF WriteFrame, UpdateTypes, KeyRead, cutOff
<1>4. WriteResult /\ fresh' \subseteq Nat
  BY <1>3, WriteStore, FreshType DEF WriteOp
<1>5. mailbox' = mailbox
  BY DEF WriteOp, WriteOperation, WriteAdd, WriteLabels, SetMsgLabels, SetMsgKey, RemoveOld,
     WriteDel, Remove, DelMsgKey, DelMsgLabels, Goto, Deliver
<1>6. pc' \in (Writing \ {"write"}) \union {"written", "failed"} /\ CurKind'
  BY <1>1 DEF WriteOp, WriteOperation, WriteAdd, WriteLabels, SetMsgLabels, SetMsgKey,
     RemoveOld, WriteDel, Remove, DelMsgKey, DelMsgLabels, Goto, Writing, CurKind
<1> QED  BY <1>1, <1>2, <1>3, <1>4, <1>5, <1>6

(* A message gets its file with the first step of an addition and loses it *)
(* with the first step of a deletion.                                      *)
LEMMA MirrorWrite ==
    ASSUME UpdateInv, WriteOp, NEW m \in Msgs \ cut
    PROVE  /\ m # cur.msg \/ pc # "write" \/ cur.op = "labels" =>
                  (m \in Mirror' <=> m \in Mirror)
           /\ m = cur.msg /\ pc = "write" /\ cur.op = "add" => m \in Mirror'
           /\ m = cur.msg /\ pc = "write" /\ cur.op = "delete" => m \notin Mirror'
<1> USE DEF UpdateInv
<1>0. \A x \in Msgs : (x \in Mirror <=> FilesOf(x) # {}) /\ (x \in Mirror' <=> FilesOf(x)' # {})
  BY DEF Mirror
<1>1. ASSUME m # cur.msg PROVE FilesOf(m)' = FilesOf(m)
  <2>1. \A x \in Msgs \ {cur.msg} : x \notin cut => FilesOf(x)' = FilesOf(x)
    BY UpdateFramed DEF WriteResult
  <2> QED  BY <1>1, <2>1
<1>2. ASSUME files' = files PROVE FilesOf(m)' = FilesOf(m)
  BY <1>2 DEF FilesOf
<1>3. ASSUME m = cur.msg, Deliver(cur.msg, cur.labels) PROVE FilesOf(m)' # {}
  BY <1>3, DeliverFile
<1>4. ASSUME pc = "write" PROVE One(m)
  BY <1>4 DEF StoreInv, MidWrite
<1>5. CASE m # cur.msg
  BY <1>0, <1>1, <1>5
<1>6. CASE m = cur.msg
  <2>1. CASE WriteAdd
    BY <1>0, <1>3, <1>6, <2>1 DEF WriteAdd
  <2>2. CASE WriteLabels
    <3>1. pc = "write" /\ cur.op = "labels"
      BY <2>2 DEF WriteLabels
    <3>2. CASE files' = files
      BY <1>0, <1>2, <3>1, <3>2
    <3>3. CASE FilesAt(keyOf[cur.msg]) # {} /\ Deliver(cur.msg, cur.labels)
      <4>1. keyOf[m] # {}
        BY <1>6, <3>3 DEF FilesAt
      <4>2. FilesOf(m) # {}
        BY <1>4, <3>1, <4>1 DEF One
      <4> QED  BY <1>0, <1>3, <1>6, <3>1, <3>3, <4>2
    <3> QED  BY <2>2, <3>2, <3>3 DEF WriteLabels, store
  <2>3. CASE SetMsgLabels \/ SetMsgKey \/ DelMsgKey \/ DelMsgLabels
    BY <1>0, <1>2, <2>3 DEF SetMsgLabels, SetMsgKey, DelMsgKey, DelMsgLabels
  <2>4. CASE RemoveOld
    <3>1. pc = "remove"
      BY <2>4 DEF RemoveOld
    <3>2. CASE files' = files
      BY <1>0, <1>2, <3>1, <3>2
    <3>3. CASE files' = files \ FilesAt(fresh)
      <4>1. Replaced(m) /\ FreshApart
        BY <1>6, <3>1 DEF StoreInv, MidWrite, Writing
      <4>2. PICK f \in FilesOf(m) : f.key \in keyOf[m]
        BY <4>1 DEF Replaced
      <4>3. f.key \notin fresh
        BY <4>1, <4>2 DEF FreshApart
      <4>4. f \in FilesOf(m)'
        BY <3>3, <4>3, RemoveFiles
      <4> QED  BY <1>0, <3>1, <4>2, <4>4
    <3> QED  BY <2>4, <3>2, <3>3 DEF RemoveOld, Remove
  <2>5. CASE WriteDel
    <3>1. pc = "write" /\ cur.op = "delete"
      BY <2>5 DEF WriteDel
    <3>2. CASE keyOf[cur.msg] = {} /\ files' = files
      BY <1>0, <1>2, <1>4, <1>6, <3>1, <3>2 DEF One
    <3>3. CASE pc' = "failed"
      BY <1>6, <3>3, UpdateFramed DEF WriteResult
    <3>4. CASE pc' = "delkey"
      <4>1. StoreInv' /\ cur' = cur /\ cut' = cut
        BY UpdateFramed DEF WriteResult, cutOff
      <4>2. MidWrite(m)' /\ m \in Msgs \ cut'
        BY <1>6, <3>4, <4>1 DEF MidWrite, Writing
      <4>3. FilesOf(m)' = {}
        BY <3>4, <4>1, <4>2 DEF StoreInv
      <4> QED  BY <1>0, <1>6, <3>1, <4>3
    <3> QED  BY <2>5, <3>2, <3>3, <3>4 DEF WriteDel, Remove, Goto
  <2> QED  BY <2>1, <2>2, <2>3, <2>4, <2>5 DEF WriteOp, WriteOperation
<1> QED  BY <1>5, <1>6

(* A write takes the operation it begins from what is to be done.          *)
LEMMA WriteMoves ==
    ASSUME UpdateInv, WriteOp
    PROVE  /\ Moves
           /\ \A m \in Msgs : \A k \in {"add", "delete"} :
                 /\ Pending(m, k)' => Pending(m, k)
                 /\ Pending(m, k) => \/ Pending(m, k)'
                                     \/ pc = "write" /\ m = cur.msg /\ k = cur.op
<1> USE DEF UpdateInv
<1>0. /\ pc \in Writing /\ cur' = cur /\ Real(cur) /\ cur.msg \in Msgs
      /\ event' = event /\ histEvents' = histEvents /\ hand' = hand /\ ops' = ops
      /\ pc' # "write"
  BY UpdateFramed, CurReal DEF reader, channels, Writing
<1>1. /\ InHist' = InHist /\ InHand' = InHand /\ Elements(ops)' = Elements(ops)
      /\ InWrite' \subseteq InWrite /\ InCur' = {}
  BY <1>0 DEF InHist, InHand, InWrite, InCur, Elements
<1>2. PipeTypes' /\ Sharded'
  BY <1>0 DEF PipeTypes, Sharded
<1>3. InOrder'
  <2>1. ASSUME NEW S, Before(InWrite, S) PROVE Before(InWrite', S)
    BY <1>1, <2>1 DEF Before
  <2> QED  BY <1>0, <1>1, <2>1 DEF InOrder
<1>4. KeyRead'
  <2>1. \A x \in Msgs \ {cur.msg} : keyOf'[x] = keyOf[x]
    BY UpdateFramed DEF WriteResult
  <2>2. ASSUME NEW a \in InHand \union Elements(ops), a.op = "add"
        PROVE  keyOf'[a.msg] = keyOf[a.msg]
    <3>1. a.msg # cur.msg
      BY <1>0, <2>2, AdditionAlone
    <3>2. a.msg \in Msgs
      <4>1. Elements(ops) \subseteq Ops
        BY DEF PipeTypes, Elements
      <4>2. InHand \subseteq Ops
        BY InPlaces DEF InHand
      <4> QED  BY <4>1, <4>2 DEF Ops
    <3> QED  BY <2>1, <3>1, <3>2
  <2>3. \A s \in Shards : \A w \in hand[s] : w.o \in InHand
    BY InPlaces
  <2> QED  BY <1>0, <1>1, <2>2, <2>3 DEF KeyRead
<1>5. Carried
  <2>1. OnWay' \subseteq OnWay
    BY <1>0, <1>1 DEF OnWay
  <2> QED  BY <2>1 DEF Carried
<1>6. ToDo = ToDo' \union InCur
  BY <1>0, <1>1 DEF ToDo
<1>7. ASSUME NEW m \in Msgs, NEW k \in {"add", "delete"}
      PROVE  /\ Pending(m, k)' => Pending(m, k)
             /\ Pending(m, k) => \/ Pending(m, k)'
                                 \/ pc = "write" /\ m = cur.msg /\ k = cur.op
  BY <1>6 DEF Pending, InCur
<1> QED
  BY <1>2, <1>3, <1>4, <1>5, <1>7 DEF Moves

(* What is left of a message's records once one of them is written.        *)
LEMMA WriteDone ==
    ASSUME UpdateInv, WriteOp
    PROVE  DeletesLast' /\ Presence'
<1> USE DEF UpdateInv
<1>0. /\ UNCHANGED <<mailbox, log, live, historyId, cut>>
      /\ Real(cur) /\ cur \in Ops /\ cur.msg \in Msgs /\ cur \in OnWay /\ pc \in Writing
  BY UpdateFramed, CurReal DEF mailbox, reader, cutOff
<1>1. \A m \in Msgs : \A k \in {"add", "delete"} :
          /\ Pending(m, k)' => Pending(m, k)
          /\ Pending(m, k) => Pending(m, k)' \/ (pc = "write" /\ m = cur.msg /\ k = cur.op)
  BY WriteMoves
<1>2. /\ cur.hid \in DOMAIN log /\ log[cur.hid].msg = cur.msg /\ RecordHolds(cur.hid)
      /\ cur.op = "add" => log[cur.hid].op = "add"
      /\ cur.op = "delete" => log[cur.hid].op = "delete"
  BY <1>0 DEF FromLog, MailboxInv
<1>3. \A n \in DOMAIN log : log[n].msg \in Msgs
  BY DEF MailboxInv, MailboxTypeOK, Records
<1>4. DeletesLast'
  <2> SUFFICES ASSUME NEW m \in Msgs, NEW n \in DOMAIN log, n <= historyId,
                      log[n].op = "delete", log[n].msg = m, Pending(m, "add")'
               PROVE  Pending(m, "delete")'
    BY <1>0, <1>3 DEF DeletesLast
  <2>1. Pending(m, "add") /\ Pending(m, "delete")
    BY <1>1 DEF DeletesLast
  <2>2. ASSUME pc = "write", m = cur.msg, cur.op = "delete" PROVE FALSE
    <3>1. PICK a \in ToDo : a.msg = m /\ a.op = "add"
      BY <2>1 DEF Pending
    <3>2. a \in event \union InHist \union InHand \union Elements(ops)
      BY <2>2, <3>1 DEF ToDo, InCur
    <3>3. cur \in InWrite /\ a \in OnWay
      BY <1>0, <3>2 DEF InWrite, OnWay
    <3>4. cur.hid < a.hid
      BY <1>0, <2>2, <3>1, <3>2, <3>3 DEF InOrder, Before, Real
    <3> QED  BY <1>0, <2>2, <3>1, <3>3, <3>4, AdditionFirst
  <2> QED  BY <1>1, <2>1, <2>2
<1>5. ASSUME NEW m \in Msgs \ Lost, m \in live \ Mirror' PROVE Due(m, "add")'
  <2>1. ~(pc = "write" /\ m = cur.msg /\ cur.op = "add")
    BY <1>5, MirrorWrite
  <2>2. ~(pc = "write" /\ m = cur.msg /\ cur.op = "delete")
    BY <1>2, <1>5 DEF RecordHolds
  <2>3. m \in live \ Mirror
    BY <1>0, <1>5, <2>1, <2>2, MirrorWrite DEF Real
  <2>4. Due(m, "add")
    BY <1>5, <2>3 DEF Presence
  <2> QED  BY <1>0, <1>1, <2>1, <2>4 DEF Due, Ahead
<1>6. ASSUME NEW m \in Msgs \ Lost, m \in Mirror' \ live PROVE Due(m, "delete")'
  <2>1. ~(pc = "write" /\ m = cur.msg /\ cur.op = "delete")
    BY <1>6, MirrorWrite
  <2>2. CASE pc = "write" /\ m = cur.msg /\ cur.op = "add"
    <3>1. PICK k \in Ahead(cur.hid) : log[k].msg = m /\ log[k].op = "delete"
      BY <1>2, <1>6, <2>2 DEF RecordHolds
    <3>2. k \in DOMAIN log
      BY <3>1 DEF Ahead
    <3>3. CASE k \in Ahead(historyId)
      BY <1>0, <3>1, <3>3 DEF Due, Ahead
    <3>4. CASE k \notin Ahead(historyId)
      <4>1. k <= historyId
        BY <3>2, <3>4, MailboxAssumption DEF Ahead, UpdateTypes, MailboxInv, MailboxTypeOK
      <4>2. Pending(m, "add")
        BY <2>2 DEF Pending, ToDo, InCur
      <4>3. Pending(m, "delete")
        BY <3>1, <3>2, <4>1, <4>2 DEF DeletesLast
      <4> QED  BY <1>1, <2>1, <4>3 DEF Due
    <3> QED  BY <3>3, <3>4
  <2>3. CASE ~(pc = "write" /\ m = cur.msg /\ cur.op = "add")
    <3>1. m \in Mirror \ live
      BY <1>0, <1>6, <2>1, <2>3, MirrorWrite DEF Real
    <3>2. Due(m, "delete")
      BY <1>6, <3>1 DEF Presence
    <3> QED  BY <1>0, <1>1, <2>1, <3>2 DEF Due, Ahead
  <2> QED  BY <2>2, <2>3
<1> QED
  BY <1>0, <1>4, <1>5, <1>6 DEF Presence

-----------------------------------------------------------------------------
(* Steps that only move operations                                         *)

(* What is due stays due when operations only move on.                     *)
LEMMA MoveStep ==
    ASSUME UpdateInv, Moves,
           UNCHANGED <<log, live, files, historyIdx, historyId, cut>>,
           \A m \in Msgs : \A k \in {"add", "delete"} :
                 /\ Pending(m, k)' => Pending(m, k)
                 /\ Pending(m, k) => \/ Pending(m, k)'
                                     \/ k = "add" /\ m \notin Lost => m \notin live \ Mirror
                 /\ k = "delete" => (Pending(m, k)' <=> Pending(m, k))
    PROVE  FromLog' /\ DeletesLast' /\ Presence'
<1> USE DEF UpdateInv
<1>1. Carried
  BY DEF Moves
<1>2. FromLog'
  <2> SUFFICES ASSUME NEW x \in OnWay', Real(x)
               PROVE  /\ x.hid \in DOMAIN log /\ historyIdx < x.hid /\ x.hid <= historyId
                      /\ log[x.hid].msg = x.msg
                      /\ x.op = "add" => log[x.hid].op = "add"
                      /\ x.op = "delete" => log[x.hid].op = "delete"
    BY DEF FromLog
  <2> PICK y \in OnWay : /\ Real(y) /\ y.msg = x.msg /\ y.hid = x.hid
                         /\ x.op \in {"add", "delete"} => y.op = x.op
    BY <1>1 DEF Carried
  <2> QED  BY DEF FromLog
<1>3. Mirror' = Mirror
  BY DEF Mirror, FilesOf
<1>4. \A n \in DOMAIN log : log[n].msg \in Msgs
  BY DEF MailboxInv, MailboxTypeOK, Records
<1>5. DeletesLast'
  <2> SUFFICES ASSUME NEW m \in Msgs, NEW n \in DOMAIN log, n <= historyId,
                      log[n].op = "delete", log[n].msg = m, Pending(m, "add")'
               PROVE  Pending(m, "delete")'
    BY <1>4 DEF DeletesLast
  <2>1. Pending(m, "add") /\ Pending(m, "delete")
    BY DEF DeletesLast
  <2> QED  BY <2>1
<1>6. ASSUME NEW m \in Msgs \ Lost, m \in live \ Mirror PROVE Due(m, "add")'
  <2>1. Due(m, "add")
    BY <1>6 DEF Presence
  <2>2. Pending(m, "add") => Pending(m, "add")'
    BY <1>6
  <2> QED  BY <2>1, <2>2 DEF Due, Ahead
<1>7. ASSUME NEW m \in Msgs \ Lost, m \in Mirror \ live PROVE Due(m, "delete")'
  <2>1. Due(m, "delete")
    BY <1>7 DEF Presence
  <2> QED  BY <2>1 DEF Due, Ahead
<1>8. Presence'
  BY <1>3, <1>6, <1>7 DEF Presence
<1> QED  BY <1>2, <1>5, <1>8

(* The steps of the reader and of the workers, save for the next record.   *)
LEMMA PipeStep ==
    ASSUME UpdateInv,
           \/ HistoryGone \/ GetHistory \/ SendEvent \/ RecordsDone
           \/ \E s \in Shards : TakeEvent(s)
           \/ \E s \in Shards : \E w \in hand[s] :
                 LookUp(s, w) \/ FetchBody(s, w) \/ FetchMetadata(s, w) \/ OpenFile(s, w)
           \/ \E s \in Shards : \E w \in hand[s] : Put(s, w)
    PROVE  /\ Moves /\ FromLog' /\ DeletesLast' /\ Presence'
           /\ UNCHANGED <<mailbox, store, pc, writer, historyIdx, historyId, cutOff>>
<1> USE DEF UpdateInv
<1>1. UNCHANGED <<mailbox, store, pc, writer, historyIdx, historyId, cutOff>>
  BY DEF HistoryGone, GetHistory, SendEvent, RecordsDone, TakeEvent, LookUp, FetchBody,
     FetchMetadata, OpenFile, Put, Handling, Reading, reader
<1>2. UNCHANGED <<log, live, files, keyOf, pc, cur, cut>>
  BY <1>1 DEF mailbox, store, writer, cutOff
<1>3. CASE GetHistory \/ RecordsDone
  <2>1. UNCHANGED <<event, histEvents, hand, ops>>
    BY <1>3 DEF GetHistory, RecordsDone, channels
  <2>2. Moves /\ Keeps
    BY <1>2, <2>1, StillMoves
  <2> QED  BY <1>1, <1>2, <2>2, MoveStep DEF Keeps
<1>4. CASE HistoryGone \/ SendEvent
  <2>1. Moves /\ Keeps
    BY <1>4, GoneMoves, SendMoves
  <2> QED  BY <1>1, <1>2, <2>1, MoveStep DEF Keeps
<1>5. ASSUME NEW s \in Shards, TakeEvent(s) \/ \E w \in hand[s] : Put(s, w)
      PROVE  /\ Moves /\ FromLog' /\ DeletesLast' /\ Presence'
  <2>1. Moves /\ Keeps
    BY <1>5, TakeMoves, PutMoves
  <2> QED  BY <1>1, <1>2, <2>1, MoveStep DEF Keeps
<1>6. ASSUME NEW s \in Shards, NEW w \in hand[s],
             LookUp(s, w) \/ FetchBody(s, w) \/ FetchMetadata(s, w) \/ OpenFile(s, w)
      PROVE  /\ Moves /\ FromLog' /\ DeletesLast' /\ Presence'
  BY <1>1, <1>2, <1>6, HandStep, MoveStep
<1> DEFINE Handed == Moves /\ FromLog' /\ DeletesLast' /\ Presence'
<1>7. (\E s \in Shards : TakeEvent(s)) => Handed
  BY <1>5
<1>8. (\E s \in Shards : \E w \in hand[s] : Put(s, w)) => Handed
  BY <1>5
<1>9. (\E s \in Shards : \E w \in hand[s] :
          LookUp(s, w) \/ FetchBody(s, w) \/ FetchMetadata(s, w) \/ OpenFile(s, w)) => Handed
  BY <1>6
<1>10. HistoryGone \/ GetHistory \/ SendEvent \/ RecordsDone => Handed
  BY <1>3, <1>4
<1>11. Handed
  <2> HIDE DEF Handed, UpdateInv
  <2> QED  BY <1>7, <1>8, <1>9, <1>10
<1> HIDE DEF UpdateInv
<1> QED  BY <1>1, <1>11, ZenonT(40)

(* The steps of the main goroutine within an update.                       *)
LEMMA MainStep ==
    ASSUME UpdateInv, TakeOp \/ WriteOp \/ OpWritten
    PROVE  /\ Moves /\ FromLog' /\ DeletesLast' /\ Presence'
           /\ UNCHANGED <<mailbox, historyIdx, reader, cutOff>>
<1> USE DEF UpdateInv
<1>1. UNCHANGED <<mailbox, historyIdx, reader, cutOff>>
  BY UpdateFramed DEF TakeOp, OpWritten
<1>2. UNCHANGED <<log, live, historyId, cut>>
  BY <1>1 DEF mailbox, cutOff, reader
<1>3. CASE TakeOp
  <2>1. Moves /\ Keeps /\ files' = files
    BY <1>3, OpMoves DEF TakeOp, store
  <2> QED  BY <1>1, <1>2, <2>1, MoveStep DEF Keeps
<1>4. CASE OpWritten
  <2>1. UNCHANGED <<event, histEvents, hand, ops, keyOf, files>>
    BY <1>4 DEF OpWritten, reader, channels, store
  <2>2. {pc, pc'} \intersect Writing = {} /\ pc # "failed"
    BY <1>4 DEF OpWritten, Writing
  <2>3. Moves /\ Keeps
    BY <2>1, <2>2, StillMoves
  <2> QED  BY <1>1, <1>2, <2>1, <2>3, MoveStep DEF Keeps
<1>5. CASE WriteOp
  <2>1. Moves /\ DeletesLast' /\ Presence'
    BY <1>5, WriteMoves, WriteDone
  <2>2. FromLog'
    <3>1. Carried
      BY <2>1 DEF Moves
    <3> SUFFICES ASSUME NEW x \in OnWay', Real(x)
                 PROVE  /\ x.hid \in DOMAIN log /\ historyIdx < x.hid /\ x.hid <= historyId
                        /\ log[x.hid].msg = x.msg
                        /\ x.op = "add" => log[x.hid].op = "add"
                        /\ x.op = "delete" => log[x.hid].op = "delete"
      BY <1>1, <1>2 DEF FromLog
    <3> PICK y \in OnWay : /\ Real(y) /\ y.msg = x.msg /\ y.hid = x.hid
                           /\ x.op \in {"add", "delete"} => y.op = x.op
      BY <3>1 DEF Carried
    <3> QED  BY DEF FromLog
  <2> QED  BY <1>1, <2>1, <2>2
<1> QED  BY <1>3, <1>4, <1>5

-----------------------------------------------------------------------------
(* The next record                                                         *)

(* What becomes of record n: an addition or a deletion is always an event. *)
LEMMA EventIs ==
    ASSUME UpdateInv, NEW n \in DOMAIN log
    PROVE  /\ n \in Nat /\ EventOf(n) \subseteq Ops /\ \A v, w \in EventOf(n) : v = w
           /\ \A o \in EventOf(n) : o.msg = log[n].msg /\ o.hid = n /\ o.op = log[n].op
           /\ log[n].op # "labels" => EventOf(n) # {}
<1> USE DEF UpdateInv
<1> PICK m, L : m = log[n].msg /\ L = ComputeLabels(m, log[n].ladd, log[n].lrem)
  OBVIOUS
<1>0. n \in Nat /\ log[n] \in Records
  BY MailboxAssumption DEF MailboxInv, MailboxTypeOK
<1>1. m \in Msgs /\ labOf[m] \in SUBSET (SUBSET Labels)
  BY <1>0 DEF Records, StoreInv
<1>2. L \in SUBSET Labels
  <2> PICK U, A, R : U = UNION labOf[m] /\ A = log[n].ladd /\ R = log[n].lrem
    OBVIOUS
  <2>1. U \subseteq Labels /\ A \subseteq Labels
    BY <1>0, <1>1 DEF Records
  <2>2. L = A \/ L = (U \union A) \ R
    BY DEF ComputeLabels
  <2>3. CASE L = A
    BY <2>1, <2>3
  <2>4. CASE L = (U \union A) \ R
    BY <2>1, <2>4
  <2> QED  BY <2>2, <2>3, <2>4
<1>3. CASE log[n].op # "labels"
  <2> PICK o : o = [NoOp(m) EXCEPT !.op = log[n].op, !.hid = n]
    OBVIOUS
  <2>1. o \in Ops /\ o.msg = m /\ o.hid = n /\ o.op = log[n].op
    BY <1>0, <1>1 DEF NoOp, Ops, Records
  <2>2. EventOf(n) = {o}
    BY <1>3 DEF EventOf
  <2> QED  BY <1>0, <2>1, <2>2
<1>4. CASE log[n].op = "labels"
  <2> PICK o : o = [op |-> "labels", msg |-> m, labels |-> L, hid |-> n]
    OBVIOUS
  <2>1. o \in Ops /\ o.msg = m /\ o.hid = n /\ o.op = log[n].op
    BY <1>0, <1>1, <1>2, <1>4 DEF Ops
  <2>2. EventOf(n) = {o} \/ EventOf(n) = {}
    BY <1>4 DEF EventOf
  <2> QED  BY <1>0, <1>4, <2>1, <2>2
<1> QED  BY <1>3, <1>4

(* The reader takes the next record, and what was ahead is pending.        *)
LEMMA RecordStep ==
    ASSUME UpdateInv, NextRecord
    PROVE  /\ PipeTypes' /\ Sharded' /\ InOrder' /\ KeyRead' /\ FromLog'
           /\ DeletesLast' /\ Presence'
           /\ UNCHANGED <<mailbox, store, pc, writer, historyIdx, cutOff>>
<1> USE DEF UpdateInv
<1> PICK n : n = historyId + 1
  OBVIOUS
<1>1. /\ historyId' = n /\ event' = EventOf(n) /\ event = {} /\ n \in DOMAIN log
      /\ historyId \in Nat /\ n \in Nat /\ historyIdx \in Nat /\ historyId < n
      /\ historyIdx < n /\ \A k \in Nat : k < n <=> k <= historyId
  <2>1. DOMAIN log = Base + 1 .. top /\ top \in Nat /\ Base \in Nat
    BY MailboxAssumption DEF MailboxInv, MailboxTypeOK
  <2>2. historyId < last /\ last <= top /\ Base <= historyIdx /\ historyIdx <= historyId
    BY DEF NextRecord, UpdateRun
  <2>3. historyId \in Nat /\ last \in Nat /\ historyIdx \in Nat
    BY DEF UpdateTypes
  <2>4. event = {}
    BY DEF NextRecord, UpdateRun
  <2> QED  BY <2>1, <2>2, <2>3, <2>4 DEF NextRecord
<1>2. UNCHANGED <<mailbox, store, pc, writer, historyIdx, cutOff, channels>>
  BY DEF NextRecord, Reading
<1>3. UNCHANGED <<histEvents, hand, ops, log, live, files, keyOf, pc, cur, cut>>
  BY <1>2 DEF channels, mailbox, store, writer, cutOff
<1>4. /\ event' \subseteq Ops /\ \A v, w \in event' : v = w
      /\ \A o \in event' : o.msg = log[n].msg /\ o.hid = n /\ o.op = log[n].op
      /\ log[n].op # "labels" => event' # {}
  BY <1>1, EventIs
<1>5. /\ InHist' = InHist /\ InHand' = InHand /\ Elements(ops)' = Elements(ops)
      /\ InWrite' = InWrite /\ InCur' = InCur
  BY <1>3 DEF InHist, InHand, InWrite, InCur, Elements
<1>6. OnWay' = OnWay \union event' /\ ToDo' = ToDo \union event'
  BY <1>1, <1>5 DEF OnWay, ToDo
<1>7. PipeTypes' /\ Sharded' /\ KeyRead'
  BY <1>3, <1>4, <1>5 DEF PipeTypes, Sharded, KeyRead
<1>8. \A x \in OnWay : Real(x) => x.hid \in Nat /\ x.hid < n
  BY <1>1, EventIs DEF FromLog
<1>9. InOrder'
  <2>1. ASSUME NEW S, S \subseteq OnWay PROVE Before(S, event')
    BY <1>4, <1>8, <2>1 DEF Before
  <2>2. InWrite \subseteq OnWay /\ Elements(ops) \subseteq OnWay /\ InHand \subseteq OnWay
        /\ InHist \subseteq OnWay
    BY DEF OnWay
  <2>3. /\ Before(InWrite, event') /\ Before(Elements(ops), event')
        /\ Before(InHand, event') /\ Before(InHist, event')
    BY <2>1, <2>2
  <2> QED  BY <1>3, <1>5, <2>3 DEF InOrder
<1>10. FromLog'
  <2>1. ASSUME NEW x \in OnWay, Real(x)
        PROVE  /\ x.hid \in DOMAIN log /\ historyIdx < x.hid /\ x.hid <= n
               /\ log[x.hid].msg = x.msg
               /\ x.op = "add" => log[x.hid].op = "add"
               /\ x.op = "delete" => log[x.hid].op = "delete"
    BY <1>1, <1>8, <2>1 DEF FromLog
  <2>2. ASSUME NEW x \in event'
        PROVE  /\ x.hid \in DOMAIN log /\ historyIdx < x.hid /\ x.hid <= n
               /\ log[x.hid].msg = x.msg
               /\ x.op = "add" => log[x.hid].op = "add"
               /\ x.op = "delete" => log[x.hid].op = "delete"
    BY <1>1, <1>4, <2>2
  <2> QED  BY <1>1, <1>2, <1>3, <1>6, <2>1, <2>2 DEF FromLog
<1>11. ASSUME NEW m, NEW k
       PROVE  /\ Pending(m, k) => Pending(m, k)'
              /\ Pending(m, k)' => Pending(m, k) \/ (log[n].msg = m /\ log[n].op = k)
              /\ k # "labels" /\ log[n].msg = m /\ log[n].op = k => Pending(m, k)'
  BY <1>4, <1>6 DEF Pending
<1>12. DeletesLast'
  <2> SUFFICES ASSUME NEW m, NEW k \in DOMAIN log, k <= n,
                      log[k].op = "delete", log[k].msg = m, Pending(m, "add")'
               PROVE  Pending(m, "delete")'
    BY <1>1, <1>3 DEF DeletesLast
  <2>0. k \in Nat
    BY EventIs
  <2>1. CASE k = n
    BY <1>11, <2>1
  <2>2. CASE k # n
    <3>1. k < n /\ k <= historyId
      BY <1>1, <2>0, <2>2
    <3>2. ~(log[n].msg = m /\ log[n].op = "add")
      BY <1>1, <3>1 DEF MailboxInv, RecordHolds
    <3>3. Pending(m, "add")
      BY <1>11, <3>2
    <3>4. Pending(m, "delete")
      BY <3>1, <3>3 DEF DeletesLast
    <3> QED  BY <1>11, <3>4
  <2> QED  BY <2>1, <2>2
<1>13. ASSUME NEW m, NEW k, k # "labels", Due(m, k) PROVE Due(m, k)'
  <2>1. CASE Pending(m, k)
    BY <1>11, <2>1 DEF Due
  <2>2. ASSUME NEW r \in Ahead(historyId), log[r].msg = m, log[r].op = k PROVE Due(m, k)'
    <3>0. r \in DOMAIN log /\ r \in Nat /\ r > historyId
      BY <2>2, EventIs DEF Ahead
    <3>1. CASE r = n
      BY <1>11, <1>13, <2>2, <3>1 DEF Due
    <3>2. CASE r # n
      <4>1. r > n
        BY <1>1, <3>0, <3>2
      <4> QED  BY <1>1, <1>3, <2>2, <3>0, <4>1 DEF Due, Ahead
    <3> QED  BY <3>1, <3>2
  <2> QED  BY <1>13, <2>1, <2>2 DEF Due
<1>14. Presence'
  <2>1. Mirror' = Mirror
    BY <1>3 DEF Mirror, FilesOf
  <2>2. ASSUME NEW m \in Msgs \ Lost, m \in live \ Mirror PROVE Due(m, "add")'
    BY <1>13, <2>2 DEF Presence
  <2>3. ASSUME NEW m \in Msgs \ Lost, m \in Mirror \ live PROVE Due(m, "delete")'
    BY <1>13, <2>3 DEF Presence
  <2> QED  BY <1>3, <2>1, <2>2, <2>3 DEF Presence
<1> QED
  BY <1>2, <1>7, <1>9, <1>10, <1>12, <1>14

-----------------------------------------------------------------------------
(* The mailbox, and the ends of an update                                  *)

(* What Gmail does to the mailbox is one of the mailbox's own changes.     *)
LEMMA GmailMailbox ==
    ASSUME UpdateInv, Gmail
    PROVE  /\ MailboxInv'
           /\ \/ \E m \in Msgs, L \in SUBSET Labels : NewMessage(m, L)
              \/ \E m \in Msgs : DeleteMessage(m)
              \/ \E m \in Msgs, A, R \in SUBSET Labels : ModifyLabels(m, A, R)
              \/ UNCHANGED <<top, log, live, lab>>
           /\ top \in Nat /\ top' \in Nat /\ top <= top'
           /\ \A n \in DOMAIN log : n \in DOMAIN log' /\ log'[n] = log[n]
           /\ \A n \in DOMAIN log' \ DOMAIN log : n > top
<1> USE DEF UpdateInv
<1>0. Arrive => \E m \in Msgs, L \in SUBSET Labels : NewMessage(m, L)
  BY DEF Arrive
<1>1. CASE MailboxNext
  <2>1. MailboxInv'
    BY <1>1, MailboxInvStep
  <2>2. /\ \A n \in DOMAIN log : n \in DOMAIN log' /\ log'[n] = log[n]
        /\ \A n \in DOMAIN log' \ DOMAIN log : n > top
    BY <1>1, RecordsStay
  <2>3. top \in Nat /\ top' \in Nat
    BY <2>1 DEF MailboxInv, MailboxTypeOK
  <2>4. top' = top \/ top' = top + 1
    BY <1>1, MailboxStep DEF MailboxInv, LogRecord
  <2> QED  BY <1>0, <2>1, <2>2, <2>3, <2>4 DEF Gmail, Expire
<1>2. CASE Expire(historyIdx + 1)
  <2>0. UNCHANGED <<top, log, live, lab>>
    BY <1>2 DEF Expire
  <2>1. floor' \in 0 .. top' /\ top \in Nat
    BY <1>2 DEF Expire, MailboxInv, MailboxTypeOK, UpdateTypes
  <2>2. MailboxInv'
    BY <2>0, <2>1 DEF MailboxInv, MailboxTypeOK, Touched, RecordHolds, Touches, Ahead
  <2> QED  BY <2>0, <2>1, <2>2
<1> QED
  BY <1>0, <1>1, <1>2 DEF Gmail, MailboxNext

(* A change of the mailbox has its record ahead of the update.             *)
LEMMA GmailStep ==
    ASSUME UpdateInv, Gmail
    PROVE  FromLog' /\ DeletesLast' /\ Presence'
<1> USE DEF UpdateInv
<1>0. UNCHANGED <<store, pc, writer, historyIdx, reader, channels, cutOff>>
  BY DEF Gmail
<1>1. /\ UNCHANGED <<event, histEvents, hand, ops, files, pc, cur, historyIdx, historyId, cut>>
      /\ historyId \in Nat /\ historyId <= top
  BY <1>0 DEF store, writer, reader, channels, cutOff, UpdateTypes, UpdateRun
<1>2. OnWay' = OnWay /\ ToDo' = ToDo
  BY <1>1 DEF OnWay, ToDo, InHist, InHand, InWrite, InCur, Elements
<1>3. FromLog'
  BY <1>1, <1>2, GmailMailbox DEF FromLog
<1>4. \A m, k : Pending(m, k)' <=> Pending(m, k)
  BY <1>2 DEF Pending
<1>5. DeletesLast'
  <2> SUFFICES ASSUME NEW m, NEW n \in DOMAIN log', n <= historyId, log'[n].op = "delete",
                      log'[n].msg = m, Pending(m, "add")
               PROVE  Pending(m, "delete")
    BY <1>1, <1>4 DEF DeletesLast
  <2>1. n \in DOMAIN log
    <3>1. n \in Nat /\ top \in Nat
      BY GmailMailbox, MailboxAssumption DEF MailboxInv, MailboxTypeOK
    <3>2. ~(n > top)
      BY <1>1, <3>1
    <3> QED  BY <3>2, GmailMailbox
  <2> QED  BY <2>1, GmailMailbox DEF DeletesLast
<1>6. Mirror' = Mirror
  BY <1>1 DEF Mirror, FilesOf
<1>7. ASSUME NEW m, NEW k, Due(m, k) PROVE Due(m, k)'
  BY <1>1, <1>4, <1>7, GmailMailbox DEF Due, Ahead
<1>8. ASSUME live' = live PROVE Presence'
  <2>1. ASSUME NEW m \in Msgs \ Lost
        PROVE  /\ m \in live \ Mirror => Due(m, "add")'
               /\ m \in Mirror \ live => Due(m, "delete")'
    BY <1>7, <2>1 DEF Presence
  <2> QED  BY <1>1, <1>6, <1>8, <2>1 DEF Presence
<1>9. ASSUME NEW x \in Msgs, NEW L \in SUBSET Labels, NewMessage(x, L) PROVE Presence'
  <2> DEFINE r == [op |-> "add", msg |-> x, ladd |-> {}, lrem |-> {}]
  <2>1. r \in Records /\ LogRecord(r) /\ live' = live \union {x}
    BY <1>9 DEF NewMessage, Records
  <2>2. top + 1 \in Ahead(historyId)' /\ log'[top + 1] = r
    BY <1>1, <2>1, AheadGrows DEF MailboxInv
  <2>3. Due(x, "add")'
    BY <2>2 DEF Due
  <2> HIDE DEF r
  <2> QED  BY <1>1, <1>6, <1>7, <2>1, <2>3 DEF Presence
<1>10. ASSUME NEW x \in Msgs, DeleteMessage(x) PROVE Presence'
  <2> DEFINE r == [op |-> "delete", msg |-> x, ladd |-> {}, lrem |-> {}]
  <2>1. r \in Records /\ LogRecord(r) /\ live' = live \ {x}
    BY <1>10 DEF DeleteMessage, Records
  <2>2. top + 1 \in Ahead(historyId)' /\ log'[top + 1] = r
    BY <1>1, <2>1, AheadGrows DEF MailboxInv
  <2>3. Due(x, "delete")'
    BY <2>2 DEF Due
  <2> HIDE DEF r
  <2> QED  BY <1>1, <1>6, <1>7, <2>1, <2>3 DEF Presence
<1>11. ASSUME NEW x \in Msgs, NEW A \in SUBSET Labels, NEW R \in SUBSET Labels,
              ModifyLabels(x, A, R)
       PROVE  live' = live
  BY <1>11 DEF ModifyLabels
<1>12. ASSUME UNCHANGED <<top, log, live, lab>> PROVE live' = live
  BY <1>12
<1>13. Presence'
  BY <1>8, <1>9, <1>10, <1>11, <1>12, GmailMailbox
<1> QED  BY <1>3, <1>5, <1>13

(* What is due stays due when an update ends before its index is           *)
(* committed: it starts again from there.                                  *)
LEMMA StartsAgain ==
    ASSUME UpdateInv, NEW m, NEW k \in {"add", "delete"}, Due(m, k)
    PROVE  \E n \in Ahead(historyIdx) : log[n].msg = m /\ log[n].op = k
<1> USE DEF UpdateInv
<1>1. CASE Pending(m, k)
  <2> PICK o \in ToDo : o.msg = m /\ o.op = k
    BY <1>1 DEF Pending
  <2>1. o \in OnWay /\ Real(o)
    BY DEF ToDo, OnWay, InCur, InWrite, Real, Writing
  <2> QED  BY <2>1 DEF FromLog, Ahead
<1>2. ASSUME NEW n \in Ahead(historyId) PROVE n \in Ahead(historyIdx)
  <2>1. /\ n \in DOMAIN log /\ n > historyId /\ n \in Nat
        /\ historyIdx \in Nat /\ historyId \in Nat /\ historyIdx <= historyId
    BY <1>2, MailboxAssumption DEF Ahead, MailboxInv, MailboxTypeOK, UpdateTypes, UpdateRun
  <2> QED  BY <2>1 DEF Ahead
<1> QED  BY <1>1, <1>2 DEF Due

(* When all is done nothing is pending.                                    *)
LEMMA NonePending ==
    ASSUME UpdateInv, pc = "loop", ShardsDone
    PROVE  OnWay = {} /\ ToDo = {}
<1> USE DEF UpdateInv
<1>1. event = {}
  BY DEF ShardsDone, UpdateRun
<1>2. InHist = {} /\ InHand = {} /\ Elements(ops) = {}
  BY DEF ShardsDone, InHist, InHand, Elements
<1>3. InWrite = {} /\ InCur = {}
  BY DEF InWrite, InCur, Writing
<1> QED  BY <1>1, <1>2, <1>3 DEF OnWay, ToDo

(* Between updates nothing is on its way.                                  *)
LEMMA EmptyPlaces ==
    ASSUME event' = {}, histEvents' = [s \in Shards |-> <<>>],
           hand' = [s \in Shards |-> {}], ops' = <<>>, pc' = "idle", UpdateInv
    PROVE  /\ OnWay' = {} /\ ToDo' = {} /\ PipeTypes' /\ Sharded' /\ InOrder' /\ KeyRead'
           /\ FromLog' /\ DeletesLast'
<1>1. InHist' = {} /\ InHand' = {} /\ Elements(ops)' = {} /\ InWrite' = {} /\ InCur' = {}
  BY DEF InHist, InHand, Elements, InWrite, InCur, Writing
<1>2. OnWay' = {} /\ ToDo' = {}
  BY <1>1 DEF OnWay, ToDo
<1>3. PipeTypes'
  BY DEF PipeTypes
<1>4. Sharded'
  BY DEF Sharded, Elements
<1>5. InOrder'
  BY <1>1 DEF InOrder, Before, Rising
<1>6. KeyRead'
  BY <1>1 DEF KeyRead
<1>7. FromLog' /\ DeletesLast'
  BY <1>2 DEF FromLog, DeletesLast, Pending
<1> QED  BY <1>2, <1>3, <1>4, <1>5, <1>6, <1>7

(* However an update ends, what is due is ahead of where the next starts.  *)
LEMMA EndStep ==
    ASSUME UpdateInv, CommitHistory \/ FailUpdate \/ KillUpdate
    PROVE  /\ OnWay' = {} /\ PipeTypes' /\ Sharded' /\ InOrder' /\ KeyRead' /\ FromLog'
           /\ DeletesLast' /\ Presence'
           /\ UNCHANGED <<mailbox, store>> /\ cut \subseteq cut'
           /\ (pc \in Writing => cur.msg \in cut')
           /\ pc' = "idle" /\ ppc' = "off" /\ event' = {} /\ fresh' = {} /\ cur' = Nobody
           /\ last' = Base /\ historyIdx' = historyId' /\ historyId' \in {historyIdx, historyId}
<1> USE DEF UpdateInv
<1>1. /\ EndUpdate /\ cut \subseteq cut' /\ (pc \in Writing => cur.msg \in cut')
      /\ historyIdx' = historyId' /\ historyId' \in {historyIdx, historyId}
  BY DEF CommitHistory, FailUpdate, KillUpdate, cutOff, Writing
<1>2. /\ UNCHANGED <<mailbox, store, log, live, files>>
      /\ pc' = "idle" /\ ppc' = "off" /\ event' = {} /\ fresh' = {} /\ cur' = Nobody
      /\ last' = Base
  BY <1>1 DEF EndUpdate, mailbox, store
<1>3. /\ OnWay' = {} /\ ToDo' = {} /\ PipeTypes' /\ Sharded' /\ InOrder' /\ KeyRead'
      /\ FromLog' /\ DeletesLast'
  BY <1>1, EmptyPlaces DEF EndUpdate
<1>4. Mirror' = Mirror
  BY <1>2 DEF Mirror, FilesOf
<1>5. ASSUME NEW m, NEW k \in {"add", "delete"}, Due(m, k) PROVE Due(m, k)'
  <2>1. CASE CommitHistory
    <3>1. historyId' = historyId /\ ~Pending(m, k)
      BY <2>1, NonePending DEF CommitHistory, Pending
    <3> QED  BY <1>2, <1>5, <3>1 DEF Due, Ahead
  <2>2. CASE FailUpdate \/ KillUpdate
    <3>1. historyId' = historyIdx
      BY <2>2 DEF FailUpdate, KillUpdate
    <3>2. PICK n \in Ahead(historyIdx) : log[n].msg = m /\ log[n].op = k
      BY <1>5, StartsAgain
    <3> QED  BY <1>2, <3>1, <3>2 DEF Due, Ahead
  <2> QED  BY <2>1, <2>2
<1>6. Presence'
  BY <1>1, <1>2, <1>4, <1>5 DEF Presence
<1> QED  BY <1>1, <1>2, <1>3, <1>6

(* An update starts from the committed index.                              *)
LEMMA StartStep ==
    ASSUME UpdateInv, StartUpdate
    PROVE  /\ Moves /\ FromLog' /\ DeletesLast' /\ Presence'
           /\ UNCHANGED <<mailbox, store, writer, historyIdx, event, channels, cutOff>>
           /\ pc = "idle" /\ pc' = "loop" /\ ppc' = "fetch" /\ ppc = "off" /\ event = {}
           /\ historyId' = historyIdx /\ last' = historyIdx /\ historyId = historyIdx
<1> USE DEF UpdateInv
<1>1. /\ UNCHANGED <<mailbox, store, writer, historyIdx, event, channels, cutOff>>
      /\ pc = "idle" /\ pc' = "loop" /\ ppc' = "fetch"
      /\ historyId' = historyIdx /\ last' = historyIdx
  BY DEF StartUpdate
<1>2. ppc = "off" /\ event = {} /\ historyId = historyIdx
  BY <1>1 DEF UpdateRun
<1>3. UNCHANGED <<event, histEvents, hand, ops, keyOf, files, log, live, historyIdx,
                  historyId, cut>>
  BY <1>1, <1>2 DEF channels, store, mailbox, cutOff
<1>4. {pc, pc'} \intersect Writing = {} /\ pc # "failed"
  BY <1>1 DEF Writing
<1>5. Moves /\ Keeps
  BY <1>3, <1>4, StillMoves
<1>6. FromLog' /\ DeletesLast' /\ Presence'
  BY <1>3, <1>5, MoveStep DEF Keeps
<1> QED  BY <1>1, <1>2, <1>5, <1>6

-----------------------------------------------------------------------------
(* The invariant of updates                                                *)

(* The store is kept by every step of an update.                           *)
LEMMA UpdateStore ==
    ASSUME UpdateInv, [IncNext]_incVars
    PROVE  StoreInv'
<1> USE DEF UpdateInv
<1>1. ASSUME UNCHANGED <<store, cut, pc, cur, fresh>> PROVE StoreInv'
  BY <1>1 DEF StoreInv, store, KeysApart, FreshApart, MidWrite, One, Delivered, Replaced,
     FilesOf, FilesAt
<1>2. CASE WriteOp
  BY <1>2, UpdateFramed DEF WriteResult
<1>3. CASE CommitHistory \/ FailUpdate \/ KillUpdate
  <2>1. /\ UNCHANGED store /\ cut \subseteq cut' /\ pc' = "idle"
        /\ (pc \in Writing => cur.msg \in cut')
    BY <1>3, EndStep
  <2>2. \A m \in Msgs \ cut' : ~MidWrite(m) /\ ~MidWrite(m)'
    BY <2>1 DEF MidWrite, Writing
  <2>3. \A m \in Msgs \ cut' : One(m)'
    BY <2>1, <2>2, OneKept DEF StoreInv, store, FilesOf
  <2> QED
    BY <2>1, <2>2, <2>3 DEF StoreInv, store, KeysApart
<1>4. CASE StartUpdate \/ TakeOp \/ OpWritten
  <2>1. UNCHANGED <<store, cut>>
    BY <1>4 DEF StartUpdate, TakeOp, OpWritten, cutOff
  <2>2. pc \notin Writing /\ pc' \notin Writing \ {"write"}
    BY <1>4 DEF StartUpdate, TakeOp, OpWritten, Writing
  <2> QED  BY <2>1, <2>2, StoreStill
<1>5. CASE NextRecord
  BY <1>1, <1>5, RecordStep DEF writer, cutOff
<1>6. CASE Gmail \/ UNCHANGED incVars
  BY <1>1, <1>6 DEF Gmail, incVars, writer, cutOff
<1>7. ASSUME UNCHANGED <<mailbox, store, pc, writer, historyIdx, historyId, cutOff>>
      PROVE  StoreInv'
  BY <1>1, <1>7 DEF writer, cutOff
<1> QED
  BY <1>2, <1>3, <1>4, <1>5, <1>6, <1>7, PipeStep, UpdateSteps

(* Where the reader, the main goroutine and the run are.                   *)
LEMMA UpdateRuns ==
    ASSUME UpdateInv, [IncNext]_incVars
    PROVE  UpdateTypes' /\ UpdateRun' /\ CurKind'
<1> USE DEF UpdateInv
<1>0. /\ Base \in Nat /\ top \in Nat /\ historyIdx \in Nat /\ historyId \in Nat /\ last \in Nat
      /\ Nobody \in Ops
  BY MailboxAssumption, IncrementalAssumption DEF MailboxInv, MailboxTypeOK, UpdateTypes,
     Nobody, NoOp, Ops
<1>1. CASE StartUpdate
  <2>1. UNCHANGED <<cur, fresh, historyIdx, top>>
    BY <1>1, StartStep DEF writer, mailbox
  <2> QED
    BY <1>0, <1>1, <2>1, StartStep DEF UpdateTypes, UpdateRun, CurKind, Writing
<1>2. CASE HistoryGone \/ GetHistory \/ SendEvent \/ RecordsDone
  <2>1. UNCHANGED <<pc, cur, fresh, historyIdx, historyId, top>>
    BY <1>2, PipeStep DEF writer, mailbox
  <2>2. /\ ppc \in {"fetch", "record", "send"} /\ pc # "idle" /\ historyId <= last
        /\ ppc' \in {"off", "fetch", "record", "done"}
        /\ ppc # "send" => event' = event
        /\ ppc = "send" => event' = {}
    BY <1>2 DEF UpdateRun, HistoryGone, GetHistory, SendEvent, RecordsDone
  <2>3. last' \in Nat /\ last <= last' /\ last' <= top
    <3>1. CASE GetHistory
      <4> PICK e \in last .. top : last' = e
        BY <3>1 DEF GetHistory
      <4> QED  BY <1>0
    <3>2. CASE HistoryGone \/ SendEvent \/ RecordsDone
      BY <1>0, <3>2 DEF HistoryGone, SendEvent, RecordsDone, UpdateRun
    <3> QED  BY <1>2, <3>1, <3>2
  <2>4. historyId <= last'
    BY <1>0, <2>2, <2>3
  <2>5. UpdateTypes'
    BY <2>1, <2>2, <2>3 DEF UpdateTypes
  <2>6. UpdateRun'
    BY <2>1, <2>2, <2>3, <2>4 DEF UpdateRun
  <2> QED  BY <2>1, <2>5, <2>6 DEF CurKind
<1>3. CASE NextRecord
  <2>1. UNCHANGED <<pc, cur, fresh, historyIdx, top, last>>
    BY <1>3, RecordStep DEF writer, mailbox, NextRecord
  <2>2. /\ ppc = "record" /\ pc # "idle" /\ historyId < last /\ historyId' = historyId + 1
        /\ ppc' \in {"record", "send"} /\ (ppc' # "send" => event' = {})
    BY <1>3 DEF UpdateRun, NextRecord
  <2>3. historyId' \in Nat /\ historyIdx <= historyId' /\ historyId' <= last /\ historyId' <= top
    BY <1>0, <2>2 DEF UpdateRun
  <2>4. UpdateTypes'
    BY <2>1, <2>2, <2>3 DEF UpdateTypes
  <2>5. UpdateRun'
    BY <2>1, <2>2, <2>3 DEF UpdateRun
  <2> QED  BY <2>1, <2>4, <2>5 DEF CurKind
<1>4. CASE \/ \E s \in Shards : TakeEvent(s)
           \/ \E s \in Shards : \E w \in hand[s] :
                 LookUp(s, w) \/ FetchBody(s, w) \/ FetchMetadata(s, w) \/ OpenFile(s, w)
           \/ \E s \in Shards : \E w \in hand[s] : Put(s, w)
  <2>1. UNCHANGED <<pc, cur, fresh, historyIdx, historyId, top>>
    <3> HIDE DEF UpdateInv
    <3>1. \/ HistoryGone \/ GetHistory \/ SendEvent \/ RecordsDone
          \/ \E s \in Shards : TakeEvent(s)
          \/ \E s \in Shards : \E w \in hand[s] :
                LookUp(s, w) \/ FetchBody(s, w) \/ FetchMetadata(s, w) \/ OpenFile(s, w)
          \/ \E s \in Shards : \E w \in hand[s] : Put(s, w)
      BY <1>4
    <3>2. UNCHANGED <<mailbox, store, pc, writer, historyIdx, historyId, cutOff>>
      BY <3>1, PipeStep, ZenonT(40)
    <3> QED  BY <3>2 DEF writer, mailbox
  <2>2. UNCHANGED reader
    BY <1>4 DEF TakeEvent, LookUp, FetchBody, FetchMetadata, OpenFile, Put, Handling
  <2>3. UNCHANGED <<ppc, last, event>>
    BY <2>2 DEF reader
  <2>4. pc # "idle"
    <3>1. ASSUME pc = "idle"
          PROVE  \A s \in Shards : histEvents[s] = <<>> /\ hand[s] = {}
      <4> TAKE s \in Shards
      <4>1. InHist = {} /\ InHand = {}
        BY <3>1 DEF UpdateRun, OnWay
      <4>2. hand[s] = {} /\ Elements(histEvents[s]) = {} /\ histEvents[s] \in Seq(Ops)
        BY <4>1, InPlaces
      <4>3. histEvents[s] = <<>>
        <5>1. histEvents[s] # <<>> => Head(histEvents[s]) \in Elements(histEvents[s])
          BY <4>2, HeadOf
        <5> QED  BY <4>2, <5>1
      <4> QED  BY <4>2, <4>3
    <3> QED  BY <1>4, <3>1 DEF TakeEvent
  <2> QED  BY <2>1, <2>3, <2>4 DEF UpdateTypes, UpdateRun, CurKind
<1>5. CASE TakeOp
  <2>1. UNCHANGED <<fresh, historyIdx, historyId, top, ppc, last, event>> /\ pc = "loop"
        /\ pc' \in {"failed", "loop", "write"}
    BY <1>5 DEF TakeOp, mailbox, reader
  <2>2. cur' \in Ops /\ (pc' = "write" => Real(cur'))
    BY <1>5, OpMoves
  <2> QED  BY <2>1, <2>2 DEF UpdateTypes, UpdateRun, CurKind, Writing
<1>6. CASE WriteOp
  <2>1. /\ UNCHANGED <<historyIdx, historyId, top, ppc, last, event>> /\ cur' = cur
        /\ pc \in Writing /\ fresh' \subseteq Nat /\ CurKind'
        /\ pc' \in (Writing \ {"write"}) \union {"written", "failed"}
    BY <1>6, UpdateFramed DEF mailbox, reader
  <2> QED  BY <2>1 DEF UpdateTypes, UpdateRun, Writing
<1>7. CASE OpWritten
  <2>1. /\ UNCHANGED <<historyIdx, historyId, top, ppc, last, event>> /\ cur' = Nobody
        /\ pc = "written" /\ fresh' = {} /\ pc' = "loop"
    BY <1>7 DEF OpWritten, mailbox, reader
  <2> QED  BY <1>0, <2>1 DEF UpdateTypes, UpdateRun, CurKind
<1>8. CASE CommitHistory \/ FailUpdate \/ KillUpdate
  <2>1. /\ OnWay' = {} /\ pc' = "idle" /\ ppc' = "off" /\ event' = {} /\ fresh' = {}
        /\ cur' = Nobody /\ last' = Base /\ historyIdx' = historyId'
        /\ historyId' \in {historyIdx, historyId} /\ top' = top
    BY <1>8, EndStep DEF mailbox
  <2>2. historyIdx' \in Nat /\ Base <= historyIdx' /\ historyIdx' <= top /\ Base <= top
    BY <1>0, <2>1 DEF UpdateRun
  <2> QED  BY <1>0, <2>1, <2>2 DEF UpdateTypes, UpdateRun, CurKind
<1>9. CASE Gmail
  <2>1. UNCHANGED <<pc, cur, fresh, historyIdx, historyId, ppc, last, event, histEvents, hand, ops>>
    BY <1>9 DEF Gmail, writer, reader, channels
  <2>2. OnWay' = OnWay
    BY <2>1 DEF OnWay, InHist, InHand, InWrite, Elements
  <2>3. top' \in Nat /\ top <= top'
    BY <1>9, GmailMailbox
  <2>4. historyId <= top' /\ last <= top'
    BY <1>0, <2>3 DEF UpdateRun
  <2> QED  BY <2>1, <2>2, <2>4 DEF UpdateTypes, UpdateRun, CurKind
<1>10. CASE UNCHANGED incVars
  <2>1. UNCHANGED <<pc, cur, fresh, historyIdx, historyId, top, ppc, last, event, histEvents,
                    hand, ops>>
    BY <1>10 DEF incVars, writer, reader, channels, mailbox
  <2>2. OnWay' = OnWay
    BY <2>1 DEF OnWay, InHist, InHand, InWrite, Elements
  <2> QED  BY <2>1, <2>2 DEF UpdateTypes, UpdateRun, CurKind
<1> QED
  BY <1>1, <1>2, <1>3, <1>4, <1>5, <1>6, <1>7, <1>8, <1>9, <1>10, UpdateSteps

(* The order, the keys and what is due.                                    *)
LEMMA UpdateFlow ==
    ASSUME UpdateInv, [IncNext]_incVars
    PROVE  /\ MailboxInv' /\ PipeTypes' /\ Sharded' /\ InOrder' /\ KeyRead' /\ FromLog'
           /\ DeletesLast' /\ Presence'
<1> USE DEF UpdateInv
<1>1. ASSUME UNCHANGED mailbox PROVE MailboxInv'
  BY <1>1, StillInv
<1>2. CASE StartUpdate
  BY <1>1, <1>2, StartStep DEF Moves
<1>3. CASE \/ HistoryGone \/ GetHistory \/ SendEvent \/ RecordsDone
           \/ \E s \in Shards : TakeEvent(s)
           \/ \E s \in Shards : \E w \in hand[s] :
                 LookUp(s, w) \/ FetchBody(s, w) \/ FetchMetadata(s, w) \/ OpenFile(s, w)
           \/ \E s \in Shards : \E w \in hand[s] : Put(s, w)
  <2>1. /\ Moves /\ FromLog' /\ DeletesLast' /\ Presence' /\ UNCHANGED mailbox
    BY <1>3, PipeStep
  <2> QED  BY <1>1, <2>1 DEF Moves
<1>4. CASE NextRecord
  BY <1>1, <1>4, RecordStep
<1>5. CASE TakeOp \/ WriteOp \/ OpWritten
  BY <1>1, <1>5, MainStep DEF Moves
<1>6. CASE CommitHistory \/ FailUpdate \/ KillUpdate
  BY <1>1, <1>6, EndStep
<1>7. CASE Gmail
  <2>1. UNCHANGED <<event, histEvents, hand, ops, keyOf, pc, cur>>
    BY <1>7 DEF Gmail, reader, channels, store, writer
  <2>2. Moves
    BY <2>1, StillMoves
  <2> QED  BY <1>7, <2>2, GmailMailbox, GmailStep DEF Moves
<1>8. CASE UNCHANGED incVars
  <2>1. UNCHANGED <<mailbox, event, histEvents, hand, ops, keyOf, pc, cur, log, live, files,
                    historyIdx, historyId, cut>>
    BY <1>8 DEF incVars, reader, channels, store, writer, mailbox, cutOff
  <2>2. Moves /\ Keeps
    BY <2>1, StillMoves
  <2>3. FromLog' /\ DeletesLast' /\ Presence'
    BY <2>1, <2>2, MoveStep DEF Keeps
  <2> QED  BY <1>1, <2>1, <2>2, <2>3 DEF Moves
<1> QED
  BY <1>2, <1>3, <1>4, <1>5, <1>6, <1>7, <1>8, UpdateSteps

(* A mirror that is exact is what an update starts from.                   *)
LEMMA UpdateInit == IncInit => UpdateInv
<1> SUFFICES ASSUME IncInit PROVE UpdateInv
  OBVIOUS
<1>0. /\ pc = "idle" /\ cur = Nobody /\ fresh = {} /\ historyIdx = Base /\ historyId = Base
      /\ ppc = "off" /\ last = Base /\ event = {} /\ histEvents = [s \in Shards |-> <<>>]
      /\ hand = [s \in Shards |-> {}] /\ ops = <<>> /\ cut = {} /\ top = Base
      /\ lab \in [Msgs -> SUBSET Labels]
      /\ Readable \subseteq live /\ live \subseteq Readable \union Unparseable
      /\ Readable \subseteq Msgs /\ Msgs \subseteq Nat /\ Base \in Nat
  BY MailboxAssumption, IncrementalAssumption DEF IncInit, MailboxInit, Readable
<1>1. MailboxInv /\ DOMAIN log = {}
  BY MailboxInitInv, MailboxAssumption DEF IncInit, MailboxInit
<1>2. StoreInv /\ Mirror = Readable
  <2>1. /\ files = {[key |-> m, msg |-> m, labels |-> lab[m]] : m \in Readable}
        /\ keyOf = [m \in Msgs |-> IF m \in Readable THEN {m} ELSE {}]
        /\ labOf = [m \in Msgs |-> IF m \in Readable THEN {lab[m]} ELSE {}]
    BY DEF IncInit
  <2>2. keyOf \in [Msgs -> SUBSET Nat] /\ labOf \in [Msgs -> SUBSET (SUBSET Labels)]
    BY <1>0, <2>1
  <2>3. KeysApart
    BY <2>1 DEF KeysApart
  <2>4. ASSUME NEW m \in Readable
        PROVE  \E f \in files : FilesOf(m) = {f} /\ f.key \in keyOf[m] /\ labOf[m] = {f.labels}
    <3> PICK f : f = [key |-> m, msg |-> m, labels |-> lab[m]]
      OBVIOUS
    <3>1. f \in files /\ f.key = m /\ f.msg = m /\ f.labels = lab[m]
      BY <2>1
    <3>2. \A g \in files : g.msg = m => g = f
      BY <2>1
    <3>3. FilesOf(m) = {f}
      BY <3>1, <3>2 DEF FilesOf
    <3> QED  BY <1>0, <2>1, <3>1, <3>3
  <2>5. ASSUME NEW m \in Msgs \ Readable PROVE FilesOf(m) = {} /\ keyOf[m] = {} /\ labOf[m] = {}
    BY <2>1 DEF FilesOf
  <2>6. \A m \in Msgs : One(m) /\ ~MidWrite(m)
    BY <1>0, <2>1, <2>4, <2>5 DEF One, MidWrite, Writing
  <2>7. Mirror = Readable
    BY <1>0, <2>4, <2>5 DEF Mirror
  <2> QED  BY <1>0, <2>2, <2>3, <2>6, <2>7 DEF StoreInv
<1>3. /\ InHist = {} /\ InHand = {} /\ Elements(ops) = {} /\ InWrite = {} /\ InCur = {}
      /\ OnWay = {} /\ ToDo = {}
  <2>1. InHist = {} /\ InHand = {} /\ Elements(ops) = {} /\ InWrite = {} /\ InCur = {}
    BY <1>0 DEF InHist, InHand, Elements, InWrite, InCur, Writing
  <2> QED  BY <1>0, <2>1 DEF OnWay, ToDo
<1>4. PipeTypes /\ UpdateTypes
  <2>1. Nobody \in Ops
    BY IncrementalAssumption DEF Nobody, NoOp, Ops
  <2> QED  BY <1>0, <2>1 DEF PipeTypes, UpdateTypes
<1>5. UpdateRun /\ CurKind
  BY <1>0, <1>3 DEF UpdateRun, CurKind
<1>6. Sharded
  BY <1>0 DEF Sharded, Elements
<1>7. InOrder
  BY <1>0, <1>3 DEF InOrder, Before, Rising
<1>8. FromLog /\ DeletesLast
  BY <1>1, <1>3 DEF FromLog, DeletesLast
<1>9. KeyRead
  BY <1>0, <1>3 DEF KeyRead
<1>10. Presence
  BY <1>0, <1>2 DEF Presence
<1> QED
  BY <1>1, <1>2, <1>4, <1>5, <1>6, <1>7, <1>8, <1>9, <1>10 DEF UpdateInv

(* It holds throughout every behaviour.                                    *)
LEMMA UpdateInvariant == IncSpec => []UpdateInv
<1>1. UpdateInv /\ [IncNext]_incVars => UpdateInv'
  BY UpdateStore, UpdateRuns, UpdateFlow DEF UpdateInv
<1> QED  BY <1>1, UpdateInit, PTL DEF IncSpec

(* A message that has no file, or has one though it is gone, has a record  *)
(* above the committed index that puts it right, unless a write of it was  *)
(* cut off or its body cannot be parsed: the shards keep the order of the  *)
(* log, whatever the number of workers and the size of their channels,     *)
(* wherever updates fail or are killed (gmail.go:328-341, 372-490).        *)
THEOREM PresenceCoveredTheorem == IncSpec => []PresenceCovered
<1>1. UpdateInv => PresenceCovered
  <2> SUFFICES ASSUME UpdateInv, NEW m \in Msgs \ Lost
               PROVE  OwedFile(m, Mirror, historyIdx) /\ OwedDelete(m, Mirror, historyIdx)
    BY DEF PresenceCovered
  <2>1. CASE m \in live \ Mirror
    <3>1. Due(m, "add")
      BY <2>1 DEF UpdateInv, Presence
    <3> QED  BY <2>1, <3>1, StartsAgain DEF OwedFile, OwedDelete
  <2>2. CASE m \in Mirror \ live
    <3>1. Due(m, "delete")
      BY <2>2 DEF UpdateInv, Presence
    <3> QED  BY <2>2, <3>1, StartsAgain DEF OwedFile, OwedDelete
  <2> QED  BY <2>1, <2>2 DEF OwedFile, OwedDelete
<1> QED  BY <1>1, UpdateInvariant, PTL

-----------------------------------------------------------------------------
(* The labels that each step leaves                                        *)

(* An addition ahead makes up for any labels.                              *)
LEMMA AddRight ==
    ASSUME NEW m, NEW p, NEW n \in Ahead(p), log[n].msg = m, log[n].op = "add", NEW K
    PROVE  Right(m, K, p)
BY DEF Right, SetsLabel

(* Labels of several places that are each right are right together.        *)
LEMMA RightUnion ==
    ASSUME NEW m, NEW p, NEW S, S # {}, \A C \in S : Right(m, C, p)
    PROVE  Right(m, UNION S, p)
<1> SUFFICES ASSUME NEW l \in Labels, \A n \in Ahead(p) : ~SetsLabel(n, m, l)
             PROVE  l \in lab[m] <=> l \in UNION S
  BY DEF Right
<1>1. \A C \in S : l \in lab[m] <=> l \in C
  BY DEF Right
<1> QED  BY <1>1

(* An operation with labels is one that will be written.                   *)
LEMMA LabelledReal ==
    ASSUME UpdateInv, NEW o \in Labelled
    PROVE  o \in OnWay /\ Real(o) /\ o.op \in {"add", "labels"}
<1>1. \A s \in Shards : \A w \in hand[s] : w.o \in InHand
  BY InPlaces
<1> QED  BY <1>1 DEF Labelled, OnWay, Real

(* A step within an update keeps what is right, when all labels it stores  *)
(* are those of an operation that was on its way, or read anew.            *)
LEMMA LabelStep ==
    ASSUME RightBehind, RightAhead,
           UNCHANGED <<log, live, lab, historyIdx, historyId>>, cut \subseteq cut',
           \A m \in live \ Lost' :
               /\ labOf'[m] = {} => labOf[m] = {}
               /\ \A C \in labOf'[m] :
                     C \in labOf[m] \/ \E o \in Labelled : o.msg = m /\ o.labels = C
               /\ \A f \in FilesOf(m)' :
                     f \in FilesOf(m) \/ \E o \in Labelled : o.msg = m /\ o.labels = f.labels
               /\ \A o \in Labelled' : o.msg = m => o \in Labelled \/ o.labels = lab[m]
               /\ Alone(m, historyId) =>
                     \/ Busy(m)' \/ Failing'
                     \/ \A f \in FilesOf(m)' : Right(m, f.labels, historyId)
    PROVE  RightBehind' /\ RightAhead'
<1>1. \A m, K, p : (Right(m, K, p)' <=> Right(m, K, p)) /\ (Alone(m, p)' <=> Alone(m, p))
  BY DEF Right, Alone, SetsLabel, Touches, Ahead
<1>2. \A m, p : Right(m, lab[m], p)
  BY DEF Right
<1>3. ASSUME NEW m \in live' \ Lost'
      PROVE  /\ labOf'[m] = {} =>
                  \E n \in Ahead(historyIdx)' : log'[n].msg = m /\ log'[n].op = "add"
             /\ Alone(m, historyIdx)' =>
                  /\ \A f \in FilesOf(m)' : Right(m, f.labels, historyIdx)'
                  /\ \A C \in labOf'[m] : Right(m, C, historyIdx)'
                  /\ \A o \in Labelled' : o.msg = m => Right(m, o.labels, historyIdx)'
  <2>0. m \in live \ Lost
    BY <1>3
  <2>1. labOf'[m] = {} =>
            \E n \in Ahead(historyIdx)' : log'[n].msg = m /\ log'[n].op = "add"
    BY <1>3, <2>0 DEF RightBehind, Ahead
  <2>2. ASSUME Alone(m, historyIdx)'
        PROVE  /\ \A f \in FilesOf(m)' : Right(m, f.labels, historyIdx)'
               /\ \A C \in labOf'[m] : Right(m, C, historyIdx)'
               /\ \A o \in Labelled' : o.msg = m => Right(m, o.labels, historyIdx)'
    <3>1. /\ \A f \in FilesOf(m) : Right(m, f.labels, historyIdx)
          /\ \A C \in labOf[m] : Right(m, C, historyIdx)
          /\ \A o \in Labelled : o.msg = m => Right(m, o.labels, historyIdx)
      BY <1>1, <2>0, <2>2 DEF RightBehind
    <3>2. /\ \A f \in FilesOf(m)' : Right(m, f.labels, historyIdx)
          /\ \A C \in labOf'[m] : Right(m, C, historyIdx)
          /\ \A o \in Labelled' : o.msg = m => Right(m, o.labels, historyIdx)
      BY <1>2, <1>3, <3>1
    <3> QED  BY <1>1, <3>2
  <2> QED  BY <2>1, <2>2
<1>4. ASSUME NEW m \in live' \ Lost', Alone(m, historyId)'
      PROVE  /\ \A o \in Labelled' : o.msg = m => Right(m, o.labels, historyId)'
             /\ \/ Busy(m)' \/ Failing'
                \/ \A f \in FilesOf(m)' : Right(m, f.labels, historyId)'
  <2>0. m \in live \ Lost /\ Alone(m, historyId)
    BY <1>1, <1>4
  <2>1. \A o \in Labelled : o.msg = m => Right(m, o.labels, historyId)
    BY <2>0 DEF RightAhead
  <2>2. \A o \in Labelled' : o.msg = m => Right(m, o.labels, historyId)
    BY <1>2, <1>4, <2>1
  <2> QED  BY <1>1, <1>4, <2>0, <2>2
<1>5. RightBehind'
  BY <1>3 DEF RightBehind
<1>6. RightAhead'
  BY <1>4 DEF RightAhead
<1> QED  BY <1>5, <1>6

(* What a step loses is not needed: the labels of the files are right.     *)
LEMMA KeepStep ==
    ASSUME RightBehind, RightAhead, live \subseteq Msgs,
           UNCHANGED <<log, live, lab, historyIdx, historyId, files, labOf>>, cut \subseteq cut',
           \A o \in Labelled' : o \in Labelled \/ (o.msg \in live => o.labels = lab[o.msg]),
           \A m \in live \ Lost :
               Busy(m) \/ Failing => \/ Busy(m)' \/ Failing'
                                     \/ \A f \in FilesOf(m) : f.labels = lab[m]
    PROVE  RightBehind' /\ RightAhead'
<1>1. ASSUME NEW m \in live \ Lost'
      PROVE  /\ labOf'[m] = {} => labOf[m] = {}
             /\ \A C \in labOf'[m] :
                   C \in labOf[m] \/ \E o \in Labelled : o.msg = m /\ o.labels = C
             /\ \A f \in FilesOf(m)' :
                   f \in FilesOf(m) \/ \E o \in Labelled : o.msg = m /\ o.labels = f.labels
             /\ \A o \in Labelled' : o.msg = m => o \in Labelled \/ o.labels = lab[m]
             /\ Alone(m, historyId) =>
                   \/ Busy(m)' \/ Failing'
                   \/ \A f \in FilesOf(m)' : Right(m, f.labels, historyId)
  <2>0. m \in live \ Lost /\ FilesOf(m)' = FilesOf(m)
    BY <1>1 DEF FilesOf
  <2>1. ASSUME Alone(m, historyId), ~Busy(m)', ~Failing'
        PROVE  \A f \in FilesOf(m)' : Right(m, f.labels, historyId)
    <3>1. CASE Busy(m) \/ Failing
      <4>1. \A f \in FilesOf(m) : f.labels = lab[m]
        BY <2>0, <2>1, <3>1
      <4> QED  BY <2>0, <4>1 DEF Right
    <3>2. CASE ~(Busy(m) \/ Failing)
      BY <2>0, <2>1, <3>2 DEF RightAhead
    <3> QED  BY <3>1, <3>2
  <2> QED  BY <2>0, <2>1
<1> QED  BY <1>1, LabelStep

(* The labels that a worker reads are those of the message.  It drops an   *)
(* addition when the message is gone, or when it finds a file with these   *)
(* labels.                                                                 *)
LEMMA HandKeeps ==
    ASSUME UpdateInv, NEW s \in Shards, NEW w \in hand[s],
           LookUp(s, w) \/ FetchBody(s, w) \/ FetchMetadata(s, w) \/ OpenFile(s, w)
    PROVE  /\ \A o \in Labelled' : o \in Labelled \/ (o.msg \in live => o.labels = lab[o.msg])
           /\ \A m \in live \ Lost :
                 Busy(m) \/ Failing => \/ Busy(m)' \/ Failing'
                                       \/ \A f \in FilesOf(m) : f.labels = lab[m]
<1> USE DEF UpdateInv
<1>0. /\ w \in Hands /\ w.o \in Ops /\ w.o.msg \in Msgs /\ w.o.hid \in Nat
      /\ w.o \in InHand /\ w.key \subseteq Nat /\ keyOf[w.o.msg] \subseteq Nat
      /\ live \subseteq Msgs
  BY InPlaces DEF Hands, Ops, StoreInv, MailboxInv, MailboxTypeOK
<1>1. UNCHANGED <<event, histEvents, ops, pc, cur>>
  BY DEF LookUp, FetchBody, FetchMetadata, OpenFile, Handling, Reading, writer, reader
<1>2. /\ w.at \in {"new", "body", "meta"} => w.o.op = "add"
      /\ w.at = "open" => w.o.op = "labels"
      /\ w.o.op = "add" /\ w.at # "new" => w.key = keyOf[w.o.msg]
  BY DEF KeyRead
<1>3. Real(w.o)
  BY <1>2 DEF Real, LookUp, FetchBody, FetchMetadata, OpenFile
<1>4. ASSUME NEW v \in Hands, hand' = [hand EXCEPT ![s] = {v}], v.o.msg = w.o.msg
      PROVE  /\ \A o \in Labelled' :
                   o \in Labelled \/ (o = v.o /\ (o.op = "labels" \/ v.at = "put"))
             /\ \A m \in Msgs : Busy(m) => Busy(m)' \/ (m = w.o.msg /\ ~Real(v.o))
             /\ v.o.op = "error" => Failing'
             /\ Failing => Failing'
  BY <1>1, <1>3, <1>4, HoldLabels
<1>5. CASE LookUp(s, w)
  <2> PICK v : v = [at |-> IF keyOf[w.o.msg] = {} THEN "body" ELSE "meta", o |-> w.o,
                    key |-> keyOf[w.o.msg]]
    OBVIOUS
  <2>1. v \in Hands /\ v.o = w.o /\ v.at # "put" /\ v.o.op = "add"
    BY <1>0, <1>2, <1>5 DEF Hands, LookUp
  <2>2. hand' = [hand EXCEPT ![s] = {v}]
    BY <1>5 DEF LookUp, Holds
  <2> QED  BY <1>0, <1>3, <1>4, <2>1, <2>2
<1>6. CASE FetchBody(s, w)
  <2>0. w.o.op = "add"
    BY <1>2, <1>6 DEF FetchBody
  <2>1. CASE w.o.msg \in Readable /\ Holds(s, "meta", w.o, {})
    <3> PICK v : v = [at |-> "meta", o |-> w.o, key |-> {}]
      OBVIOUS
    <3>1. v \in Hands /\ v.o = w.o /\ v.at # "put" /\ v.o.op = "add"
      BY <1>0, <2>0 DEF Hands
    <3>2. hand' = [hand EXCEPT ![s] = {v}]
      BY <2>1 DEF Holds
    <3> QED  BY <1>0, <1>3, <1>4, <3>1, <3>2
  <2>2. CASE w.o.msg \notin Readable /\ Holds(s, "put", NoOp(w.o.msg), {})
    <3> PICK v : v = [at |-> "put", o |-> NoOp(w.o.msg), key |-> {}]
      OBVIOUS
    <3>1. v \in Hands /\ v.o.msg = w.o.msg /\ v.o.op = "none"
      BY <1>0 DEF Hands, Ops, NoOp
    <3>2. hand' = [hand EXCEPT ![s] = {v}]
      BY <2>2 DEF Holds
    <3>3. w.o.msg \notin live \ Lost
      BY <2>2 DEF Readable
    <3>4. ASSUME NEW o \in Labelled', o = v.o PROVE FALSE
      <4>1. o.op \in {"labels", "add"}
        BY DEF Labelled
      <4> QED  BY <3>1, <3>4, <4>1
    <3> QED  BY <1>0, <1>4, <3>1, <3>2, <3>3, <3>4
  <2> QED  BY <1>6, <2>1, <2>2 DEF FetchBody
<1>7. CASE FetchMetadata(s, w)
  <2>0. w.at = "meta" /\ w.o.op = "add" /\ w.key = keyOf[w.o.msg]
    BY <1>2, <1>7 DEF FetchMetadata
  <2>1. CASE w.o.msg \notin live /\ Holds(s, "put", [w.o EXCEPT !.op = "error"], {})
    <3> PICK v : v = [at |-> "put", o |-> [w.o EXCEPT !.op = "error"], key |-> {}]
      OBVIOUS
    <3>1. v \in Hands /\ v.o.msg = w.o.msg
      BY <1>0 DEF Hands, Ops
    <3>2. hand' = [hand EXCEPT ![s] = {v}]
      BY <2>1 DEF Holds
    <3> QED  BY <1>0, <1>4, <2>1, <3>1, <3>2
  <2>2. ASSUME w.o.msg \in live,
               NEW k, k = Kind(w.o.msg, lab[w.o.msg], w.key),
               Holds(s, IF k = "labels" THEN "open" ELSE "put",
                        [w.o EXCEPT !.op = k, !.labels = lab[w.o.msg]], w.key)
        PROVE  /\ \A o \in Labelled' :
                     o \in Labelled \/ (o.msg \in live => o.labels = lab[o.msg])
               /\ \A m \in live \ Lost :
                     Busy(m) \/ Failing => \/ Busy(m)' \/ Failing'
                                           \/ \A f \in FilesOf(m) : f.labels = lab[m]
    <3> PICK v : v = [at |-> IF k = "labels" THEN "open" ELSE "put",
                      o |-> [w.o EXCEPT !.op = k, !.labels = lab[w.o.msg]], key |-> w.key]
      OBVIOUS
    <3>0. k \in {"add", "labels", "none"}
      BY <2>2 DEF Kind
    <3>1. v.o \in Ops /\ v.o.msg = w.o.msg /\ v.o.labels = lab[w.o.msg] /\ v.o.op = k
      BY <1>0, <3>0 DEF Ops, MailboxInv, MailboxTypeOK
    <3>2. v \in Hands
      BY <1>0, <3>1 DEF Hands
    <3>3. hand' = [hand EXCEPT ![s] = {v}]
      BY <2>2 DEF Holds
    <3>4. ASSUME k = "none", w.o.msg \notin cut
          PROVE  \A f \in FilesOf(w.o.msg) : f.labels = lab[w.o.msg]
      <4>1. w.key # {} /\ ~LabelsChanged(w.o.msg, lab[w.o.msg])
        BY <2>2, <3>4 DEF Kind
      <4>2. keyOf[w.o.msg] # {} /\ labOf[w.o.msg] = {lab[w.o.msg]}
        BY <2>0, <4>1 DEF LabelsChanged
      <4>3. ~(pc \in Writing /\ cur.msg = w.o.msg)
        BY <1>0, <2>0, AdditionAlone, CurReal
      <4>4. One(w.o.msg)
        BY <1>0, <3>4, <4>3 DEF StoreInv, MidWrite
      <4> QED  BY <4>2, <4>4 DEF One
    <3>5. k # "none" => Real(v.o)
      BY <3>0, <3>1 DEF Real
    <3> QED  BY <1>0, <1>4, <3>1, <3>2, <3>3, <3>4, <3>5
  <2> QED  BY <1>7, <2>1, <2>2 DEF FetchMetadata
<1>8. CASE OpenFile(s, w)
  <2>0. w.at = "open" /\ w.o.op = "labels" /\ w.o \in Labelled
    BY <1>0, <1>2, <1>8 DEF OpenFile, Labelled, OnWay
  <2> PICK v : v = [at |-> "put",
                    o |-> IF FilesAt(w.key) = {} THEN [w.o EXCEPT !.op = "error"] ELSE w.o,
                    key |-> {}]
    OBVIOUS
  <2>1. hand' = [hand EXCEPT ![s] = {v}]
    BY <1>8 DEF OpenFile, Holds
  <2>2. CASE FilesAt(w.key) = {}
    <3>1. v.o \in Ops /\ v.o.msg = w.o.msg /\ v.o.op = "error"
      BY <1>0, <2>2 DEF Ops
    <3>2. v \in Hands
      BY <3>1 DEF Hands
    <3>3. Failing'
      BY <1>4, <2>1, <3>1, <3>2
    <3>4. ASSUME NEW o \in Labelled', o = v.o PROVE FALSE
      <4>1. o.op \in {"labels", "add"}
        BY DEF Labelled
      <4> QED  BY <3>1, <3>4, <4>1
    <3> QED  BY <1>4, <2>1, <3>1, <3>2, <3>3, <3>4
  <2>3. CASE FilesAt(w.key) # {}
    <3>1. v \in Hands /\ v.o = w.o
      BY <1>0, <2>3 DEF Hands
    <3> QED  BY <1>0, <1>3, <1>4, <2>0, <2>1, <3>1
  <2> QED  BY <2>2, <2>3
<1> QED  BY <1>5, <1>6, <1>7, <1>8

(* The steps of the reader and of the workers, save for the next record,   *)
(* and those that only move operations.                                    *)
LEMMA LabelsMoved ==
    ASSUME UpdateInv, RightBehind, RightAhead,
           \/ HistoryGone \/ GetHistory \/ SendEvent \/ RecordsDone
           \/ \E s \in Shards : TakeEvent(s)
           \/ \E s \in Shards : \E w \in hand[s] :
                 LookUp(s, w) \/ FetchBody(s, w) \/ FetchMetadata(s, w) \/ OpenFile(s, w)
           \/ \E s \in Shards : \E w \in hand[s] : Put(s, w)
           \/ TakeOp \/ OpWritten \/ StartUpdate
    PROVE  RightBehind' /\ RightAhead'
<1> USE DEF UpdateInv
<1>0. live \subseteq Msgs
  BY DEF MailboxInv, MailboxTypeOK
<1>1. UNCHANGED <<log, live, lab, historyIdx, historyId, files, labOf, cut>>
  <2>1. CASE TakeOp \/ OpWritten
    BY <2>1 DEF TakeOp, OpWritten, mailbox, store, reader, cutOff
  <2>2. CASE StartUpdate
    BY <2>2, StartStep DEF mailbox, store, cutOff
  <2>3. CASE ~(TakeOp \/ OpWritten \/ StartUpdate)
    BY <2>3, PipeStep DEF mailbox, store, cutOff
  <2> QED  BY <2>1, <2>2, <2>3
<1>2. ASSUME Preserves PROVE RightBehind' /\ RightAhead'
  <2>1. \A m \in live \ Lost : Busy(m) \/ Failing => Busy(m)' \/ Failing'
    BY <1>0, <1>2 DEF Preserves
  <2> QED  BY <1>0, <1>1, <1>2, <2>1, KeepStep DEF Preserves
<1>3. CASE GetHistory \/ RecordsDone
  <2>1. UNCHANGED <<event, histEvents, hand, ops, keyOf, pc, cur>>
    BY <1>3 DEF GetHistory, RecordsDone, channels, Reading, store, writer
  <2> QED  BY <1>2, <2>1, StillMoves
<1>4. CASE HistoryGone \/ SendEvent
  BY <1>2, <1>4, GoneMoves, SendMoves
<1>5. ASSUME NEW s \in Shards, TakeEvent(s) \/ \E w \in hand[s] : Put(s, w)
      PROVE  RightBehind' /\ RightAhead'
  BY <1>2, <1>5, TakeMoves, PutMoves
<1>6. ASSUME NEW s \in Shards, NEW w \in hand[s],
             LookUp(s, w) \/ FetchBody(s, w) \/ FetchMetadata(s, w) \/ OpenFile(s, w)
      PROVE  RightBehind' /\ RightAhead'
  <2>1. /\ \A o \in Labelled' : o \in Labelled \/ (o.msg \in live => o.labels = lab[o.msg])
        /\ \A m \in live \ Lost :
              Busy(m) \/ Failing => \/ Busy(m)' \/ Failing'
                                    \/ \A f \in FilesOf(m) : f.labels = lab[m]
    BY <1>6, HandKeeps
  <2> QED  BY <1>0, <1>1, <2>1, KeepStep
<1>7. CASE TakeOp
  BY <1>2, <1>7, OpMoves
<1>8. CASE OpWritten
  <2>1. UNCHANGED <<event, histEvents, hand, ops, keyOf>>
    BY <1>8 DEF OpWritten, reader, channels, store
  <2>2. {pc, pc'} \intersect Writing = {} /\ pc # "failed"
    BY <1>8 DEF OpWritten, Writing
  <2> QED  BY <1>2, <2>1, <2>2, StillMoves
<1>9. CASE StartUpdate
  <2>1. UNCHANGED <<event, histEvents, hand, ops, keyOf>>
    BY <1>9 DEF StartUpdate, channels, store
  <2>2. {pc, pc'} \intersect Writing = {} /\ pc # "failed"
    BY <1>9 DEF StartUpdate, Writing
  <2> QED  BY <1>2, <2>1, <2>2, StillMoves
<1> QED  BY <1>3, <1>4, <1>5, <1>6, <1>7, <1>8, <1>9

(* A message whose deletion is written is gone.                            *)
LEMMA DeletedGone ==
    ASSUME UpdateInv, pc \in Writing, cur.op = "delete"
    PROVE  cur.msg \notin live
<1>1. cur \in OnWay /\ Real(cur)
  BY CurReal
<1>2. cur.hid \in DOMAIN log /\ log[cur.hid].msg = cur.msg /\ log[cur.hid].op = "delete"
  BY <1>1 DEF UpdateInv, FromLog
<1> QED  BY <1>2 DEF UpdateInv, MailboxInv, RecordHolds

(* A write stores the labels of its operation.                             *)
LEMMA WriteStores ==
    ASSUME UpdateInv, WriteOp, NEW m \in live \ Lost
    PROVE  /\ labOf'[m] = {} => labOf[m] = {}
           /\ \A C \in labOf'[m] :
                 C \in labOf[m] \/ (pc \in Writing /\ m = cur.msg /\ cur.op # "delete"
                                    /\ C = cur.labels)
           /\ \A f \in FilesOf(m)' :
                 f \in FilesOf(m) \/ (pc \in Writing /\ m = cur.msg /\ cur.op # "delete"
                                      /\ f.labels = cur.labels)
<1> USE DEF UpdateInv
<1>0. m \in Msgs /\ pc \in Writing /\ labOf \in [Msgs -> SUBSET (SUBSET Labels)]
  BY UpdateFramed DEF MailboxInv, MailboxTypeOK, StoreInv
<1>1. CASE m # cur.msg
  BY <1>0, <1>1, UpdateFramed DEF WriteResult
<1>2. CASE m = cur.msg
  <2>0. cur.op # "delete"
    BY <1>0, <1>2, DeletedGone
  <2>1. ASSUME files' \subseteq files PROVE FilesOf(m)' \subseteq FilesOf(m)
    BY <2>1 DEF FilesOf
  <2>2. ASSUME Deliver(cur.msg, cur.labels)
        PROVE  \A f \in FilesOf(m)' : f \in FilesOf(m) \/ f.labels = cur.labels
    BY <1>0, <1>2, <2>2, DeliverFile
  <2>3. CASE WriteAdd
    BY <1>0, <1>2, <2>0, <2>2, <2>3 DEF WriteAdd
  <2>4. CASE WriteLabels
    BY <1>0, <1>2, <2>0, <2>1, <2>2, <2>4 DEF WriteLabels, store
  <2>5. CASE SetMsgLabels
    <3>1. labOf'[m] = {cur.labels} /\ files' = files
      BY <1>0, <1>2, <2>5 DEF SetMsgLabels
    <3> QED  BY <1>0, <1>2, <2>0, <2>1, <3>1
  <2>6. CASE SetMsgKey
    BY <2>1, <2>6 DEF SetMsgKey
  <2>7. CASE RemoveOld
    <3>1. labOf' = labOf /\ files' \subseteq files
      BY <2>7 DEF RemoveOld, Remove
    <3> QED  BY <2>1, <3>1
  <2>8. CASE WriteDel
    BY <2>0, <2>8 DEF WriteDel
  <2>9. CASE DelMsgKey \/ DelMsgLabels
    BY <2>0, <2>9 DEF DelMsgKey, DelMsgLabels, CurKind
  <2> QED
    BY <2>3, <2>4, <2>5, <2>6, <2>7, <2>8, <2>9 DEF WriteOp, WriteOperation
<1> QED  BY <1>1, <1>2

(* When a write is done the file has the labels of its operation, or there *)
(* is none.                                                                *)
LEMMA WriteLabelled ==
    ASSUME UpdateInv, WriteOp, cur.msg \in live \ Lost, pc' = "written"
    PROVE  \A f \in FilesOf(cur.msg)' : f.labels = cur.labels
<1> USE DEF UpdateInv
<1> PICK m : m = cur.msg
  OBVIOUS
<1>0. m \in Msgs \ cut /\ pc \in Writing /\ cur.op # "delete" /\ cur' = cur
  BY UpdateFramed, DeletedGone DEF MailboxInv, MailboxTypeOK
<1>1. Dropped \/ \E f \in files' : FilesOf(m)' = {f} /\ f.labels = cur.labels
  <2>1. \/ Dropped
        \/ \E f \in files' : FilesOf(cur.msg)' = {f} /\ f.labels = cur.labels
    BY <1>0, UpdateFramed DEF WriteResult
  <2> QED  BY <1>0, <2>1
<1>2. ASSUME Dropped PROVE FilesOf(m)' = {}
  <2>1. One(m) /\ keyOf[m] = {} /\ pc = "write" /\ cur.op = "labels"
    BY <1>0, <1>2 DEF Dropped, StoreInv, MidWrite
  <2>2. m \notin Mirror /\ (m \in Mirror' <=> m \in Mirror)
    BY <1>0, <2>1, MirrorWrite DEF One, Mirror
  <2> QED  BY <1>0, <2>2 DEF Mirror
<1>3. FilesOf(cur.msg)' = FilesOf(m)'
  BY <1>0 DEF FilesOf
<1> QED  BY <1>0, <1>1, <1>2, <1>3

(* A step of a write.                                                      *)
LEMMA LabelsWritten ==
    ASSUME UpdateInv, RightBehind, RightAhead, WriteOp
    PROVE  RightBehind' /\ RightAhead'
<1> USE DEF UpdateInv
<1>0. /\ UNCHANGED <<log, live, lab, historyIdx, historyId, cut>> /\ cur' = cur
      /\ pc \in Writing /\ Real(cur) /\ cur \in Ops /\ cur.msg \in Msgs /\ live \subseteq Msgs
      /\ UNCHANGED <<event, histEvents, hand, ops>>
      /\ pc' \in (Writing \ {"write"}) \union {"written", "failed"}
  BY UpdateFramed, CurReal DEF mailbox, reader, cutOff, channels, MailboxInv, MailboxTypeOK
<1>1. /\ InHist' = InHist /\ InHand' = InHand /\ Elements(ops)' = Elements(ops)
      /\ InWrite = {cur} /\ InWrite' = (IF pc' \in Writing THEN {cur} ELSE {})
  BY <1>0 DEF InHist, InHand, InWrite, Elements
<1>2. OnWay' \subseteq OnWay /\ OnWay \subseteq OnWay' \union {cur}
      /\ (pc' \in Writing => OnWay' = OnWay)
  BY <1>0, <1>1 DEF OnWay
<1>3. Labelled' \subseteq Labelled
  BY <1>0, <1>1, <1>2 DEF Labelled
<1>4. cur.op # "delete" => cur \in Labelled
  BY <1>0, <1>1, CurReal DEF Labelled, Real
<1>5. \A m : m # cur.msg \/ pc' \in Writing => (Busy(m) => Busy(m)')
  BY <1>2 DEF Busy
<1>6. Failing => Failing'
  <2>1. pc # "failed" /\ cur.op # "error"
    BY <1>0 DEF Writing, Real
  <2> QED  BY <1>2, <2>1 DEF Failing
<1>7. Busy(cur.msg) /\ (pc' = "failed" => Failing')
  BY <1>0, CurReal DEF Busy, Failing
<1>8. ASSUME NEW m \in live \ Lost', Alone(m, historyId), ~Busy(m)', ~Failing'
      PROVE  \A f \in FilesOf(m)' : Right(m, f.labels, historyId)
  <2>1. CASE m = cur.msg
    <3>1. pc' = "written"
      BY <1>0, <1>5, <1>7, <1>8, <2>1
    <3>2. \A f \in FilesOf(m)' : f.labels = cur.labels
      <4>1. \A f \in FilesOf(cur.msg)' : f.labels = cur.labels
        BY <1>0, <1>8, <2>1, <3>1, WriteLabelled
      <4>2. FilesOf(cur.msg)' = FilesOf(m)'
        BY <1>0, <2>1 DEF FilesOf
      <4> QED  BY <4>1, <4>2
    <3>3. cur \in Labelled
      BY <1>0, <1>4, <1>8, <2>1, DeletedGone
    <3>4. Right(m, cur.labels, historyId)
      BY <1>0, <1>8, <2>1, <3>3 DEF RightAhead
    <3> QED  BY <3>2, <3>4
  <2>2. CASE m # cur.msg
    <3>1. ~Busy(m) /\ ~Failing
      BY <1>5, <1>6, <1>8, <2>2
    <3>2. FilesOf(m)' = FilesOf(m)
      BY <1>0, <1>8, <2>2, UpdateFramed DEF WriteResult
    <3> QED  BY <1>0, <1>8, <3>1, <3>2 DEF RightAhead
  <2> QED  BY <2>1, <2>2
<1>9. ASSUME NEW m \in live \ Lost'
      PROVE  /\ labOf'[m] = {} => labOf[m] = {}
             /\ \A C \in labOf'[m] :
                   C \in labOf[m] \/ \E o \in Labelled : o.msg = m /\ o.labels = C
             /\ \A f \in FilesOf(m)' :
                   f \in FilesOf(m) \/ \E o \in Labelled : o.msg = m /\ o.labels = f.labels
             /\ \A o \in Labelled' : o.msg = m => o \in Labelled \/ o.labels = lab[m]
             /\ Alone(m, historyId) =>
                   \/ Busy(m)' \/ Failing'
                   \/ \A f \in FilesOf(m)' : Right(m, f.labels, historyId)
  BY <1>0, <1>3, <1>4, <1>8, <1>9, WriteStores
<1> QED  BY <1>0, <1>9, LabelStep

(* A record that is made by the labels of the cache is right where these   *)
(* are, for it is the first of its message above the committed index.      *)
LEMMA EventRight ==
    ASSUME UpdateInv, RightBehind, NEW n \in DOMAIN log, n > historyIdx,
           NEW m \in live \ Lost, log[n].msg = m, log[n].op = "labels", labOf[m] # {},
           Alone(m, historyIdx),
           NEW L, L = ((UNION labOf[m]) \union log[n].ladd) \ log[n].lrem
    PROVE  /\ Right(m, L, historyIdx)
           /\ Alone(m, n) => Right(m, L, n)
<1> USE DEF UpdateInv
<1> PICK U, A, R : U = UNION labOf[m] /\ A = log[n].ladd /\ R = log[n].lrem
  OBVIOUS
<1>1. Right(m, U, historyIdx)
  BY RightUnion DEF RightBehind
<1>2. L = (U \union A) \ R
  OBVIOUS
<1>3. n \in Ahead(historyIdx) /\ \A k \in DOMAIN log : k \in Nat
  BY MailboxAssumption DEF Ahead, MailboxInv, MailboxTypeOK
<1>4. \A l \in A \union R : SetsLabel(n, m, l)
  BY DEF SetsLabel, Touches
<1>5. Right(m, L, historyIdx)
  <2> SUFFICES ASSUME NEW l \in Labels, \A k \in Ahead(historyIdx) : ~SetsLabel(k, m, l)
               PROVE  l \in lab[m] <=> l \in L
    BY DEF Right
  <2>1. l \notin A /\ l \notin R
    BY <1>3, <1>4
  <2>2. l \in lab[m] <=> l \in U
    BY <1>1 DEF Right
  <2> QED  BY <1>2, <2>1, <2>2
<1>6. ASSUME Alone(m, n) PROVE Right(m, L, n)
  <2> SUFFICES ASSUME NEW l \in Labels, \A k \in Ahead(n) : ~SetsLabel(k, m, l)
               PROVE  l \in lab[m] <=> l \in L
    BY DEF Right
  <2>1. CASE l \in A \union R
    <3>1. RecordHolds(n)
      BY DEF MailboxInv
    <3>2. A \intersect R = {} /\ (l \in lab[m] <=> l \in A)
      BY <2>1, <3>1 DEF RecordHolds, SetsLabel
    <3> QED  BY <1>2, <2>1, <3>2
  <2>2. CASE l \notin A \union R
    <3>1. ASSUME NEW k \in Ahead(historyIdx), SetsLabel(k, m, l) PROVE FALSE
      <4>1. k \in DOMAIN log /\ k \in Nat /\ n \in Nat /\ log[k].msg = m
        BY <1>3, <3>1 DEF Ahead, SetsLabel, Touches
      <4>2. k # n
        BY <2>2, <3>1 DEF SetsLabel, Touches
      <4>3. ~(k <= n)
        BY <1>6, <4>1, <4>2 DEF Alone
      <4>4. k \in Ahead(n)
        BY <4>1, <4>3 DEF Ahead
      <4> QED  BY <3>1, <4>4
    <3>2. l \in lab[m] <=> l \in U
      BY <1>1, <3>1 DEF Right
    <3> QED  BY <1>2, <2>2, <3>2
  <2> QED  BY <2>1, <2>2
<1> QED  BY <1>5, <1>6

(* What the next record does to the labels.                                *)
LEMMA LabelsRead ==
    ASSUME UpdateInv, RightBehind, RightAhead, NextRecord
    PROVE  RightBehind' /\ RightAhead'
<1> USE DEF UpdateInv
<1> PICK n : n = historyId + 1
  OBVIOUS
<1>1. /\ historyId' = n /\ event' = EventOf(n) /\ event = {} /\ n \in DOMAIN log
      /\ historyId \in Nat /\ n \in Nat /\ historyIdx \in Nat /\ historyIdx < n
      /\ \A k \in Nat : k <= historyId => k <= n
      /\ \A k \in Nat : k <= n <=> k <= historyId \/ k = n
      /\ \A k \in Nat : k > historyId <=> k > n \/ k = n
      /\ ~(n <= historyId)
  <2>1. DOMAIN log = Base + 1 .. top /\ top \in Nat /\ Base \in Nat
    BY MailboxAssumption DEF MailboxInv, MailboxTypeOK
  <2>2. historyId < last /\ last <= top /\ Base <= historyIdx /\ historyIdx <= historyId
    BY DEF NextRecord, UpdateRun
  <2>3. historyId \in Nat /\ last \in Nat /\ historyIdx \in Nat
    BY DEF UpdateTypes
  <2>4. event = {}
    BY DEF NextRecord, UpdateRun
  <2> QED  BY <2>1, <2>2, <2>3, <2>4 DEF NextRecord
<1>2. /\ UNCHANGED <<histEvents, hand, ops, log, live, lab, files, keyOf, labOf, pc, cur, cut,
                     historyIdx>>
      /\ live \subseteq Msgs /\ \A k \in DOMAIN log : k \in Nat
  BY MailboxAssumption DEF NextRecord, Reading, channels, mailbox, store, writer, cutOff,
     MailboxInv, MailboxTypeOK
<1>3. /\ \A v, w \in event' : v = w
      /\ \A o \in event' : o.msg = log[n].msg /\ o.hid = n /\ o.op = log[n].op
      /\ log[n].op # "labels" => event' # {}
  BY <1>1, EventIs
<1>4. /\ InHist' = InHist /\ InHand' = InHand /\ Elements(ops)' = Elements(ops)
      /\ InWrite' = InWrite
  BY <1>2 DEF InHist, InHand, InWrite, Elements
<1>5. OnWay' = OnWay \union event'
  BY <1>1, <1>4 DEF OnWay
<1>6. Labelled' = Labelled \union {o \in event' : o.op = "labels"}
  BY <1>2, <1>4, <1>5 DEF Labelled
<1>7. \A m, K, p : (Right(m, K, p)' <=> Right(m, K, p)) /\ (Alone(m, p)' <=> Alone(m, p))
  BY <1>2 DEF Right, Alone, SetsLabel, Touches, Ahead
<1>8. (\A m : Busy(m) => Busy(m)') /\ (Failing => Failing')
  BY <1>2, <1>5 DEF Busy, Failing
<1>9. \A m : FilesOf(m)' = FilesOf(m)
  BY <1>2 DEF FilesOf
<1>10. \A o \in OnWay : Real(o) =>
            o.hid \in DOMAIN log /\ log[o.hid].msg = o.msg /\ o.hid <= historyId
  BY DEF FromLog
<1>11. \A m : Alone(m, n) => Alone(m, historyId)
  BY <1>1, <1>2 DEF Alone
<1>12. \A m : Alone(m, historyId) => Alone(m, historyIdx)
  <2>1. \A k \in Nat : k <= historyIdx => k <= historyId
    BY <1>1 DEF UpdateRun
  <2> QED  BY <1>2, <2>1 DEF Alone
<1>13. ASSUME NEW m \in live \ Lost, log[n].msg = m, NEW o \in event', o.op = "labels",
              labOf[m] # {}
       PROVE  o.labels = ((UNION labOf[m]) \union log[n].ladd) \ log[n].lrem
  <2>1. log[n].op = "labels"
    BY <1>3, <1>13
  <2> QED  BY <1>1, <1>13, <2>1 DEF EventOf, ComputeLabels
<1>14. ASSUME NEW m \in live \ Lost
       PROVE  /\ labOf[m] = {} =>
                   \E k \in Ahead(historyIdx) : log[k].msg = m /\ log[k].op = "add"
              /\ Alone(m, historyIdx) =>
                   /\ \A f \in FilesOf(m) : Right(m, f.labels, historyIdx)
                   /\ \A C \in labOf[m] : Right(m, C, historyIdx)
                   /\ \A o \in Labelled' : o.msg = m => Right(m, o.labels, historyIdx)
  <2>1. ASSUME Alone(m, historyIdx), NEW o \in event', o.op = "labels", o.msg = m
        PROVE  Right(m, o.labels, historyIdx)
    <3>0. log[n].msg = m /\ log[n].op = "labels"
      BY <1>3, <2>1
    <3>1. CASE labOf[m] = {}
      BY <1>14, <3>1, AddRight DEF RightBehind
    <3>2. CASE labOf[m] # {}
      BY <1>1, <1>13, <1>14, <2>1, <3>0, <3>2, EventRight
    <3> QED  BY <3>1, <3>2
  <2> QED  BY <1>6, <1>14, <2>1 DEF RightBehind
<1>15. RightBehind'
  <2>1. \A m : m \in live' \ Lost' => m \in live \ Lost
    BY <1>2
  <2>2. \A m : Ahead(historyIdx)' = Ahead(historyIdx) /\ log' = log /\ labOf' = labOf
               /\ historyIdx' = historyIdx
    BY <1>2 DEF Ahead
  <2>3. ASSUME NEW m \in live' \ Lost'
        PROVE  /\ labOf'[m] = {} =>
                    \E k \in Ahead(historyIdx)' : log'[k].msg = m /\ log'[k].op = "add"
               /\ Alone(m, historyIdx)' =>
                    /\ \A f \in FilesOf(m)' : Right(m, f.labels, historyIdx)'
                    /\ \A C \in labOf'[m] : Right(m, C, historyIdx)'
                    /\ \A o \in Labelled' : o.msg = m => Right(m, o.labels, historyIdx)'
    <3>1. Alone(m, historyIdx)' => Alone(m, historyIdx)
      BY <1>2, <1>7
    <3>2. \A K : Right(m, K, historyIdx) => Right(m, K, historyIdx)'
      BY <1>2, <1>7
    <3> QED  BY <1>9, <1>14, <2>1, <2>2, <2>3, <3>1, <3>2
  <2> QED  BY <2>3 DEF RightBehind
<1>16. ASSUME NEW m \in live \ Lost, log[n].msg # m, Alone(m, n)
       PROVE  /\ \A o \in Labelled' : o.msg = m => Right(m, o.labels, n)
              /\ \/ Busy(m)' \/ Failing'
                 \/ \A f \in FilesOf(m) : Right(m, f.labels, n)
  <2>1. ASSUME NEW K, Right(m, K, historyId) PROVE Right(m, K, n)
    <3> SUFFICES ASSUME NEW k \in Ahead(historyId), NEW l, SetsLabel(k, m, l)
                 PROVE  k \in Ahead(n)
      BY <2>1 DEF Right
    <3>1. k \in DOMAIN log /\ k > historyId /\ log[k].msg = m
      BY DEF Ahead, SetsLabel, Touches
    <3>2. k # n
      BY <1>16, <3>1
    <3> QED  BY <1>1, <1>2, <3>1, <3>2 DEF Ahead
  <2>2. \A o \in Labelled' : o.msg = m => o \in Labelled
    BY <1>3, <1>6, <1>16
  <2> QED  BY <1>8, <1>11, <1>16, <2>1, <2>2 DEF RightAhead
<1>17. ASSUME NEW m \in live \ Lost, log[n].msg = m, Alone(m, n)
       PROVE  /\ \A o \in Labelled' : o.msg = m => Right(m, o.labels, n)
              /\ \/ Busy(m)' \/ Failing'
                 \/ \A f \in FilesOf(m) : Right(m, f.labels, n)
  <2>1. \A k \in DOMAIN log : k <= historyId => log[k].msg # m
    BY <1>1, <1>2, <1>17 DEF Alone
  <2>2. ASSUME NEW o \in OnWay, Real(o), o.msg = m PROVE FALSE
    BY <1>10, <2>1, <2>2
  <2>3. \A o \in Labelled' : o.msg = m => o \in event' /\ o.op = "labels"
    BY <1>6, <2>2, LabelledReal
  <2>4. CASE event' # {}
    <3>1. Busy(m)'
      <4> PICK o \in event' : o.msg = m /\ o.op = log[n].op
        BY <1>3, <1>17, <2>4
      <4>1. Real(o)
        BY <1>1 DEF MailboxInv, MailboxTypeOK, Records, Real
      <4> QED  BY <1>5, <4>1 DEF Busy
    <3>2. ASSUME NEW o \in event', o.op = "labels" PROVE Right(m, o.labels, n)
      <4>0. log[n].op = "labels"
        BY <1>3, <3>2
      <4>1. labOf[m] # {}
        <5> SUFFICES ASSUME labOf[m] = {} PROVE FALSE
          OBVIOUS
        <5> PICK k \in Ahead(historyIdx) : log[k].msg = m /\ log[k].op = "add"
          BY <1>17 DEF RightBehind
        <5>1. k \in DOMAIN log /\ k \in Nat /\ k # n /\ RecordHolds(k)
          BY <1>2, <4>0 DEF Ahead, MailboxInv
        <5>2. ~(n < k)
          BY <1>1, <1>17, <5>1 DEF RecordHolds
        <5>3. k <= n
          BY <1>1, <5>1, <5>2
        <5> QED  BY <1>1, <1>17, <5>1, <5>3 DEF Alone
      <4>2. Alone(m, historyIdx)
        BY <1>11, <1>12, <1>17
      <4> QED  BY <1>1, <1>13, <1>17, <3>2, <4>0, <4>1, <4>2, EventRight
    <3> QED  BY <2>3, <3>1, <3>2
  <2>5. CASE event' = {}
    <3>0. log[n].op = "labels"
      BY <1>3, <2>5
    <3>1. \A o \in Labelled' : o.msg # m
      BY <2>3, <2>5
    <3>2. ~(pc \in Writing /\ cur.msg = m)
      BY <2>2, CurReal
    <3>3. One(m)
      BY <1>2, <1>17, <3>2 DEF StoreInv, MidWrite
    <3>4. ASSUME NEW f \in FilesOf(m) PROVE Right(m, f.labels, n)
      <4>1. keyOf[m] # {} /\ labOf[m] = {f.labels} /\ labOf[m] # {}
        BY <3>3, <3>4 DEF One
      <4>2. PICK L : L = ((UNION labOf[m]) \union log[n].ladd) \ log[n].lrem
        OBVIOUS
      <4>3. ~LabelsChanged(m, L)
        BY <1>1, <1>17, <2>5, <3>0, <4>1, <4>2 DEF EventOf, ComputeLabels
      <4>4. L = f.labels
        BY <4>1, <4>3 DEF LabelsChanged
      <4>5. Alone(m, historyIdx)
        BY <1>11, <1>12, <1>17
      <4> QED  BY <1>1, <1>17, <3>0, <4>1, <4>2, <4>4, <4>5, EventRight
    <3> QED  BY <3>1, <3>4
  <2> QED  BY <2>4, <2>5
<1>18. RightAhead'
  <2> SUFFICES ASSUME NEW m \in live' \ Lost', Alone(m, historyId)'
               PROVE  /\ \A o \in Labelled' : o.msg = m => Right(m, o.labels, historyId)'
                      /\ \/ Busy(m)' \/ Failing'
                         \/ \A f \in FilesOf(m)' : Right(m, f.labels, historyId)'
    BY DEF RightAhead
  <2>1. m \in live \ Lost /\ Alone(m, n)
    BY <1>1, <1>2, <1>7
  <2>2. \A K : Right(m, K, n) => Right(m, K, historyId)'
    BY <1>1, <1>7
  <2> QED  BY <1>9, <1>16, <1>17, <2>1, <2>2
<1> QED  BY <1>15, <1>18

(* A change of the mailbox: a label that it makes wrong has its record     *)
(* ahead.                                                                  *)
LEMMA GmailRight ==
    ASSUME UpdateInv, Gmail, NEW m \in live', NEW p \in Nat, p <= top
    PROVE  /\ \/ \E k \in Ahead(p)' : log'[k].msg = m /\ log'[k].op = "add"
              \/ m \in live /\ \A K : Right(m, K, p) => Right(m, K, p)'
           /\ Alone(m, p)' => Alone(m, p)
<1> USE DEF UpdateInv
<1>1. /\ \A k \in DOMAIN log : k \in DOMAIN log' /\ log'[k] = log[k]
      /\ MailboxTypeOK
  BY GmailMailbox DEF MailboxInv
<1>2. Alone(m, p)' => Alone(m, p)
  BY <1>1 DEF Alone
<1>3. ASSUME NEW k \in Ahead(p), NEW l, SetsLabel(k, m, l)
      PROVE  k \in Ahead(p)' /\ SetsLabel(k, m, l)'
  BY <1>1, <1>3 DEF Ahead, SetsLabel, Touches
<1>4. ASSUME lab'[m] = lab[m], NEW K, Right(m, K, p) PROVE Right(m, K, p)'
  BY <1>3, <1>4 DEF Right
<1>5. ASSUME NEW x \in Msgs, NEW L \in SUBSET Labels, NewMessage(x, L)
      PROVE  \/ \E k \in Ahead(p)' : log'[k].msg = m /\ log'[k].op = "add"
             \/ m \in live /\ \A K : Right(m, K, p) => Right(m, K, p)'
  <2> DEFINE r == [op |-> "add", msg |-> x, ladd |-> {}, lrem |-> {}]
  <2>1. r \in Records /\ LogRecord(r) /\ live' = live \union {x}
    BY <1>5 DEF NewMessage, Records
  <2>2. top + 1 \in Ahead(p)' /\ log'[top + 1] = r
    BY <1>1, <2>1, AheadGrows
  <2>3. m # x => m \in live /\ lab'[m] = lab[m]
    BY <1>1, <1>5, <2>1 DEF NewMessage, MailboxTypeOK
  <2> QED  BY <1>4, <2>2, <2>3
<1>6. ASSUME NEW x \in Msgs, DeleteMessage(x)
      PROVE  m \in live /\ \A K : Right(m, K, p) => Right(m, K, p)'
  BY <1>4, <1>6 DEF DeleteMessage
<1>7. ASSUME NEW x \in Msgs, NEW A \in SUBSET Labels, NEW R \in SUBSET Labels,
             ModifyLabels(x, A, R)
      PROVE  m \in live /\ \A K : Right(m, K, p) => Right(m, K, p)'
  <2> DEFINE r == [op |-> "labels", msg |-> x, ladd |-> A, lrem |-> R]
  <2>1. /\ r \in Records /\ LogRecord(r) /\ live' = live
        /\ lab'[x] = (lab[x] \union A) \ R
        /\ \A y \in Msgs \ {x} : lab'[y] = lab[y]
    BY <1>1, <1>7 DEF ModifyLabels, Records, MailboxTypeOK
  <2>2. PICK t \in Ahead(p)' : log'[t] = r
    BY <1>1, <2>1, AheadGrows
  <2>3. m \in live /\ m \in Msgs
    BY <1>1, <2>1 DEF MailboxTypeOK
  <2>4. CASE m # x
    BY <1>4, <2>1, <2>3, <2>4
  <2>5. ASSUME m = x, NEW K, Right(m, K, p) PROVE Right(m, K, p)'
    <3> SUFFICES ASSUME NEW l \in Labels PROVE \/ l \in lab'[m] <=> l \in K
                                               \/ \E k \in Ahead(p)' : SetsLabel(k, m, l)'
      BY DEF Right
    <3>1. CASE l \in A \union R
      <4>1. SetsLabel(t, m, l)'
        BY <2>2, <2>5, <3>1 DEF SetsLabel, Touches
      <4> QED  BY <4>1
    <3>2. CASE l \notin A \union R
      <4>1. l \in lab'[m] <=> l \in lab[m]
        BY <2>1, <2>5, <3>2
      <4>2. \/ l \in lab[m] <=> l \in K
            \/ \E k \in Ahead(p) : SetsLabel(k, m, l)
        BY <2>5 DEF Right
      <4> QED  BY <1>3, <4>1, <4>2
    <3> QED  BY <3>1, <3>2
  <2> HIDE DEF r
  <2> QED  BY <2>3, <2>4, <2>5
<1>8. ASSUME UNCHANGED <<top, log, live, lab>>
      PROVE  m \in live /\ \A K : Right(m, K, p) => Right(m, K, p)'
  BY <1>4, <1>8
<1> QED  BY <1>2, <1>5, <1>6, <1>7, <1>8, GmailMailbox

(* So all that was right stays right.                                      *)
LEMMA LabelsChangedByGmail ==
    ASSUME UpdateInv, RightBehind, RightAhead, Gmail
    PROVE  RightBehind' /\ RightAhead'
<1> USE DEF UpdateInv
<1>1. /\ UNCHANGED <<event, histEvents, hand, ops, files, labOf, pc, cur, historyIdx,
                     historyId, cut>>
      /\ historyId \in Nat /\ historyId <= top /\ historyIdx \in Nat /\ historyIdx <= top
  <2>1. UNCHANGED <<store, pc, writer, historyIdx, reader, channels, cutOff>>
    BY DEF Gmail
  <2>2. /\ historyId \in Nat /\ historyIdx \in Nat /\ top \in Nat
        /\ historyId <= top /\ historyIdx <= historyId
    BY DEF UpdateTypes, UpdateRun, MailboxInv, MailboxTypeOK
  <2> QED  BY <2>1, <2>2 DEF store, writer, reader, channels, cutOff
<1>2. OnWay' = OnWay /\ Labelled' = Labelled
  <2>1. InHist' = InHist /\ InHand' = InHand /\ InWrite' = InWrite /\ Elements(ops)' = Elements(ops)
    BY <1>1 DEF InHist, InHand, InWrite, Elements
  <2>2. OnWay' = OnWay
    BY <1>1, <2>1 DEF OnWay
  <2> QED  BY <1>1, <2>1, <2>2 DEF Labelled
<1>3. \A m : (Busy(m)' <=> Busy(m)) /\ (Failing' <=> Failing) /\ FilesOf(m)' = FilesOf(m)
  BY <1>1, <1>2 DEF Busy, Failing, FilesOf
<1>4. ASSUME NEW m, NEW p, NEW k \in Ahead(p)', log'[k].msg = m, log'[k].op = "add", NEW K
      PROVE  Right(m, K, p)'
  BY <1>4 DEF Right, SetsLabel
<1>5. ASSUME NEW p \in Nat, p <= top, NEW m \in live' \ Lost, Alone(m, p)', NEW S,
             m \in live /\ Alone(m, p) => \A K \in S : Right(m, K, p)
      PROVE  \A K \in S : Right(m, K, p)'
  BY <1>4, <1>5, GmailRight
<1>6. ASSUME NEW m \in live' \ Lost, labOf[m] = {}
      PROVE  \E k \in Ahead(historyIdx)' : log'[k].msg = m /\ log'[k].op = "add"
  <2>1. CASE m \in live
    <3> PICK k \in Ahead(historyIdx) : log[k].msg = m /\ log[k].op = "add"
      BY <1>6, <2>1 DEF RightBehind
    <3> QED  BY <1>1, GmailMailbox DEF Ahead
  <2>2. CASE m \notin live
    <3>1. \E k \in Ahead(historyIdx)' : log'[k].msg = m /\ log'[k].op = "add"
      BY <1>1, <1>6, <2>2, GmailRight
    <3> QED  BY <3>1
  <2> QED  BY <2>1, <2>2
<1>7. ASSUME NEW m \in live' \ Lost, Alone(m, historyIdx)'
      PROVE  /\ \A f \in FilesOf(m) : Right(m, f.labels, historyIdx)'
             /\ \A C \in labOf[m] : Right(m, C, historyIdx)'
             /\ \A o \in Labelled : o.msg = m => Right(m, o.labels, historyIdx)'
  <2> PICK S : S = {f.labels : f \in FilesOf(m)} \union labOf[m]
                       \union {o.labels : o \in {q \in Labelled : q.msg = m}}
    OBVIOUS
  <2> PICK p \in Nat : p = historyIdx
    BY <1>1
  <2>1. m \in live /\ Alone(m, p) => \A K \in S : Right(m, K, p)
    BY <1>7 DEF RightBehind
  <2>2. Alone(m, p)'
    BY <1>1, <1>7 DEF Alone
  <2>3. \A K \in S : Right(m, K, p)'
    BY <1>1, <1>5, <1>7, <2>1, <2>2
  <2>4. \A K \in S : Right(m, K, historyIdx)'
    BY <1>1, <2>3 DEF Right, Ahead
  <2> QED  BY <2>4
<1>8. ASSUME NEW m \in live' \ Lost, Alone(m, historyId)'
      PROVE  /\ \A o \in Labelled : o.msg = m => Right(m, o.labels, historyId)'
             /\ \/ Busy(m) \/ Failing
                \/ \A f \in FilesOf(m) : Right(m, f.labels, historyId)'
  <2> PICK p \in Nat : p = historyId
    BY <1>1
  <2> PICK S : S = {o.labels : o \in {q \in Labelled : q.msg = m}}
    OBVIOUS
  <2> PICK T : T = {f.labels : f \in FilesOf(m)}
    OBVIOUS
  <2>0. Alone(m, p)'
    BY <1>1, <1>8 DEF Alone
  <2>1. m \in live /\ Alone(m, p) =>
            (\A K \in S : Right(m, K, p)) /\ (Busy(m) \/ Failing \/ \A K \in T : Right(m, K, p))
    BY <1>8 DEF RightAhead
  <2>2. \A K \in S : Right(m, K, p)'
    BY <1>1, <1>5, <1>8, <2>0, <2>1
  <2>3. Busy(m) \/ Failing \/ \A K \in T : Right(m, K, p)'
    BY <1>1, <1>5, <1>8, <2>0, <2>1
  <2>4. \A K : Right(m, K, p)' => Right(m, K, historyId)'
    BY <1>1 DEF Right, Ahead
  <2> QED  BY <2>2, <2>3, <2>4
<1>9. RightBehind'
  <2>1. ASSUME NEW m \in live' \ Lost'
        PROVE  /\ labOf'[m] = {} =>
                    \E k \in Ahead(historyIdx)' : log'[k].msg = m /\ log'[k].op = "add"
               /\ Alone(m, historyIdx)' =>
                    /\ \A f \in FilesOf(m)' : Right(m, f.labels, historyIdx)'
                    /\ \A C \in labOf'[m] : Right(m, C, historyIdx)'
                    /\ \A o \in Labelled' : o.msg = m => Right(m, o.labels, historyIdx)'
    BY <1>1, <1>2, <1>3, <1>6, <1>7, <2>1
  <2> QED  BY <2>1 DEF RightBehind
<1>10. RightAhead'
  <2>1. ASSUME NEW m \in live' \ Lost', Alone(m, historyId)'
        PROVE  /\ \A o \in Labelled' : o.msg = m => Right(m, o.labels, historyId)'
               /\ \/ Busy(m)' \/ Failing'
                  \/ \A f \in FilesOf(m)' : Right(m, f.labels, historyId)'
    BY <1>1, <1>2, <1>3, <1>8, <2>1
  <2> QED  BY <2>1 DEF RightAhead
<1> QED  BY <1>9, <1>10

(* The end of an update: what is committed is right, and what is not is    *)
(* right where it starts again.                                            *)
LEMMA LabelsEnded ==
    ASSUME UpdateInv, RightBehind, RightAhead, CommitHistory \/ FailUpdate \/ KillUpdate
    PROVE  RightBehind' /\ RightAhead'
<1> USE DEF UpdateInv
<1>1. /\ OnWay' = {} /\ UNCHANGED <<log, live, lab, files, labOf>> /\ cut \subseteq cut'
      /\ historyIdx' = historyId' /\ live \subseteq Msgs
  BY EndStep DEF mailbox, store, MailboxInv, MailboxTypeOK
<1>2. Labelled' = {}
  <2>1. InHand' = {} /\ Elements(ops)' = {} /\ InWrite' = {}
    BY <1>1 DEF OnWay
  <2>2. \A s \in Shards : \A w \in hand'[s] : w.o \in InHand'
    BY DEF InHand
  <2> QED  BY <1>1, <2>1, <2>2 DEF Labelled
<1>3. \A m, K, p : (Right(m, K, p)' <=> Right(m, K, p)) /\ (Alone(m, p)' <=> Alone(m, p))
  BY <1>1 DEF Right, Alone, SetsLabel, Touches, Ahead
<1>4. \A m : FilesOf(m)' = FilesOf(m)
  BY <1>1 DEF FilesOf
<1>5. ASSUME NEW m \in live \ Lost', NEW p, p = historyId'
      PROVE  /\ labOf[m] = {} =>
                  \E k \in Ahead(p) : log[k].msg = m /\ log[k].op = "add"
             /\ Alone(m, p) => /\ \A f \in FilesOf(m) : Right(m, f.labels, p)
                               /\ \A C \in labOf[m] : Right(m, C, p)
  <2>0. m \in live \ Lost
    BY <1>1, <1>5
  <2>1. CASE FailUpdate \/ KillUpdate
    <3>1. p = historyIdx
      BY <1>5, <2>1 DEF FailUpdate, KillUpdate
    <3> QED  BY <2>0, <3>1 DEF RightBehind
  <2>2. CASE CommitHistory
    <3>1. p = historyId /\ OnWay = {} /\ ToDo = {} /\ pc = "loop"
      BY <1>5, <2>2, NonePending DEF CommitHistory
    <3>2. ~Busy(m) /\ ~Failing
      BY <3>1 DEF Busy, Failing
    <3>3. One(m)
      BY <1>1, <2>0, <3>1 DEF StoreInv, MidWrite, Writing
    <3>4. ASSUME labOf[m] = {}
          PROVE  \E k \in Ahead(p) : log[k].msg = m /\ log[k].op = "add"
      <4>1. m \in live \ Mirror /\ m \in Msgs \ Lost
        BY <1>1, <2>0, <3>3, <3>4 DEF One, Mirror
      <4>2. Due(m, "add") /\ ~Pending(m, "add")
        BY <3>1, <4>1 DEF Presence, Pending
      <4> QED  BY <3>1, <4>2 DEF Due
    <3>5. ASSUME Alone(m, p) PROVE /\ \A f \in FilesOf(m) : Right(m, f.labels, p)
                                   /\ \A C \in labOf[m] : Right(m, C, p)
      <4>1. \A f \in FilesOf(m) : Right(m, f.labels, p)
        BY <2>0, <3>1, <3>2, <3>5 DEF RightAhead
      <4>2. \A C \in labOf[m] : \E f \in FilesOf(m) : C = f.labels
        BY <3>3 DEF One
      <4> QED  BY <4>1, <4>2
    <3> QED  BY <3>4, <3>5
  <2> QED  BY <2>1, <2>2
<1>6. RightBehind'
  <2>1. ASSUME NEW m \in live' \ Lost'
        PROVE  /\ labOf'[m] = {} =>
                    \E k \in Ahead(historyIdx)' : log'[k].msg = m /\ log'[k].op = "add"
               /\ Alone(m, historyIdx)' =>
                    /\ \A f \in FilesOf(m)' : Right(m, f.labels, historyIdx)'
                    /\ \A C \in labOf'[m] : Right(m, C, historyIdx)'
                    /\ \A o \in Labelled' : o.msg = m => Right(m, o.labels, historyIdx)'
    <3> PICK p : p = historyId'
      OBVIOUS
    <3>1. m \in live \ Lost' /\ labOf' = labOf /\ log' = log
      BY <1>1, <2>1
    <3>2. /\ labOf[m] = {} => \E k \in Ahead(p) : log[k].msg = m /\ log[k].op = "add"
          /\ Alone(m, p) => /\ \A f \in FilesOf(m) : Right(m, f.labels, p)
                            /\ \A C \in labOf[m] : Right(m, C, p)
      BY <1>5, <3>1
    <3>3. Ahead(historyIdx)' = Ahead(p)
      BY <1>1 DEF Ahead
    <3>4. /\ Alone(m, historyIdx)' => Alone(m, p)
          /\ \A K : Right(m, K, p) => Right(m, K, historyIdx)'
      BY <1>1, <1>3
    <3> QED  BY <1>2, <1>4, <3>1, <3>2, <3>3, <3>4
  <2> QED  BY <2>1 DEF RightBehind
<1>7. RightAhead'
  <2>1. ASSUME NEW m \in live' \ Lost', Alone(m, historyId)'
        PROVE  /\ \A o \in Labelled' : o.msg = m => Right(m, o.labels, historyId)'
               /\ \/ Busy(m)' \/ Failing'
                  \/ \A f \in FilesOf(m)' : Right(m, f.labels, historyId)'
    <3> PICK p : p = historyId'
      OBVIOUS
    <3>1. m \in live \ Lost' /\ Alone(m, p)
      BY <1>1, <1>3, <2>1
    <3>2. \A f \in FilesOf(m) : Right(m, f.labels, p)
      BY <1>5, <3>1
    <3>3. \A K : Right(m, K, p) => Right(m, K, historyId)'
      BY <1>3
    <3> QED  BY <1>2, <1>4, <3>2, <3>3
  <2> QED  BY <2>1 DEF RightAhead
<1> QED  BY <1>6, <1>7

(* An exact mirror is right.                                               *)
LEMMA LabelsInit == IncInit => RightBehind /\ RightAhead
<1> SUFFICES ASSUME IncInit PROVE RightBehind /\ RightAhead
  OBVIOUS
<1>0. /\ pc = "idle" /\ event = {} /\ histEvents = [s \in Shards |-> <<>>]
      /\ hand = [s \in Shards |-> {}] /\ ops = <<>> /\ Readable \subseteq Msgs
      /\ live \ Lost \subseteq Readable
      /\ files = {[key |-> m, msg |-> m, labels |-> lab[m]] : m \in Readable}
      /\ labOf = [m \in Msgs |-> IF m \in Readable THEN {lab[m]} ELSE {}]
  BY MailboxAssumption DEF IncInit, MailboxInit, Readable
<1>1. Labelled = {}
  <2>1. InHist = {} /\ InHand = {} /\ Elements(ops) = {} /\ InWrite = {}
    BY <1>0 DEF InHist, InHand, Elements, InWrite, Writing
  <2>2. OnWay = {}
    BY <1>0, <2>1 DEF OnWay
  <2> QED  BY <1>0, <2>1, <2>2 DEF Labelled
<1>2. \A m \in live \ Lost : /\ labOf[m] = {lab[m]}
                             /\ \A f \in FilesOf(m) : f.labels = lab[m]
  <2>1. \A f \in files : \E x \in Readable : f.msg = x /\ f.labels = lab[x]
    BY <1>0
  <2>2. \A m \in Readable : labOf[m] = {lab[m]}
    BY <1>0
  <2> QED  BY <1>0, <2>1, <2>2 DEF FilesOf
<1>3. \A m, p : Right(m, lab[m], p)
  BY DEF Right
<1>4. ASSUME NEW m \in live \ Lost, NEW p
      PROVE  /\ labOf[m] # {} /\ \A f \in FilesOf(m) : Right(m, f.labels, p)
             /\ \A C \in labOf[m] : Right(m, C, p)
  <2>1. labOf[m] = {lab[m]} /\ \A f \in FilesOf(m) : f.labels = lab[m]
    BY <1>2
  <2>2. Right(m, lab[m], p)
    BY <1>3
  <2> QED  BY <2>1, <2>2
<1> QED  BY <1>1, <1>4 DEF RightBehind, RightAhead

(* What is right of the labels, throughout every behaviour.                *)
LEMMA LabelsInvariant == IncSpec => [](UpdateInv /\ RightBehind /\ RightAhead)
<1>1. ASSUME UpdateInv, RightBehind, RightAhead, UNCHANGED incVars
      PROVE  RightBehind' /\ RightAhead'
  <2>1. UNCHANGED <<log, live, lab, historyIdx, historyId, files, labOf, cut, event,
                    histEvents, hand, ops, keyOf, pc, cur>>
    BY <1>1 DEF incVars, mailbox, store, writer, reader, channels, cutOff
  <2>2. Preserves
    BY <1>1, <2>1, StillMoves
  <2>3. live \subseteq Msgs
    BY <1>1 DEF UpdateInv, MailboxInv, MailboxTypeOK
  <2> QED  BY <1>1, <2>1, <2>2, <2>3, KeepStep DEF Preserves
<1>2. UpdateInv /\ RightBehind /\ RightAhead /\ [IncNext]_incVars => RightBehind' /\ RightAhead'
  BY <1>1, LabelsMoved, LabelsRead, LabelsWritten, LabelsEnded, LabelsChangedByGmail,
     UpdateSteps
<1> QED  BY <1>2, UpdateInvariant, LabelsInit, PTL DEF IncSpec

(* A wrong label of a message with one record below the committed index is *)
(* put right by a record above it, unless a write of the message was cut   *)
(* off or its body cannot be parsed: whatever the cache held when the      *)
(* record was read, and wherever updates fail or are killed                *)
(* (gmail.go:245-285, 437-473).                                            *)
THEOREM SingleChangeTheorem == IncSpec => []SingleChange
<1>1. ASSUME UpdateInv, RightBehind PROVE SingleChange
  <2> SUFFICES ASSUME NEW m \in Msgs \ Lost, Cardinality(Consumed(m)) <= 1
               PROVE  LabelsCovered(m)
    BY DEF SingleChange
  <2> SUFFICES ASSUME m \in live, FilesOf(m) # {} PROVE Right(m, LabelsOf(m), historyIdx)
    BY DEF LabelsCovered, Right
  <2>1. IsFiniteSet(Consumed(m))
    <3>1. DOMAIN log = Base + 1 .. top /\ Base + 1 \in Int /\ top \in Int
      BY <1>1, MailboxAssumption DEF UpdateInv, MailboxInv, MailboxTypeOK
    <3>2. IsFiniteSet(DOMAIN log)
      BY <3>1, FS_Interval
    <3> QED  BY <3>2, FS_Subset DEF Consumed
  <2>2. Alone(m, historyIdx)
    <3> SUFFICES ASSUME NEW j \in Consumed(m), NEW k \in Consumed(m), j # k PROVE FALSE
      BY DEF Alone, Consumed
    <3>1. Cardinality({j, k}) = 2
      <4>1. IsFiniteSet({}) /\ Cardinality({}) = 0
        BY FS_EmptySet
      <4>2. IsFiniteSet({} \union {j}) /\ Cardinality({} \union {j}) = 0 + 1
        BY <4>1, FS_AddElement
      <4>3. Cardinality({} \union {j} \union {k}) = 0 + 1 + 1
        <5>1. k \notin {} \union {j}
          OBVIOUS
        <5> QED  BY <4>2, <5>1, FS_AddElement
      <4>4. {} \union {j} \union {k} = {j, k}
        OBVIOUS
      <4> QED  BY <4>3, <4>4
    <3>2. Cardinality({j, k}) <= Cardinality(Consumed(m)) /\ Cardinality(Consumed(m)) \in Nat
      BY <2>1, FS_Subset, FS_CardinalityType
    <3> QED  BY <3>1, <3>2
  <2>3. \A f \in FilesOf(m) : Right(m, f.labels, historyIdx)
    BY <1>1, <2>2 DEF RightBehind
  <2> PICK S : S = {f.labels : f \in FilesOf(m)}
    OBVIOUS
  <2>4. S # {} /\ LabelsOf(m) = UNION S /\ \A C \in S : Right(m, C, historyIdx)
    BY <2>3 DEF Mirror, LabelsOf
  <2>5. Right(m, UNION S, historyIdx)
    BY <2>4, RightUnion
  <2> QED  BY <2>4, <2>5
<1> QED  BY <1>1, LabelsInvariant, PTL

-----------------------------------------------------------------------------
(* Waiting                                                                 *)

(* Who can go on: the guards of the steps of Update. A step that puts      *)
(* something into a channel waits for room, one that takes something out   *)
(* for something to be there, and a delivery needs a key.                  *)
ReaderReady ==
    \/ ppc = "fetch" /\ (First /\ historyIdx < floor => Len(ops) < MessageBufferSize)
                     /\ last <= top
    \/ ppc = "record" /\ historyId <= last
    \/ ppc = "send" /\ \E o \in event : Len(histEvents[ShardForMsgId(o)]) < MessageBufferSize

WorkerReady(s) ==
    \/ hand[s] = {} /\ histEvents[s] # <<>>
    \/ \E w \in hand[s] : w.at = "put" => Len(ops) < MessageBufferSize

WriterReady ==
    \/ pc = "loop" /\ (ops # <<>> \/ ShardsDone)
    \/ pc \in {"written", "failed"} \union (Writing \ {"write"})
    \/ pc = "write" /\ (cur.op = "delete" \/ (cur.op \in {"add", "labels"} /\ Keys \ Used # {}))

(* A reader that has stopped early has left its error.                     *)
ReaderInv ==
    /\ ppc # "close"
    /\ ppc = "send" => event # {}
    /\ ppc = "off" /\ pc \notin {"idle", "failed"} => \E o \in Elements(ops) : o.op = "error"

(* A write begins and ends within an update.                               *)
LEMMA WritesOn ==
    ASSUME UpdateInv, WriteOp PROVE pc' # "idle" /\ pc \notin {"idle", "failed"}
BY DEF WriteOp, WriteOperation, WriteAdd, WriteLabels, SetMsgLabels, SetMsgKey, RemoveOld,
       WriteDel, DelMsgKey, DelMsgLabels, Remove, Goto

(* What has been said of a reader stays true with every step.              *)
LEMMA ReaderStep ==
    ASSUME UpdateInv, ReaderInv, [IncNext]_incVars
    PROVE  ReaderInv'
<1>1. ops \in Seq(Ops) /\ PipeTypes
  BY DEF UpdateInv, PipeTypes
<1>2. CASE StartUpdate
  BY <1>2 DEF StartUpdate, ReaderInv
<1>3. CASE HistoryGone
  <2> DEFINE o == [Nobody EXCEPT !.op = "error"]
  <2>1. o \in Ops /\ o.op = "error"
    BY IncrementalAssumption DEF Nobody, NoOp, Ops
  <2>2. ops' = Append(ops, o) /\ ppc' = "off"
    BY <1>3 DEF HistoryGone, Enqueue
  <2> HIDE DEF o
  <2>3. o \in Elements(ops')
    BY <1>1, <2>1, <2>2, LastOf
  <2> QED  BY <2>1, <2>2, <2>3 DEF ReaderInv
<1>4. CASE GetHistory \/ NextRecord \/ SendEvent \/ RecordsDone
  <2>1. ppc \notin {"off", "close"} /\ ppc' \notin {"off", "close"}
    BY <1>4 DEF GetHistory, NextRecord, SendEvent, RecordsDone
  <2>2. ppc' = "send" => event' # {}
    BY <1>4 DEF GetHistory, NextRecord, SendEvent, RecordsDone
  <2> QED  BY <2>1, <2>2 DEF ReaderInv
<1>5. ASSUME UNCHANGED reader,
             pc' = pc \/ pc' \in {"idle", "failed"} \/ pc \notin {"idle", "failed"},
             pc' \notin {"idle", "failed"} => Elements(ops) \subseteq Elements(ops')
      PROVE  ReaderInv'
  BY <1>5 DEF ReaderInv, reader
<1>6. CASE \E s \in Shards : TakeEvent(s)
  BY <1>5, <1>6 DEF TakeEvent, Handling, Reading
<1>7. CASE \E s \in Shards : \E w \in hand[s] :
              LookUp(s, w) \/ FetchBody(s, w) \/ FetchMetadata(s, w) \/ OpenFile(s, w)
  BY <1>5, <1>7 DEF LookUp, FetchBody, FetchMetadata, OpenFile, Handling, Reading
<1>8. CASE \E s \in Shards : \E w \in hand[s] : Put(s, w)
  <2>0. PICK s \in Shards : \E w \in hand[s] : Put(s, w)
    BY <1>8
  <2>1. PICK w \in hand[s] : Put(s, w)
    BY <2>0
  <2>2. w.o \in Ops
    BY <2>0, <2>1, InPlaces
  <2>3. UNCHANGED reader /\ pc' = pc /\ ops' = Append(ops, w.o)
    BY <2>1 DEF Put, Handling, Reading, Enqueue
  <2>4. Elements(ops) \subseteq Elements(ops')
    BY <1>1, <2>2, <2>3, LastOf
  <2> QED  BY <1>5, <2>3, <2>4
<1>9. CASE TakeOp
  <2>1. ops # <<>> /\ ops' = Tail(ops) /\ UNCHANGED reader /\ pc = "loop"
    BY <1>9 DEF TakeOp
  <2>2. Elements(ops) = Elements(ops') \union {Head(ops)}
    BY <1>1, <2>1, HeadOf
  <2>3. Head(ops).op = "error" => pc' = "failed"
    BY <1>9 DEF TakeOp
  <2> QED  BY <2>1, <2>2, <2>3 DEF ReaderInv, reader
<1>10. CASE WriteOp
  BY <1>5, <1>10, WritesOn DEF WriteOp, channels
<1>11. CASE OpWritten
  BY <1>5, <1>11 DEF OpWritten, channels
<1>12. CASE CommitHistory \/ FailUpdate \/ KillUpdate
  BY <1>12 DEF CommitHistory, FailUpdate, KillUpdate, EndUpdate, ReaderInv
<1>13. CASE Gmail \/ UNCHANGED incVars
  BY <1>5, <1>13 DEF Gmail, incVars, channels
<1> QED
  BY <1>2, <1>3, <1>4, <1>6, <1>7, <1>8, <1>9, <1>10, <1>11, <1>12, <1>13, UpdateSteps

(* If neither the writer nor a worker can go on, every channel is empty    *)
(* and the update is not over, so the reader can.                          *)
LEMMA SomebodyReady ==
    ASSUME UpdateInv, ReaderInv, pc # "idle", Keys \ Used # {}
    PROVE  ReaderReady \/ WriterReady \/ \E s \in Shards : WorkerReady(s)
<1> SUFFICES ASSUME ~WriterReady, \A s \in Shards : ~WorkerReady(s) PROVE ReaderReady
  OBVIOUS
<1>1. pc = "loop" /\ ops = <<>> /\ ~ShardsDone
  BY DEF WriterReady, UpdateInv, UpdateTypes, UpdateRun, Real
<1>2. MessageBufferSize \in Nat \ {0} /\ Len(ops) = 0 /\ Elements(ops) = {}
  BY <1>1, StoreAssumption DEF Elements
<1>3. \A s \in Shards : hand[s] = {} /\ histEvents[s] = <<>>
  BY <1>2 DEF WorkerReady
<1>4. ppc \in {"fetch", "record", "send"}
  <2>1. ppc # "done"
    BY <1>1, <1>3 DEF ShardsDone
  <2>2. ppc # "off"
    BY <1>1, <1>2 DEF ReaderInv
  <2> QED  BY <2>1, <2>2 DEF ReaderInv, UpdateInv, UpdateTypes
<1>5. CASE ppc = "fetch"
  BY <1>2, <1>5 DEF ReaderReady, UpdateInv, UpdateRun
<1>6. CASE ppc = "record"
  BY <1>6 DEF ReaderReady, UpdateInv, UpdateRun
<1>7. CASE ppc = "send"
  <2>1. PICK o \in event : o \in Ops
    BY <1>7 DEF ReaderInv, UpdateInv, PipeTypes
  <2>2. ShardForMsgId(o) \in Shards
    <3>1. o.msg \in Nat
      BY <2>1, IncrementalAssumption DEF Ops
    <3> QED  BY <3>1, StoreAssumption DEF ShardForMsgId, Shards
  <2>3. Len(histEvents[ShardForMsgId(o)]) = 0
    BY <1>3, <2>2
  <2> QED  BY <1>2, <1>7, <2>1, <2>3 DEF ReaderReady
<1> QED  BY <1>4, <1>5, <1>6, <1>7

(* In an update the reader, the writer or a worker can always go on, so    *)
(* that they never all wait for each other on the bounded channels         *)
(* (gmail.go:379-503), as long as a delivery finds a key that is free.     *)
THEOREM SomebodyReadyTheorem ==
    IncSpec => [](pc # "idle" /\ Keys \ Used # {} =>
                    ReaderReady \/ WriterReady \/ \E s \in Shards : WorkerReady(s))
<1>1. IncInit => ReaderInv
  BY DEF IncInit, ReaderInv
<1>2. UpdateInv /\ ReaderInv /\ [IncNext]_incVars => ReaderInv'
  BY ReaderStep
<1>3. UpdateInv /\ ReaderInv => (pc # "idle" /\ Keys \ Used # {} =>
                    ReaderReady \/ WriterReady \/ \E s \in Shards : WorkerReady(s))
  BY SomebodyReady
<1> QED  BY <1>1, <1>2, <1>3, UpdateInvariant, PTL DEF IncSpec

(* Who can go on in a run of FullSync: the guards of the steps of the      *)
(* lister, the workers and main.                                           *)
ListerReady ==
    \/ ppc = "fetch" /\ \E P \in SUBSET live : IsPage(P, token)
    \/ ppc = "send" /\ (page # {} => Len(newMsgs) < MessageBufferSize)
    \/ ppc = "mark"

WorkersReady ==
    \/ newMsgs # <<>> /\ Cardinality(work) < ConcurrentDownloads
    \/ \E w \in work : w.at = "put" => Len(ops) < MessageBufferSize

MainReady ==
    \/ pc = "loop" /\ (phase = "ops" => ops # <<>> \/ OpsClosed)
    \/ pc \in (Outside \ {"idle"}) \union {"written", "failed"} \union (Writing \ {"write"})
    \/ pc = "write" /\ (cur.op = "delete" \/ (cur.op \in {"add", "labels"} /\ Keys \ Used # {}))

(* There is a page after every token: of the sets of newest messages that  *)
(* are small enough, the largest.                                          *)
LEMMA PageExists ==
    ASSUME MailboxTypeOK, token \in Tokens
    PROVE  \E P \in SUBSET live : IsPage(P, token)
<1> DEFINE S == Older(token)
           Top(P) == P \subseteq S /\ (\A m \in P, k \in S \ P : m > k)
                     /\ Cardinality(P) <= PageMax
           Lack == {n \in Nat : \E P \in SUBSET S : Top(P) /\ n = PageMax - Cardinality(P)}
<1>1. S \subseteq live /\ S \subseteq Msgs
  BY DEF Older, MailboxTypeOK
<1>2. PICK N \in Nat : Msgs = 1 .. N
  BY Numbers
<1>3. IsFiniteSet(Msgs)
  BY Numbers
<1>4. PageMax \in Nat \ {0}
  BY FullSyncAssumption
<1> HIDE DEF S
<1>5. \A P \in SUBSET S : IsFiniteSet(P) /\ Cardinality(P) \in Nat
  BY <1>1, <1>3, FS_Subset, FS_CardinalityType
<1>6. PageMax \in Lack
  <2>1. Cardinality({}) = 0
    BY FS_EmptySet
  <2> QED  BY <1>4, <2>1
<1> DEFINE least == Oldest(Lack)
<1>7. least \in Lack /\ \A n \in Lack : least <= n
  BY <1>6, OldestOf
<1> PICK P \in SUBSET S : Top(P) /\ least = PageMax - Cardinality(P)
  BY <1>7
<1>8. ASSUME Cardinality(P) # PageMax, P # S PROVE FALSE
  <2> DEFINE R == S \ P
             x == Newest(R)
             Q == P \union {x}
  <2>1. R \in SUBSET (0 .. N) /\ R # {}
    <3>1. R \subseteq Msgs /\ R # {}
      BY <1>1, <1>8
    <3>2. Msgs \subseteq 0 .. N
      BY <1>2
    <3> QED  BY <3>1, <3>2
  <2> HIDE DEF R
  <2>2. x \in R /\ \A k \in R : k <= x
    BY <1>2, <2>1, NewestOf
  <2> HIDE DEF x
  <2>3. x \in S /\ x \notin P
    BY <2>2 DEF R
  <2>4. Cardinality(Q) = Cardinality(P) + 1
    BY <1>5, <2>3, FS_AddElement
  <2>5. \A m \in Q, k \in S \ Q : m > k
    <3> TAKE m \in Q, k \in S \ Q
    <3>1. k \in R /\ k # x /\ k \in Nat /\ x \in Nat
      BY <1>1, <1>2, <2>3 DEF R
    <3>2. CASE m = x
      BY <2>2, <3>1, <3>2
    <3>3. CASE m \in P
      BY <3>1, <3>3 DEF R
    <3> QED  BY <3>2, <3>3
  <2>6. Cardinality(Q) <= PageMax
    BY <1>4, <1>5, <1>8, <2>4
  <2>7. Q \in SUBSET S /\ Top(Q)
    BY <2>3, <2>5, <2>6
  <2>8. PageMax - Cardinality(Q) \in Nat
    BY <1>4, <1>5, <2>6, <2>7
  <2> HIDE DEF Top, Q
  <2>9. PageMax - Cardinality(Q) \in Lack
    BY <2>7, <2>8
  <2>10. Cardinality(P) \in Nat /\ least <= PageMax - Cardinality(Q)
    BY <1>5, <1>7, <2>9
  <2> QED  BY <1>4, <2>4, <2>10
<1>9. IsPage(P, token)
  BY <1>8 DEF IsPage, S
<1> QED  BY <1>1, <1>9

(* If neither main nor a worker can go on, every channel is empty and ids  *)
(* are still to come, so the lister can.                                   *)
LEMMA SomeoneReady ==
    ASSUME FullSyncInv, pc # "idle", Keys \ Used # {}
    PROVE  ListerReady \/ WorkersReady \/ MainReady
<1> SUFFICES ASSUME ~WorkersReady, ~MainReady PROVE ListerReady
  OBVIOUS
<1>1. MailboxTypeOK /\ TypeInv /\ RunInv /\ CurInv
  BY DEF FullSyncInv, MailboxInv
<1>2. pc \notin Outside \union {"written", "failed"} \union (Writing \ {"write"})
  BY DEF MainReady
<1>3. pc # "write"
  <2> SUFFICES ASSUME pc = "write" PROVE FALSE
    OBVIOUS
  <2>1. phase \in {"ops", "reconcile", "update"}
    BY <1>1, <1>2 DEF RunInv, Outside
  <2>2. pc \in Writing
    BY DEF Writing
  <2> QED  BY <1>1, <2>1, <2>2 DEF CurInv, Taken, MainReady
<1>4. pc = "loop" /\ phase = "ops" /\ ops = <<>> /\ ~OpsClosed
  BY <1>1, <1>2, <1>3 DEF TypeInv, MainReady
<1>5. MessageBufferSize \in Nat \ {0} /\ ConcurrentDownloads \in Nat \ {0} /\ Len(ops) = 0
  BY <1>4, StoreAssumption
<1>6. work = {}
  BY <1>5 DEF WorkersReady
<1>7. newMsgs = <<>> /\ Len(newMsgs) = 0
  BY <1>5, <1>6, FS_EmptySet DEF WorkersReady
<1>8. ppc \in {"fetch", "send", "mark"}
  BY <1>1, <1>2, <1>4, <1>6, <1>7 DEF RunInv, TypeInv, OpsClosed
<1>9. ppc = "fetch" => \E P \in SUBSET live : IsPage(P, token)
  BY <1>1, PageExists DEF TypeInv
<1> QED  BY <1>5, <1>7, <1>8, <1>9 DEF ListerReady

(* In a run the lister, a worker or main can always go on, so that they    *)
(* never all wait for each other on the bounded channels                   *)
(* (gmail.go:534-600), as long as a delivery finds a key that is free.     *)
THEOREM SomeoneReadyTheorem ==
    Spec => [](pc # "idle" /\ Keys \ Used # {} => ListerReady \/ WorkersReady \/ MainReady)
<1>1. FullSyncInv => (pc # "idle" /\ Keys \ Used # {} =>
                        ListerReady \/ WorkersReady \/ MainReady)
  BY SomeoneReady
<1> QED  BY <1>1, Invariant, PTL
==============================================================================
