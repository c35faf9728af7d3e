------------------------------ MODULE LibProofs ------------------------------
(***************************************************************************)
(* Theorems about what lies in lib below the stages, for all values of the *)
(* constants: Maildir, whatever a mail client does between two system      *)
(* calls, and RateLimit.                                                   *)
(***************************************************************************)
EXTENDS Maildir, RateLimit, FiniteSetTheorems, TLAPS

Kinds == {"add", "labels", "delete"}
PCs == {"idle", "stat", "list", "lstat", "open", "remove",
        "create", "write", "rename", "chtimes"}
Goals == {"none", "skip", "heal", "open", "reopen", "rewrite", "delete"}
Looking == pc \in {"stat", "list", "lstat"}
Delivering == pc \in {"create", "write", "rename"}

(* What a system call may be for, and which record it is made for.         *)
Control ==
    /\ pc = "idle" <=> goal = "none"
    /\ pc # "idle" => pos < Len(log)
    /\ pc = "open" => goal \in {"open", "reopen"}
    /\ pc = "remove" => goal \in {"rewrite", "delete"}
    /\ Delivering \/ pc = "chtimes" => goal \in {"skip", "heal", "rewrite"}
    /\ pc \in {"open", "remove"} => found # "none"
    /\ goal = "skip" => log[pos + 1] = "add"
    /\ goal = "delete" => log[pos + 1] = "delete"
    /\ goal \in {"open", "heal", "reopen", "rewrite"} => log[pos + 1] = "labels"
    /\ \A i \in 1 .. Len(log) : log[i] = "delete" => i = Len(log)

TypeInv == TypeOK /\ Control

(* What is moved to new has all of its bytes.                              *)
Whole == WholeFiles /\ (pc = "rename" => tmp = {Fresh(TRUE)})

-----------------------------------------------------------------------------
LEMMA HasOne ==
    ASSUME NEW n
    PROVE  Cardinality({n}) <= 1
<1>1. Cardinality({n}) = 1
  BY FS_Singleton
<1> QED  BY <1>1

LEMMA HasNone == Cardinality({}) <= 1
<1>1. Cardinality({}) = 0
  BY FS_EmptySet
<1> QED  BY <1>1

(* The plain types of the counters and of the log.                         *)
LEMMA Counters ==
    ASSUME TypeOK
    PROVE  /\ log \in Seq(Kinds) /\ Len(log) \in Nat /\ Len(log) >= 1 /\ Len(log) <= MaxLog
           /\ saved \in Nat /\ pos \in Nat /\ saved <= pos /\ pos <= Len(log)
           /\ \A n \in 0 .. Len(log) : Changes(n) \subseteq 1 .. MaxLog
  BY MaildirAssumption DEF TypeOK, Kinds, Changes

(* The types of the files and of what the steps of a record touch.         *)
FilesOK ==
    /\ new \subseteq File /\ Cardinality(new) <= 1
    /\ cur \in [Flags -> SUBSET File] /\ \A f \in Flags : Cardinality(cur[f]) <= 1
    /\ tmp \subseteq File /\ Cardinality(tmp) <= 1

WorkOK ==
    /\ saved \in 0 .. pos /\ pos \in 0 .. Len(log)
    /\ pc \in PCs /\ goal \in Goals
    /\ found \in {"none", "new"} \union Flags
    /\ listed \in [mine : SUBSET Flags, other : Flags]
    /\ body \subseteq 1 .. MaxLog
    /\ lost \subseteq 1 .. MaxLog /\ kept \in BOOLEAN

RestOK ==
    /\ log \in Seq(Kinds) /\ Len(log) \in 1 .. MaxLog
    /\ other \in Flags
    /\ did \subseteq {"move", "flag", "remove"}

LEMMA Types == TypeOK <=> FilesOK /\ WorkOK /\ RestOK
  BY DEF TypeOK, FilesOK, WorkOK, RestOK, Kinds, PCs, Goals

LEMMA TypesNext == TypeOK' <=> FilesOK' /\ WorkOK' /\ RestOK'
  BY DEF TypeOK, FilesOK, WorkOK, RestOK, Kinds, PCs, Goals

LEMMA InitType == Init => TypeInv
<1> SUFFICES ASSUME Init PROVE TypeInv
  OBVIOUS
<1> USE MaildirAssumption
<1>1. log = <<"add">> /\ Len(log) = 1 /\ log[1] = "add" /\ log \in Seq(Kinds)
  BY DEF Init, Kinds
<1>2. FilesOK
  <2>1. cur \in [Flags -> SUBSET File] /\ \A f \in Flags : cur[f] = {}
    BY DEF Init
  <2> QED  BY <2>1, HasNone DEF Init, FilesOK
<1>3. WorkOK
  <2>1. saved \in 0 .. pos /\ pos \in 0 .. Len(log) /\ other \in Flags
    BY <1>1 DEF Init
  <2>2. /\ pc \in PCs /\ goal \in Goals /\ found = "none" /\ body = {} /\ lost = {}
        /\ kept \in BOOLEAN /\ listed = [mine |-> {}, other |-> other]
    BY DEF Init, PCs, Goals
  <2> QED  BY <2>1, <2>2 DEF WorkOK
<1>4. RestOK
  BY <1>1 DEF Init, RestOK
<1>5. Control
  BY <1>1 DEF Init, Control, Delivering
<1> QED  BY <1>2, <1>3, <1>4, <1>5, Types, TypesNext DEF TypeInv

-----------------------------------------------------------------------------
(* The ways a lookup ends.                                                 *)

(* The record is gone through.                                             *)
LEMMA FinishType ==
    ASSUME TypeInv, pc # "idle", NEW L \in SUBSET (1 .. MaxLog), NEW k \in BOOLEAN,
           Finish(L, k), saved' = saved, log' = log
    PROVE  WorkOK' /\ Control'
<1> USE MaildirAssumption
<1>1. pos < Len(log) /\ pos' = pos + 1 /\ pos' \in 0 .. Len(log') /\ saved' \in 0 .. pos'
  BY Counters DEF TypeInv, Control, Finish
<1>2. WorkOK'
  BY <1>1, Types DEF TypeInv, WorkOK, Finish, PCs, Goals
<1>3. Control'
  BY <1>1 DEF TypeInv, Control, Finish, Delivering
<1> QED  BY <1>2, <1>3

LEMMA DroppedType ==
    ASSUME TypeInv, pc # "idle"
    PROVE  {pos + 1} \in SUBSET (1 .. MaxLog)
  BY Counters, MaildirAssumption DEF TypeInv, Control

LEMMA HitType ==
    ASSUME TypeInv, Looking, NEW f \in {"new"} \union Flags, Hit(f), saved' = saved, log' = log
    PROVE  WorkOK' /\ Control'
<1> USE MaildirAssumption
<1>1. pc # "idle"
  BY DEF Looking
<1>2. CASE goal = "skip" /\ Done
  BY <1>1, <1>2, FinishType DEF Done
<1>3. CASE goal = "heal" /\ Dropped
  BY <1>1, <1>3, DroppedType, FinishType DEF Dropped
<1>4. CASE /\ goal \in {"open", "reopen", "rewrite", "delete"}
           /\ found' = f
           /\ Call(IF goal \in {"open", "reopen"} THEN "open" ELSE "remove")
           /\ UNCHANGED <<body, ghost>>
  <2>1. WorkOK'
    BY <1>4, Types DEF TypeInv, WorkOK, Call, ghost, PCs
  <2>2. Control'
    BY <1>1, <1>4 DEF TypeInv, Control, Call, Delivering
  <2> QED  BY <2>1, <2>2
<1> QED  BY <1>2, <1>3, <1>4 DEF Hit

LEMMA MissType ==
    ASSUME TypeInv, pc \in {"lstat", "open", "remove"}, Miss, saved' = saved, log' = log
    PROVE  WorkOK' /\ Control'
<1> USE MaildirAssumption
<1>1. pc # "idle" /\ Len(log) \in 0 .. Len(log)
  BY Counters DEF TypeInv
<1>2. CASE /\ goal \in {"skip", "heal"} /\ Live
           /\ body' = Changes(Len(log))
           /\ Call("create")
           /\ UNCHANGED <<found, ghost>>
  <2>1. body' \subseteq 1 .. MaxLog
    BY <1>1, <1>2, Counters DEF TypeInv
  <2>2. WorkOK'
    BY <1>2, <2>1, Types DEF TypeInv, WorkOK, Call, ghost, PCs
  <2>3. Control'
    BY <1>1, <1>2 DEF TypeInv, Control, Call, Delivering
  <2> QED  BY <2>2, <2>3
<1>3. CASE goal \in {"skip", "heal"} /\ ~Live /\ Done
  BY <1>1, <1>3, FinishType DEF Done
<1>4. CASE goal = "open" /\ Look("heal") /\ UNCHANGED <<body, ghost>>
  <2>1. WorkOK'
    BY <1>4, Types DEF TypeInv, WorkOK, Look, ghost, PCs, Goals
  <2>2. Control'
    BY <1>1, <1>4 DEF TypeInv, Control, Look, Delivering
  <2> QED  BY <2>1, <2>2
<1>5. CASE goal \in {"reopen", "rewrite"} /\ Dropped
  BY <1>1, <1>5, DroppedType, FinishType DEF Dropped
<1>6. CASE goal = "delete" /\ Finish({}, Visible # {})
  BY <1>1, <1>6, FinishType
<1> QED  BY <1>2, <1>3, <1>4, <1>5, <1>6 DEF Miss

-----------------------------------------------------------------------------
(* Every step keeps the types.                                             *)
LEMMA BeginType == TypeInv /\ Begin => TypeInv'
<1> SUFFICES ASSUME TypeInv, Begin PROVE TypeInv'
  OBVIOUS
<1> USE MaildirAssumption
<1>1. pos < Len(log) /\ log[pos + 1] \in Kinds
  <2>1. pos + 1 \in 1 .. Len(log) /\ log \in Seq(Kinds) /\ pos < Len(log)
    BY Counters DEF TypeInv, Begin
  <2> QED  BY <2>1
<1>2. PICK g \in {"skip", "open", "delete"} :
        /\ Look(g)
        /\ g = "skip" => log[pos + 1] = "add"
        /\ g = "open" => log[pos + 1] = "labels"
        /\ g = "delete" => log[pos + 1] = "delete"
  BY <1>1 DEF Begin, Kinds
<1>3. UNCHANGED <<log, other, disk, did, body, ghost>>
  BY DEF Begin, Disk
<1>4. FilesOK' /\ RestOK'
  BY <1>3, Types DEF TypeInv, FilesOK, RestOK, disk
<1>5. WorkOK'
  BY <1>2, <1>3, Types DEF TypeInv, WorkOK, Look, disk, ghost, PCs, Goals
<1>6. Control'
  BY <1>1, <1>2, <1>3 DEF TypeInv, Control, Look, Delivering
<1> QED  BY <1>4, <1>5, <1>6, Types, TypesNext DEF TypeInv

LEMMA DiskType ==
    ASSUME TypeInv, Disk
    PROVE  FilesOK' /\ RestOK' /\ saved' = saved /\ log' = log
  BY Types DEF TypeInv, FilesOK, RestOK, Disk, disk

LEMMA GetFileType == TypeInv /\ GetFile => TypeInv'
<1> SUFFICES ASSUME TypeInv, GetFile PROVE TypeInv'
  OBVIOUS
<1> USE MaildirAssumption
<1>1. /\ FilesOK' /\ RestOK' /\ saved' = saved /\ log' = log
  BY DiskType DEF GetFile, StatNew, ListCur, LstatCur
<1>2. CASE StatNew
  <2>1. CASE Hit("new")
    BY <1>1, <1>2, <2>1, HitType, Types, TypesNext DEF TypeInv, StatNew, Looking
  <2>2. CASE Call("list") /\ UNCHANGED <<found, body, ghost>>
    <3>1. WorkOK'
      BY <1>1, <2>2, Types DEF TypeInv, WorkOK, Call, ghost, PCs
    <3>2. Control'
      BY <1>1, <1>2, <2>2 DEF TypeInv, Control, Call, Delivering, StatNew
    <3> QED  BY <1>1, <3>1, <3>2, Types, TypesNext DEF TypeInv
  <2> QED  BY <1>2, <2>1, <2>2 DEF StatNew
<1>3. CASE ListCur
  <2>1. listed' \in [mine : SUBSET Flags, other : Flags]
    BY <1>3, Types DEF TypeInv, RestOK, ListCur
  <2>2. WorkOK'
    BY <1>1, <1>3, <2>1, Types DEF TypeInv, WorkOK, ListCur, ghost, PCs
  <2>3. Control'
    BY <1>1, <1>3 DEF TypeInv, Control, Delivering, ListCur
  <2> QED  BY <1>1, <2>2, <2>3, Types, TypesNext DEF TypeInv
<1>4. CASE LstatCur
  <2>1. CASE Miss
    BY <1>1, <1>4, <2>1, MissType, Types, TypesNext DEF TypeInv, LstatCur
  <2>2. ASSUME NEW f \in listed.mine, Hit(f) PROVE TypeInv'
    <3>1. f \in Flags
      BY Types DEF TypeInv, WorkOK
    <3> QED  BY <1>1, <1>4, <2>2, <3>1, HitType, Types, TypesNext DEF TypeInv, LstatCur, Looking
  <2> QED  BY <1>4, <2>1, <2>2 DEF LstatCur
<1> QED  BY <1>2, <1>3, <1>4 DEF GetFile

(* What is found at a path is a file.                                      *)
LEMMA AtFile ==
    ASSUME TypeOK, NEW p \in {"new"} \union Flags
    PROVE  At(p) \subseteq File
  BY Types DEF FilesOK, At

LEMMA OpenType == TypeInv /\ Open => TypeInv'
<1> SUFFICES ASSUME TypeInv, Open PROVE TypeInv'
  OBVIOUS
<1> USE MaildirAssumption
<1>1. /\ FilesOK' /\ RestOK' /\ saved' = saved /\ log' = log
  BY DiskType DEF Open
<1>2. CASE Miss
  BY <1>1, <1>2, MissType, Types, TypesNext DEF TypeInv, Open
<1>3. ASSUME NEW f \in At(found), body' = f.labels /\ Look("rewrite") /\ UNCHANGED ghost
      PROVE  TypeInv'
  <2>1. found \in {"new"} \union Flags
    BY Types DEF TypeInv, WorkOK, Control, Open
  <2>2. body' \subseteq 1 .. MaxLog
    BY <1>3, <2>1, AtFile DEF TypeInv, File
  <2>3. WorkOK'
    BY <1>1, <1>3, <2>2, Types DEF TypeInv, WorkOK, Look, ghost, PCs, Goals
  <2>4. Control'
    BY <1>1, <1>3 DEF TypeInv, Control, Look, Delivering, Open
  <2> QED  BY <1>1, <2>3, <2>4, Types, TypesNext DEF TypeInv
<1> QED  BY <1>2, <1>3 DEF Open

LEMMA RemoveType == TypeInv /\ Remove => TypeInv'
<1> SUFFICES ASSUME TypeInv, Remove PROVE TypeInv'
  OBVIOUS
<1> USE MaildirAssumption
<1>1. RestOK' /\ log' = log /\ saved' = saved /\ tmp' = tmp
  BY Types DEF TypeInv, RestOK, Remove, disk
<1>2. FilesOK'
  <2>1. CASE UNCHANGED disk
    BY <2>1, Types DEF TypeInv, FilesOK, disk
  <2>2. CASE /\ new' = IF found = "new" THEN {} ELSE new
             /\ cur' = [f \in Flags |-> IF f = found THEN {} ELSE cur[f]]
    <3>1. cur' \in [Flags -> SUBSET File] /\ \A f \in Flags : cur'[f] \in {cur[f], {}}
      BY <2>2, Types, TypesNext DEF TypeInv, FilesOK
    <3> QED  BY <1>1, <2>2, <3>1, HasNone, Types, TypesNext DEF TypeInv, FilesOK
  <2> QED  BY <2>1, <2>2 DEF Remove
<1>3. CASE Miss
  BY <1>1, <1>2, <1>3, MissType, Types, TypesNext DEF TypeInv, Remove
<1>4. CASE goal = "rewrite" /\ body' = body \union {pos + 1} /\ Call("create")
           /\ UNCHANGED <<found, ghost>>
  <2>1. pos + 1 \in 1 .. MaxLog
    BY DroppedType DEF Remove, TypeInv
  <2>2. body' \subseteq 1 .. MaxLog
    BY <1>4, <2>1, Types DEF TypeInv, WorkOK
  <2>3. WorkOK'
    BY <1>1, <1>4, <2>2, Types DEF TypeInv, WorkOK, Call, ghost, PCs
  <2>4. Control'
    BY <1>1, <1>4 DEF TypeInv, Control, Call, Delivering, Remove
  <2> QED  BY <1>1, <1>2, <2>3, <2>4, Types, TypesNext DEF TypeInv
<1>5. CASE goal = "delete" /\ Done
  BY <1>1, <1>2, <1>5, FinishType, Types, TypesNext DEF TypeInv, Done, Remove
<1> QED  BY <1>3, <1>4, <1>5 DEF Remove

LEMMA DeliverType == TypeInv /\ DeliverWithKey => TypeInv'
<1> SUFFICES ASSUME TypeInv, DeliverWithKey PROVE TypeInv'
  OBVIOUS
<1> USE MaildirAssumption
<1>1. RestOK' /\ log' = log /\ saved' = saved
  BY Types DEF TypeInv, RestOK, DeliverWithKey, Create, WriteBody, Rename, Chtimes, Step, disk
<1>2. \A b \in BOOLEAN : Fresh(b) \in File
  BY Types DEF TypeInv, WorkOK, Fresh, File
<1>3. FilesOK'
  <2>1. CASE Create \/ WriteBody
    <3>1. tmp' \subseteq File /\ Cardinality(tmp') <= 1
      BY <1>2, <2>1, HasOne DEF Create, WriteBody
    <3> QED  BY <2>1, <3>1, Types DEF TypeInv, FilesOK, Create, WriteBody
  <2>2. CASE Rename
    BY <2>2, HasNone, Types DEF TypeInv, FilesOK, Rename
  <2>3. CASE Chtimes
    BY <2>3, Types DEF TypeInv, FilesOK, Chtimes, disk
  <2> QED  BY <2>1, <2>2, <2>3 DEF DeliverWithKey
<1>4. CASE Create \/ WriteBody \/ Rename
  <2>1. PICK p \in {"write", "rename", "chtimes"} : Step(p)
    BY <1>4 DEF Create, WriteBody, Rename
  <2>2. WorkOK'
    BY <1>1, <2>1, Types DEF TypeInv, WorkOK, Step, Call, ghost, PCs
  <2>3. Control'
    BY <1>1, <1>4, <2>1
    DEF TypeInv, Control, Step, Call, Delivering, Create, WriteBody, Rename
  <2> QED  BY <1>1, <1>3, <2>2, <2>3, Types, TypesNext DEF TypeInv
<1>5. CASE Chtimes
  <2>1. CASE Finish({}, FALSE)
    BY <1>1, <1>3, <1>5, <2>1, FinishType, Types, TypesNext DEF TypeInv, Chtimes
  <2>2. CASE goal = "heal" /\ Look("reopen") /\ UNCHANGED <<body, ghost>>
    <3>1. WorkOK'
      BY <1>1, <2>2, Types DEF TypeInv, WorkOK, Look, ghost, PCs, Goals
    <3>2. Control'
      BY <1>1, <1>5, <2>2 DEF TypeInv, Control, Look, Delivering, Chtimes
    <3> QED  BY <1>1, <1>3, <3>1, <3>2, Types, TypesNext DEF TypeInv
  <2> QED  BY <1>5, <2>1, <2>2 DEF Chtimes
<1> QED  BY <1>4, <1>5 DEF DeliverWithKey

LEMMA SaveKillType == TypeInv /\ (Save \/ Kill) => TypeInv'
<1> SUFFICES ASSUME TypeInv, Save \/ Kill PROVE TypeInv'
  OBVIOUS
<1> USE MaildirAssumption
<1>1. RestOK' /\ FilesOK' /\ log' = log
  BY Types DEF TypeInv, RestOK, FilesOK, Save, Kill, disk
<1>2. CASE Save
  <2>1. saved' \in 0 .. pos' /\ pos' \in 0 .. Len(log')
    BY <1>1, <1>2, Counters DEF TypeInv, Save, proc
  <2>2. WorkOK'
    BY <1>2, <2>1, Types DEF TypeInv, WorkOK, Save, proc, ghost
  <2>3. Control'
    BY <1>1, <1>2 DEF TypeInv, Control, Delivering, Save, proc
  <2> QED  BY <1>1, <2>2, <2>3, Types, TypesNext DEF TypeInv
<1>3. CASE Kill
  <2>1. saved' \in 0 .. pos' /\ pos' \in 0 .. Len(log')
    BY <1>1, <1>3, Counters DEF TypeInv, Kill, disk
  <2>2. WorkOK'
    BY <1>1, <1>3, <2>1, Types DEF TypeInv, WorkOK, Kill, ghost, PCs, Goals
  <2>3. Control'
    BY <1>1, <1>3 DEF TypeInv, Control, Delivering, Kill
  <2> QED  BY <1>1, <2>2, <2>3, Types, TypesNext DEF TypeInv
<1> QED  BY <1>2, <1>3

LEMMA RecordType == TypeInv /\ Record => TypeInv'
<1> SUFFICES ASSUME TypeInv, Record PROVE TypeInv'
  OBVIOUS
<1> USE MaildirAssumption
<1>1. PICK r \in {"labels", "delete"} : log' = Append(log, r)
  BY DEF Record
<1>2. /\ log \in Seq(Kinds) /\ Len(log) \in Nat /\ r \in Kinds
      /\ Live /\ Len(log) < MaxLog
  BY Counters DEF TypeInv, Record, Kinds
<1>3. /\ log' \in Seq(Kinds) /\ Len(log') = Len(log) + 1 /\ log'[Len(log) + 1] = r
      /\ \A i \in 1 .. Len(log) : log'[i] = log[i]
  BY <1>1, <1>2
<1>4. UNCHANGED <<other, disk, proc, ghost, did>>
  BY DEF Record
<1>5. FilesOK' /\ WorkOK'
  BY <1>2, <1>3, <1>4, Types DEF TypeInv, FilesOK, WorkOK, disk, proc, ghost
<1>6. RestOK'
  BY <1>2, <1>3, <1>4, Counters, Types DEF TypeInv, RestOK
<1>7. Control'
  <2>1. pos \in Nat /\ pos <= Len(log)
    BY Counters DEF TypeInv
  <2>2. pc # "idle" => pos + 1 \in 1 .. Len(log)
    BY <1>2, <2>1 DEF TypeInv, Control
  <2>3. \A i \in 1 .. Len(log) : log[i] # "delete"
    BY <1>2 DEF TypeInv, Control, Live
  <2>4. \A i \in 1 .. Len(log') : log'[i] = "delete" => i = Len(log')
    BY <1>2, <1>3, <2>3
  <2> QED  BY <1>2, <1>3, <1>4, <2>1, <2>2, <2>4 DEF TypeInv, Control, Delivering, proc
<1> QED  BY <1>5, <1>6, <1>7, Types, TypesNext DEF TypeInv

LEMMA ClientType == TypeInv /\ Client => TypeInv'
<1> SUFFICES ASSUME TypeInv, Client PROVE TypeInv'
  OBVIOUS
<1> USE MaildirAssumption
<1>1. UNCHANGED <<log, tmp, saved, proc, ghost>>
  BY DEF Client, MoveToCur, FlagOther, RemoveFromCur, Flag, Does
<1>2. WorkOK' /\ Control'
  BY <1>1, Types DEF TypeInv, WorkOK, Control, Delivering, proc, ghost
<1>3. RestOK'
  BY <1>1, Types
  DEF TypeInv, RestOK, Client, MoveToCur, FlagOther, RemoveFromCur, Flag, Does
<1>4. /\ cur \in [Flags -> SUBSET File] /\ \A f \in Flags : Cardinality(cur[f]) <= 1
      /\ new \subseteq File /\ Cardinality(new) <= 1 /\ Cardinality({}) <= 1
  BY HasNone, Types, TypesNext DEF TypeInv, FilesOK
<1>5. CASE MoveToCur
  <2>1. PICK f \in Flags : cur' = [cur EXCEPT ![f] = new] /\ new' = {}
    BY <1>5 DEF MoveToCur
  <2>2. cur' \in [Flags -> SUBSET File] /\ \A h \in Flags : Cardinality(cur'[h]) <= 1
    BY <1>4, <2>1
  <2> QED  BY <1>1, <1>2, <1>3, <1>4, <2>1, <2>2, Types, TypesNext DEF TypeInv, FilesOK
<1>6. CASE FlagOther
  BY <1>1, <1>2, <1>3, <1>6, Types, TypesNext DEF TypeInv, FilesOK, FlagOther
<1>7. ASSUME NEW f \in Flags, RemoveFromCur(f) PROVE TypeInv'
  <2>1. cur' \in [Flags -> SUBSET File] /\ \A h \in Flags : Cardinality(cur'[h]) <= 1
    BY <1>4, <1>7 DEF RemoveFromCur
  <2> QED  BY <1>1, <1>2, <1>3, <1>4, <1>7, <2>1, Types, TypesNext DEF TypeInv, FilesOK, RemoveFromCur
<1>8. ASSUME NEW f \in Flags, NEW g \in Flags, Flag(f, g) PROVE TypeInv'
  <2>1. cur' \in [Flags -> SUBSET File] /\ \A h \in Flags : Cardinality(cur'[h]) <= 1
    BY <1>4, <1>8 DEF Flag
  <2> QED  BY <1>1, <1>2, <1>3, <1>4, <1>8, <2>1, Types, TypesNext DEF TypeInv, FilesOK, Flag
<1> QED  BY <1>5, <1>6, <1>7, <1>8 DEF Client

LEMMA NextType == TypeInv /\ [Next]_vars => TypeInv'
<1> SUFFICES ASSUME TypeInv, [Next]_vars PROVE TypeInv'
  OBVIOUS
<1>1. CASE UNCHANGED vars
  <2>1. FilesOK' /\ WorkOK' /\ RestOK'
    BY <1>1, Types DEF TypeInv, FilesOK, WorkOK, RestOK, vars, disk, proc, ghost
  <2>2. Control'
    BY <1>1 DEF TypeInv, Control, Delivering, vars, disk, proc, ghost
  <2> QED  BY <2>1, <2>2, Types, TypesNext DEF TypeInv
<1>2. CASE Next
  BY <1>2, BeginType, GetFileType, OpenType, RemoveType, DeliverType, SaveKillType, RecordType,
     ClientType DEF Next, Sync
<1> QED  BY <1>1, <1>2

LEMMA SpecType == Spec => []TypeInv
  BY InitType, NextType, PTL DEF Spec

-----------------------------------------------------------------------------
(* What a step can do, whatever call it makes                              *)

FilesKept == new' = new /\ cur' = cur

Missed ==
    \/ pc = "lstat" /\ (~ListHolds \/ listed.mine = {})
    \/ pc \in {"open", "remove"} /\ At(found) = {}

(* A lookup starts, or goes on.                                            *)
Looks ==
    /\ UNCHANGED <<pos, ghost>>
    /\ \/ /\ pc = "idle" /\ Look(goal') /\ goal' \in {"skip", "open", "delete"} /\ body' = body
       \/ pc = "stat" /\ new = {} /\ pc' = "list" /\ UNCHANGED <<goal, body>>
       \/ /\ pc = "list" /\ pc' = "lstat" /\ UNCHANGED <<goal, body>>
          /\ listed' = [mine |-> {f \in Flags : cur[f] # {}}, other |-> other]

(* A lookup ends with the path of a file.                                  *)
Finds ==
    /\ Looking /\ found' \in Paths
    /\ goal \in {"open", "reopen", "rewrite", "delete"}
    /\ pc' = IF goal \in {"open", "reopen"} THEN "open" ELSE "remove"
    /\ UNCHANGED <<goal, pos, body, ghost>>

FindsDone == Looking /\ Paths # {} /\ ((goal = "skip" /\ Done) \/ (goal = "heal" /\ Dropped))

Reads ==
    /\ pc = "open"
    /\ \E f \in At(found) : body' = f.labels
    /\ pc' = "stat" /\ goal' = "rewrite" /\ UNCHANGED <<pos, ghost>>

Writes ==
    /\ \/ pc = "create" /\ pc' = "write"
       \/ pc = "write" /\ pc' = "rename" /\ tmp' = {Fresh(TRUE)}
    /\ UNCHANGED <<goal, pos, body, ghost>>

Delivered ==
    /\ pc = "chtimes"
    /\ \/ goal \in {"skip", "rewrite"} /\ Done
       \/ goal = "heal" /\ Look("reopen") /\ UNCHANGED <<body, ghost>>

Works == Looks \/ Finds \/ FindsDone \/ (Missed /\ Miss) \/ Reads \/ Writes \/ Delivered

RemovesFound ==
    /\ pc = "remove" /\ At(found) # {}
    /\ new' = IF found = "new" THEN {} ELSE new
    /\ cur' = [f \in Flags |-> IF f = found THEN {} ELSE cur[f]]
    /\ \/ /\ goal = "rewrite" /\ body' = body \union {pos + 1}
          /\ pc' = "create" /\ UNCHANGED <<goal, pos, ghost>>
       \/ goal = "delete" /\ Done

Renames ==
    /\ pc = "rename" /\ pc' = "chtimes"
    /\ new' = tmp /\ cur' = cur
    /\ UNCHANGED <<goal, pos, body, ghost>>

Inside == UNCHANGED <<log, other, saved, did>>

(* A file in new or cur has a path.                                        *)
LEMMA PathsVisible ==
    ASSUME TypeOK
    PROVE  /\ \A f : f \in Visible <=> \E p \in Paths : f \in At(p)
           /\ Visible = {} <=> Paths = {}
           /\ Paths = {} <=> (new = {} /\ \A f \in Flags : cur[f] = {})
           /\ "new" \in Paths <=> new # {}
           /\ \A f \in Flags : f \in Paths <=> cur[f] # {}
           /\ Paths \subseteq {"new"} \union Flags
<1>1. \A f \in Flags : f # "new" /\ At(f) = cur[f]
  BY MaildirAssumption DEF At
<1>2. At("new") = new
  BY DEF At
<1>3. \A f : f \in Visible <=> \E p \in Paths : f \in At(p)
  BY <1>1, <1>2 DEF Visible, Paths
<1> QED  BY <1>1, <1>2, <1>3 DEF Paths

LEMMA KeptPaths ==
    ASSUME FilesKept
    PROVE  Paths' = Paths /\ Visible' = Visible /\ \A p : At(p)' = At(p)
  BY DEF FilesKept, Paths, Visible, At

LEMMA StepKinds ==
    ASSUME TypeInv, [Next]_vars
    PROVE  \/ Works /\ FilesKept /\ Inside
           \/ RemovesFound /\ Inside
           \/ Renames /\ Inside
           \/ (Save \/ Kill \/ Record \/ UNCHANGED vars) /\ FilesKept
           \/ Client
<1>1. CASE Begin
  <2>1. log[pos + 1] \in Kinds
    <3>1. pos + 1 \in 1 .. Len(log) /\ log \in Seq(Kinds)
      BY <1>1, Counters DEF TypeInv, Begin
    <3> QED  BY <3>1
  <2> QED  BY <1>1, <2>1 DEF Begin, Kinds, Works, Looks, Look, FilesKept, Inside, Disk, disk
<1>2. CASE StatNew
  <2>1. CASE new # {} /\ Hit("new")
    <3>1. "new" \in Paths
      BY <2>1, PathsVisible DEF TypeInv
    <3> QED  BY <1>2, <2>1, <3>1 DEF Hit, StatNew, Works, Finds, FindsDone, Looking, Call,
                                    FilesKept, Inside, Disk, disk, ghost
  <2>2. CASE new = {}
    BY <1>2, <2>2 DEF StatNew, Call, Works, Looks, FilesKept, Inside, Disk, disk
  <2> QED  BY <1>2, <2>1, <2>2 DEF StatNew
<1>3. CASE ListCur
  BY <1>3 DEF ListCur, Works, Looks, FilesKept, Inside, Disk, disk, ghost
<1>4. CASE LstatCur
  <2>1. CASE Missed /\ Miss
    BY <1>4, <2>1 DEF LstatCur, Works, FilesKept, Inside, Disk, disk
  <2>2. ASSUME NEW f \in listed.mine, ListHolds, Hit(f)
        PROVE  Works
    <3>1. f \in Flags /\ cur[f] # {}
      BY <2>2, Types DEF TypeInv, WorkOK, ListHolds
    <3>2. f \in Paths
      BY <3>1, PathsVisible DEF TypeInv
    <3> QED  BY <1>4, <2>2, <3>2 DEF Hit, LstatCur, Works, Finds, FindsDone, Looking, Call, ghost
  <2> QED  BY <1>4, <2>1, <2>2 DEF LstatCur, Missed, FilesKept, Inside, Disk, disk
<1>5. CASE Open
  BY <1>5 DEF Open, Works, Missed, Reads, Look, FilesKept, Inside, Disk, disk
<1>6. CASE Remove
  <2>1. CASE At(found) = {}
    BY <1>6, <2>1 DEF Remove, Works, Missed, FilesKept, Inside, disk
  <2>2. CASE At(found) # {}
    BY <1>6, <2>2 DEF Remove, RemovesFound, Call, Inside
  <2> QED  BY <2>1, <2>2
<1>7. CASE DeliverWithKey
  BY <1>7 DEF DeliverWithKey, Create, WriteBody, Rename, Chtimes, Step, Call, Works, Writes,
              Delivered, Done, Renames, FilesKept, Inside, disk
<1>8. CASE Save \/ Kill \/ Record \/ UNCHANGED vars
  BY <1>8 DEF Save, Kill, Record, vars, FilesKept, disk
<1> QED  BY <1>1, <1>2, <1>3, <1>4, <1>5, <1>6, <1>7, <1>8 DEF Next, Sync, GetFile

(* Where the steps that leave the files alone go.                          *)
LEMMA WorksTo ==
    ASSUME Works
    PROVE  /\ pc' \in {"write", "rename"} => Writes
           /\ pc' = "create" => Missed /\ Miss
           /\ pc' # "chtimes"
  BY DEF Works, Looks, Look, Finds, FindsDone, Missed, Miss, Reads, Writes, Delivered, Call,
         Done, Dropped, Finish

(* What the mail client does to the files.                                 *)
LEMMA ClientSteps ==
    ASSUME TypeInv, Client
    PROVE  /\ UNCHANGED <<log, tmp, saved, proc, ghost>>
           /\ did' # {} /\ did \subseteq did'
           /\ Visible' \subseteq Visible
           /\ "remove" \notin did' => (Paths # {} => Paths' # {})
           /\ "flag" \notin did' =>
                /\ other' = other
                /\ \/ \E f \in Flags : new' = new /\ cur' = [cur EXCEPT ![f] = {}]
                   \/ \E f \in Flags : new # {} /\ new' = {} /\ cur' = [cur EXCEPT ![f] = new]
<1>1. /\ UNCHANGED <<log, tmp, saved, proc, ghost>>
      /\ did' # {} /\ did \subseteq did'
  BY DEF Client, MoveToCur, FlagOther, RemoveFromCur, Flag, Does
<1>2. cur \in [Flags -> SUBSET File]
  BY Types DEF TypeInv, FilesOK
<1>3. Visible' \subseteq Visible
  BY <1>2 DEF Visible, Client, MoveToCur, FlagOther, RemoveFromCur, Flag, Does
<1>4. ASSUME "remove" \notin did', Paths # {} PROVE Paths' # {}
  <2>1. new # {} \/ \E f \in Flags : cur[f] # {}
    BY <1>4, PathsVisible DEF TypeInv
  <2>2. new' # {} \/ \E f \in Flags : cur'[f] # {}
    BY <1>2, <1>4, <2>1 DEF Client, MoveToCur, FlagOther, RemoveFromCur, Flag, Does
  <2> QED  BY <2>2, MaildirAssumption DEF Paths, At
<1>5. "flag" \notin did' =>
        /\ other' = other
        /\ \/ \E f \in Flags : new' = new /\ cur' = [cur EXCEPT ![f] = {}]
           \/ \E f \in Flags : new # {} /\ new' = {} /\ cur' = [cur EXCEPT ![f] = new]
  BY DEF Client, MoveToCur, FlagOther, RemoveFromCur, Flag, Does
<1> QED  BY <1>1, <1>3, <1>4, <1>5

-----------------------------------------------------------------------------
(* WholeFiles                                                              *)

LEMMA WholeInv == TypeInv /\ Whole /\ [Next]_vars => Whole'
<1> SUFFICES ASSUME TypeInv, Whole, [Next]_vars PROVE Whole'
  OBVIOUS
<1>1. CASE Works /\ FilesKept /\ Inside
  <2>1. WholeFiles'
    BY <1>1, KeptPaths DEF Whole, WholeFiles
  <2>2. CASE pc' = "rename"
    BY <1>1, <2>1, <2>2, WorksTo DEF Whole, Writes, Fresh
  <2> QED  BY <2>1, <2>2 DEF Whole
<1>2. CASE RemovesFound /\ Inside
  <2>1. WholeFiles'
    BY <1>2 DEF RemovesFound, Whole, WholeFiles, Visible
  <2> QED  BY <1>2, <2>1 DEF RemovesFound, Whole, Done, Finish
<1>3. CASE Renames /\ Inside
  BY <1>3 DEF Renames, Whole, WholeFiles, Visible, Fresh
<1>4. CASE (Save \/ Kill \/ Record \/ UNCHANGED vars) /\ FilesKept
  <2>1. WholeFiles'
    BY <1>4, KeptPaths DEF Whole, WholeFiles
  <2>2. pc' = "rename" => pc = "rename" /\ tmp' = tmp /\ body' = body
    BY <1>4 DEF Save, Kill, Record, vars, disk, proc
  <2> QED  BY <2>1, <2>2 DEF Whole, Fresh
<1>5. CASE Client
  <2>1. UNCHANGED <<tmp, proc>>
    BY <1>5 DEF Client, MoveToCur, FlagOther, RemoveFromCur, Flag, Does
  <2>2. Visible' \subseteq Visible
    <3>1. cur \in [Flags -> SUBSET File]
      BY Types DEF TypeInv, FilesOK
    <3> QED  BY <1>5, <3>1
             DEF Visible, Client, MoveToCur, FlagOther, RemoveFromCur, Flag, Does
  <2> QED  BY <2>1, <2>2 DEF Whole, WholeFiles, Fresh, proc
<1> QED  BY <1>1, <1>2, <1>3, <1>4, <1>5, StepKinds

-----------------------------------------------------------------------------
(* OneFile                                                                 *)

(* No lookup misses a file, and none is there while another is delivered,  *)
(* unless one is flagged meanwhile.                                        *)
One ==
    "flag" \notin did =>
        /\ \A p, q \in Paths : p = q
        /\ pc \in {"list", "lstat"} => new = {}
        /\ pc = "lstat" => /\ listed.other = other
                           /\ \A f \in Flags : cur[f] # {} => f \in listed.mine
                           /\ \A f, g \in listed.mine : f = g
        /\ Delivering => Paths = {}

(* A lookup that finds nothing is right.                                   *)
LEMMA MissedAll ==
    ASSUME TypeInv, One, "flag" \notin did, Missed, pc = "lstat"
    PROVE  Paths = {}
<1>1. new = {} /\ \A f \in Flags : cur[f] = {}
  <2> SUFFICES ASSUME NEW g \in Flags, cur[g] # {} PROVE FALSE
    BY DEF One
  <2>1. g \in listed.mine
    BY DEF One
  <2>2. \A f \in listed.mine : f = g
    BY <2>1 DEF One
  <2> QED  BY <2>1, <2>2 DEF One, Missed, ListHolds
<1> QED  BY <1>1, PathsVisible DEF TypeInv

LEMMA OneInv == TypeInv /\ One /\ [Next]_vars => One'
<1> SUFFICES ASSUME TypeInv, One, [Next]_vars, "flag" \notin did' PROVE One'
  BY DEF One
<1> USE MaildirAssumption
<1>1. CASE Works /\ FilesKept /\ Inside
  <2>1. Paths' = Paths /\ "flag" \notin did /\ \A p, q \in Paths' : p = q
    BY <1>1, KeptPaths DEF Inside, One
  <2>2. pc' = "list" => new' = {}
    BY <1>1 DEF FilesKept, Works, Looks, Look, Finds, FindsDone, Missed, Miss, Reads, Writes,
                Delivered, Call, Done, Dropped, Finish
  <2>3. CASE pc' = "lstat"
    <3>1. pc = "list" /\ listed' = [mine |-> {f \in Flags : cur[f] # {}}, other |-> other]
      BY <1>1, <2>3 DEF Works, Looks, Look, Finds, FindsDone, Missed, Miss, Reads, Writes,
                        Delivered, Call, Done, Dropped, Finish
    <3>2. listed'.mine = {f \in Flags : cur[f] # {}} /\ listed'.other = other
      BY <3>1
    <3>3. \A f, g \in listed'.mine : f = g
      BY <2>1, <3>2, PathsVisible DEF TypeInv, One
    <3> QED  BY <1>1, <2>1, <2>3, <3>1, <3>2, <3>3 DEF One, FilesKept, Inside, Delivering
  <2>4. CASE pc' \in {"create", "write", "rename"}
    <3>1. CASE Writes
      BY <2>1, <2>4, <3>1 DEF One, Writes, Delivering
    <3>2. CASE Missed /\ Miss /\ pc' = "create"
      <4>1. goal \in {"skip", "heal"}
        BY <3>2 DEF Miss, Call, Look, Done, Dropped, Finish
      <4>2. pc = "lstat"
        BY <3>2, <4>1 DEF Missed, TypeInv, Control
      <4> QED  BY <2>1, <3>2, <4>2, MissedAll DEF One, Delivering
    <3> QED  BY <1>1, <2>4, <3>1, <3>2, WorksTo
  <2> QED  BY <2>1, <2>2, <2>3, <2>4 DEF One, Delivering
<1>2. CASE RemovesFound /\ Inside
  <2>1. pc' \in {"create", "idle"} /\ "flag" \notin did
    BY <1>2 DEF RemovesFound, Done, Finish, Inside
  <2>2. Paths' = {}
    <3>1. found \in Paths /\ \A p \in Paths : p = found
      <4>1. found \in {"new"} \union Flags
        BY <1>2, Types DEF TypeInv, WorkOK, Control, RemovesFound
      <4> QED  BY <1>2, <2>1, <4>1 DEF RemovesFound, Paths, One
    <3>2. new' = {} /\ \A f \in Flags : cur'[f] = {}
      BY <1>2, <3>1, PathsVisible DEF TypeInv, RemovesFound
    <3> QED  BY <3>2 DEF Paths, At
  <2> QED  BY <2>1, <2>2 DEF One
<1>3. CASE Renames /\ Inside
  <2>1. Paths = {} /\ "flag" \notin did
    BY <1>3 DEF Renames, Inside, One, Delivering
  <2>2. \A f \in Flags : cur'[f] = {}
    BY <1>3, <2>1, PathsVisible DEF TypeInv, Renames
  <2>3. Paths' \subseteq {"new"}
    BY <2>2 DEF Paths, At
  <2> QED  BY <1>3, <2>3 DEF One, Renames, Delivering
<1>4. CASE (Save \/ Kill \/ Record \/ UNCHANGED vars) /\ FilesKept
  <2>1. Paths' = Paths /\ "flag" \notin did
    BY <1>4, KeptPaths DEF Save, Kill, Record, vars
  <2>2. pc' = "idle" \/ UNCHANGED <<pc, listed, other, new, cur>>
    BY <1>4 DEF Save, Kill, Record, vars, disk, proc
  <2> QED  BY <2>1, <2>2 DEF One, Delivering
<1>5. CASE Client
  <2>1. "flag" \notin did /\ other' = other /\ UNCHANGED proc
    BY <1>5, ClientSteps
  <2>2. ASSUME NEW f \in Flags, new' = new /\ cur' = [cur EXCEPT ![f] = {}] PROVE One'
    <3>1. cur \in [Flags -> SUBSET File]
      BY Types DEF TypeInv, FilesOK
    <3>2. \A g \in Flags : cur'[g] # {} => cur[g] # {}
      BY <2>2, <3>1
    <3>3. Paths' \subseteq Paths
      BY <2>2, <3>2 DEF Paths, At
    <3> QED  BY <2>1, <2>2, <3>2, <3>3 DEF One, Delivering, proc
  <2>3. ASSUME NEW f \in Flags, new # {} /\ new' = {} /\ cur' = [cur EXCEPT ![f] = new]
        PROVE  One'
    <3>1. "new" \in Paths /\ \A g \in Flags : g \notin Paths
      BY <2>1, <2>3, PathsVisible DEF TypeInv, One
    <3>2. \A g \in Flags : cur[g] = {}
      BY <3>1, PathsVisible DEF TypeInv
    <3>3. cur \in [Flags -> SUBSET File]
      BY Types DEF TypeInv, FilesOK
    <3>4. \A g \in Flags : cur'[g] # {} => g = f
      BY <2>3, <3>2, <3>3
    <3>5. Paths' \subseteq {f}
      BY <2>3, <3>4 DEF Paths, At
    <3>6. ~Delivering /\ pc \notin {"list", "lstat"}
      BY <2>1, <2>3, <3>1 DEF One
    <3> QED  BY <2>1, <3>5, <3>6 DEF One, Delivering, proc
  <2> QED  BY <1>5, <2>2, <2>3, ClientSteps
<1> QED  BY <1>1, <1>2, <1>3, <1>4, <1>5, StepKinds

-----------------------------------------------------------------------------
(* HasFile                                                                 *)

(* A message without a file has a record to come that brings it, or its    *)
(* delivery is under way.                                                  *)
Due ==
    "remove" \notin did /\ Live =>
        /\ Paths = {} => pos < Len(log)
        /\ goal \in {"reopen", "rewrite"} /\ ~Delivering => Paths # {}
        /\ pc = "chtimes" => Paths # {}

(* Only a message that is gone is deleted.                                 *)
LEMMA DeletesGone ==
    ASSUME TypeInv, goal = "delete"
    PROVE  ~Live
<1>1. pc # "idle" /\ pos < Len(log) /\ log[pos + 1] = "delete"
  BY DEF TypeInv, Control
<1>2. pos + 1 \in 1 .. Len(log)
  BY <1>1, Counters DEF TypeInv
<1> QED  BY <1>1, <1>2 DEF TypeInv, Control, Live

LEMMA DueInv == TypeInv /\ Whole /\ Due /\ [Next]_vars => Due'
<1> SUFFICES ASSUME TypeInv, Whole, Due, [Next]_vars, "remove" \notin did', Live' PROVE Due'
  BY DEF Due
<1> USE MaildirAssumption
<1>1. Len(log) \in Nat /\ pos \in Nat /\ saved \in Nat /\ saved <= pos /\ pos <= Len(log)
      /\ (pc # "idle" => pos < Len(log))
  BY Counters DEF TypeInv, Control
<1>2. CASE Works /\ FilesKept /\ Inside
  <2>1. Paths' = Paths /\ "remove" \notin did /\ Live /\ log' = log
    BY <1>2, KeptPaths DEF Inside, Live
  <2>2. goal # "delete"
    BY <2>1, DeletesGone
  <2>3. CASE Looks
    BY <1>1, <2>1, <2>3 DEF Due, Looks, Look, Delivering
  <2>4. CASE Finds
    BY <1>1, <2>1, <2>4 DEF Due, Finds, Delivering
  <2>5. CASE FindsDone
    BY <2>1, <2>5 DEF Due, FindsDone, Done, Dropped, Finish, Delivering
  <2>6. CASE Missed /\ Miss
    <3>1. pc \in {"lstat", "open", "remove"} /\ pc # "idle" /\ ~Delivering
      BY <2>6 DEF Missed, Delivering
    <3> QED  BY <1>1, <2>1, <2>2, <2>6, <3>1
             DEF Due, Miss, Call, Look, Done, Dropped, Finish, Delivering
  <2>7. CASE Reads
    <3>1. Paths # {}
      BY <2>7, Types DEF Reads, Paths, TypeInv, WorkOK, Control
    <3> QED  BY <1>1, <2>1, <2>7, <3>1 DEF Due, Reads, Delivering
  <2>8. CASE Writes
    BY <1>1, <2>1, <2>8 DEF Due, Writes, Delivering
  <2>9. CASE Delivered
    BY <2>1, <2>9 DEF Due, Delivered, Done, Finish, Look, Delivering
  <2> QED  BY <1>2, <2>3, <2>4, <2>5, <2>6, <2>7, <2>8, <2>9 DEF Works
<1>3. CASE RemovesFound /\ Inside
  <2>1. goal = "rewrite"
    BY <1>3, DeletesGone DEF RemovesFound, Inside, Live
  <2> QED  BY <1>1, <1>3, <2>1 DEF Due, RemovesFound, Delivering, Inside
<1>4. CASE Renames /\ Inside
  <2>1. new' # {}
    BY <1>4 DEF Renames, Whole
  <2>2. Paths' # {}
    BY <2>1 DEF Paths, At
  <2> QED  BY <2>2 DEF Due
<1>5. CASE (Save \/ Kill \/ Record \/ UNCHANGED vars) /\ FilesKept
  <2>1. Paths' = Paths /\ "remove" \notin did
    BY <1>5, KeptPaths DEF Save, Kill, Record, vars
  <2>2. CASE Record
    <3>1. Len(log') = Len(log) + 1 /\ Live
      BY <2>2, Counters DEF Record, TypeInv
    <3> QED  BY <1>1, <2>1, <2>2, <3>1 DEF Due, Record, proc, Delivering
  <2>3. CASE Save \/ Kill \/ UNCHANGED vars
    <3>1. Live /\ log' = log
      BY <2>3 DEF Live, Save, Kill, vars
    <3>2. \/ UNCHANGED <<pc, goal, pos>>
          \/ pc' = "idle" /\ goal' = "none" /\ pos' = saved
      BY <2>3 DEF Save, Kill, vars, proc
    <3> QED  BY <1>1, <2>1, <3>1, <3>2 DEF Due, Delivering
  <2> QED  BY <1>5, <2>2, <2>3
<1>6. CASE Client
  <2>1. /\ "remove" \notin did /\ UNCHANGED <<proc, log>> /\ (Paths # {} => Paths' # {})
    BY <1>6, ClientSteps
  <2> QED  BY <2>1 DEF Due, Live, Delivering, proc
<1> QED  BY <1>2, <1>3, <1>4, <1>5, <1>6, StepKinds

-----------------------------------------------------------------------------
(* UpToDate                                                                *)

(* The label changes gone through are in a header, and no others than      *)
(* those of the log.                                                       *)
Holds(L) == Changes(pos) \subseteq L \union lost /\ L \subseteq Changes(Len(log))

Labelled ==
    "flag" \notin did =>
        /\ \A f \in Visible : Holds(f.labels)
        /\ Delivering \/ goal = "rewrite" => Holds(body)
        /\ Delivering /\ goal = "rewrite" => pos + 1 \in body
        /\ pc = "chtimes" /\ goal = "rewrite" => \A f \in Visible : pos + 1 \in f.labels

(* A message that is deleted at the end of the log has no file left.       *)
Gone == "flag" \notin did /\ ~Live /\ ~kept /\ pos = Len(log) => Paths = {}

(* Without a mail client every lookup is right, and nothing passed over.   *)
Alone ==
    did = {} =>
        /\ lost = {} /\ ~kept
        /\ goal = "heal" /\ Looking => Paths = {}
        /\ goal \in {"reopen", "rewrite"} /\ ~Delivering => Paths # {}
        /\ pc \in {"open", "remove"} => found \in Paths
        /\ pc = "lstat" => listed.mine = {f \in Flags : cur[f] # {}}
        /\ pc = "chtimes" => Paths # {}

(* What one more record adds to the label changes.                         *)
LEMMA NextChange ==
    ASSUME TypeInv, pc # "idle"
    PROVE  /\ pos \in Nat /\ Len(log) \in Nat /\ pos < Len(log)
           /\ Changes(pos + 1) \subseteq Changes(pos) \union {pos + 1}
           /\ log[pos + 1] # "labels" => Changes(pos + 1) = Changes(pos)
           /\ log[pos + 1] = "labels" => pos + 1 \in Changes(Len(log))
           /\ Changes(pos) \subseteq Changes(Len(log))
<1>1. pos \in Nat /\ Len(log) \in Nat /\ pos < Len(log)
  BY Counters DEF TypeInv, Control
<1> QED  BY <1>1 DEF Changes

(* The record is gone through: what holds of the files still does.         *)
LEMMA FinishHolds ==
    ASSUME TypeInv, pc # "idle", log' = log, NEW L, NEW k, Finish(L, k), NEW K, Holds(K),
           log[pos + 1] = "labels" => pos + 1 \in K \union L
    PROVE  Holds(K)'
<1>1. pos' = pos + 1 /\ lost' = lost \union L
  BY DEF Finish
<1>2. Changes(pos)' = Changes(pos + 1) /\ Changes(Len(log))' = Changes(Len(log))
  BY <1>1 DEF Changes
<1> QED  BY <1>1, <1>2, NextChange DEF Holds

(* A step that leaves the record alone does so too.                        *)
LEMMA SameHolds ==
    ASSUME UNCHANGED <<log, pos, lost>>, NEW K, Holds(K)
    PROVE  Holds(K)'
<1>1. Changes(pos)' = Changes(pos) /\ Changes(Len(log))' = Changes(Len(log))
  BY DEF Changes
<1> QED  BY <1>1 DEF Holds

LEMMA LabelledInv == TypeInv /\ Whole /\ One /\ Labelled /\ [Next]_vars => Labelled'
<1> SUFFICES ASSUME TypeInv, Whole, One, Labelled, [Next]_vars, "flag" \notin did'
             PROVE  Labelled'
  BY DEF Labelled
<1> USE MaildirAssumption
<1>1. CASE Works /\ FilesKept /\ Inside
  <2>1. Visible' = Visible /\ "flag" \notin did /\ log' = log
    BY <1>1, KeptPaths DEF Inside
  <2>2. \A f \in Visible : Holds(f.labels)
    BY <2>1 DEF Labelled
  <2>3. CASE UNCHANGED <<pos, lost>> /\ ~Delivering' /\ goal' # "rewrite"
    BY <2>1, <2>2, <2>3, SameHolds DEF Labelled
  <2>4. CASE Looks
    BY <2>3, <2>1, <2>2, <2>4, SameHolds DEF Labelled, Looks, Look, Delivering, ghost
  <2>5. CASE Finds
    BY <2>1, <2>2, <2>5, SameHolds DEF Labelled, Finds, Delivering, ghost
  <2>6. CASE FindsDone
    <3>1. pc # "idle" /\ pc' = "idle" /\ goal' = "none"
      BY <2>6 DEF FindsDone, Looking, Done, Dropped, Finish
    <3>2. \A f \in Visible : Holds(f.labels)'
      <4>1. CASE goal = "skip" /\ Done
        BY <2>1, <2>2, <3>1, <4>1, FinishHolds DEF Done, TypeInv, Control
      <4>2. CASE goal = "heal" /\ Dropped
        BY <2>1, <2>2, <3>1, <4>2, FinishHolds DEF Dropped
      <4> QED  BY <2>6, <4>1, <4>2 DEF FindsDone
    <3> QED  BY <2>1, <3>1, <3>2 DEF Labelled, Delivering
  <2>7. CASE Missed /\ Miss
    <3>1. pc # "idle" /\ pc \in {"lstat", "open", "remove"}
      BY <2>7 DEF Missed
    <3>2. CASE Live /\ goal \in {"skip", "heal"} /\ body' = Changes(Len(log))
               /\ Call("create") /\ UNCHANGED <<found, ghost>>
      <4>1. Holds(body')
        BY <3>1, <3>2, NextChange DEF Holds
      <4>2. UNCHANGED <<log, pos, lost>> /\ goal' = goal /\ pc' = "create"
        BY <2>1, <3>2 DEF Call, ghost
      <4>3. Holds(body)'
        <5>1. Changes(pos)' = Changes(pos) /\ Changes(Len(log))' = Changes(Len(log))
          BY <4>2 DEF Changes
        <5> QED  BY <4>1, <4>2, <5>1 DEF Holds
      <4> QED  BY <2>1, <2>2, <3>2, <4>2, <4>3, SameHolds DEF Labelled, Delivering
    <3>3. CASE goal \in {"skip", "heal"} /\ ~Live /\ Done
      <4>1. pc = "lstat"
        BY <3>1, <3>3 DEF TypeInv, Control
      <4>2. Visible = {}
        BY <2>1, <2>7, <4>1, MissedAll, PathsVisible DEF TypeInv
      <4> QED  BY <2>1, <3>3, <4>2 DEF Labelled, Delivering, Done, Finish
    <3>4. CASE goal = "open" /\ Look("heal") /\ UNCHANGED <<body, ghost>>
      BY <2>3, <3>4 DEF Look, ghost, Delivering
    <3>5. CASE goal \in {"reopen", "rewrite"} /\ Dropped
      <4>1. \A f \in Visible : Holds(f.labels)'
        BY <2>1, <2>2, <3>1, <3>5, FinishHolds DEF Dropped
      <4> QED  BY <2>1, <3>5, <4>1 DEF Labelled, Delivering, Dropped, Finish
    <3>6. CASE goal = "delete" /\ Finish({}, Visible # {})
      <4>1. log[pos + 1] = "delete"
        BY <3>6 DEF TypeInv, Control
      <4>2. \A f \in Visible : Holds(f.labels)'
        BY <2>1, <2>2, <3>1, <3>6, <4>1, FinishHolds
      <4> QED  BY <2>1, <3>6, <4>2 DEF Labelled, Delivering, Finish
    <3> QED  BY <2>7, <3>2, <3>3, <3>4, <3>5, <3>6 DEF Miss
  <2>8. CASE Reads
    <3>1. PICK f \in At(found) : body' = f.labels
      BY <2>8 DEF Reads
    <3>2. f \in Visible
      <4>1. found \in Paths
        BY <2>8, <3>1, Types DEF Reads, Paths, TypeInv, WorkOK, Control
      <4> QED  BY <3>1, <4>1, PathsVisible DEF TypeInv
    <3>3. UNCHANGED <<log, pos, lost>> /\ pc' = "stat"
      BY <2>1, <2>8 DEF Reads, ghost
    <3>4. Holds(f.labels)'
      BY <2>2, <3>2, <3>3, SameHolds
    <3>5. Holds(body)'
      BY <3>1, <3>4 DEF Holds
    <3> QED  BY <2>1, <2>2, <3>3, <3>5, SameHolds DEF Labelled, Delivering
  <2>9. CASE Writes
    <3>1. UNCHANGED <<log, pos, lost, goal, body>> /\ Delivering
      BY <2>1, <2>9 DEF Writes, Delivering, ghost
    <3>2. Holds(body) /\ pc' # "chtimes"
      BY <2>1, <2>9, <3>1 DEF Labelled, Writes
    <3>3. Holds(body)'
      <4>1. Holds(body')
        BY <3>1, <3>2
      <4>2. Changes(pos)' = Changes(pos) /\ Changes(Len(log))' = Changes(Len(log))
        BY <3>1 DEF Changes
      <4> QED  BY <3>1, <4>1, <4>2 DEF Holds
    <3> QED  BY <2>1, <2>2, <3>1, <3>2, <3>3, SameHolds DEF Labelled
  <2>10. CASE Delivered
    <3>1. CASE goal = "heal" /\ Look("reopen") /\ UNCHANGED <<body, ghost>>
      BY <2>3, <3>1 DEF Look, ghost, Delivering
    <3>2. CASE goal \in {"skip", "rewrite"} /\ Done
      <4>1. pc = "chtimes" /\ pc # "idle"
        BY <2>10 DEF Delivered
      <4>2. \A f \in Visible : Holds(f.labels)'
        BY <2>1, <2>2, <3>2, <4>1, FinishHolds DEF Done, TypeInv, Control, Labelled
      <4> QED  BY <2>1, <3>2, <4>2 DEF Labelled, Delivering, Done, Finish
    <3> QED  BY <2>10, <3>1, <3>2 DEF Delivered
  <2> QED  BY <1>1, <2>4, <2>5, <2>6, <2>7, <2>8, <2>9, <2>10 DEF Works
<1>2. CASE RemovesFound /\ Inside
  <2>1. "flag" \notin did /\ log' = log /\ pc # "idle" /\ Visible' \subseteq Visible
    <3>1. cur \in [Flags -> SUBSET File]
      BY Types DEF TypeInv, FilesOK
    <3> QED  BY <1>2, <3>1 DEF RemovesFound, Inside, Visible
  <2>2. \A f \in Visible : Holds(f.labels)
    BY <2>1 DEF Labelled
  <2>3. CASE goal = "rewrite" /\ body' = body \union {pos + 1}
             /\ pc' = "create" /\ UNCHANGED <<goal, pos, ghost>>
    <3>1. log[pos + 1] = "labels" /\ Holds(body)
      BY <2>1, <2>3 DEF Labelled, TypeInv, Control
    <3>2. Holds(body')
      BY <2>1, <2>3, <3>1, NextChange DEF Holds
    <3>3. Holds(body)'
      <4>1. Changes(pos)' = Changes(pos) /\ Changes(Len(log))' = Changes(Len(log))
        BY <2>1, <2>3 DEF Changes
      <4> QED  BY <2>3, <3>2, <4>1 DEF Holds, ghost
    <3> QED  BY <2>1, <2>2, <2>3, <3>3, SameHolds DEF Labelled, ghost
  <2>4. CASE goal = "delete" /\ Done
    <3>1. \A f \in Visible : Holds(f.labels)'
      BY <2>1, <2>2, <2>4, FinishHolds DEF Done, TypeInv, Control
    <3> QED  BY <2>1, <2>4, <3>1 DEF Labelled, Delivering, Done, Finish
  <2> QED  BY <1>2, <2>3, <2>4 DEF RemovesFound
<1>3. CASE Renames /\ Inside
  <2>1. /\ "flag" \notin did /\ UNCHANGED <<log, pos, lost, goal, body>>
        /\ pc = "rename" /\ pc' = "chtimes"
    BY <1>3 DEF Renames, Inside, ghost
  <2>2. Holds(body) /\ (goal = "rewrite" => pos + 1 \in body) /\ Visible = {}
    BY <2>1, PathsVisible DEF Labelled, Delivering, One, TypeInv
  <2>3. \A f \in Visible' : f.labels = body
    BY <1>3, <2>1, <2>2 DEF Renames, Whole, Visible, Fresh
  <2>4. Holds(body)'
    <3>1. Changes(pos)' = Changes(pos) /\ Changes(Len(log))' = Changes(Len(log))
      BY <2>1 DEF Changes
    <3> QED  BY <2>1, <2>2, <3>1 DEF Holds
  <2>5. \A f \in Visible' : Holds(f.labels)'
    BY <2>1, <2>3, <2>4 DEF Holds
  <2> QED  BY <2>1, <2>2, <2>3, <2>4, <2>5 DEF Labelled, Delivering
<1>4. CASE (Save \/ Kill \/ Record \/ UNCHANGED vars) /\ FilesKept
  <2>1. Visible' = Visible /\ "flag" \notin did /\ lost' = lost
    BY <1>4, KeptPaths DEF Save, Kill, Record, vars, ghost
  <2>2. \A f \in Visible : Holds(f.labels)
    BY <2>1 DEF Labelled
  <2>3. CASE Save \/ UNCHANGED vars
    <3>1. UNCHANGED <<log, pos, lost, goal, body, pc>>
      BY <2>3 DEF Save, vars, proc, ghost
    <3>2. Holds(body) => Holds(body)'
      <4>1. Changes(pos)' = Changes(pos) /\ Changes(Len(log))' = Changes(Len(log))
        BY <3>1 DEF Changes
      <4> QED  BY <3>1, <4>1 DEF Holds
    <3> QED  BY <2>1, <2>2, <3>1, <3>2, SameHolds DEF Labelled, Delivering
  <2>4. CASE Kill
    <3>1. log' = log /\ pos' = saved /\ pc' = "idle" /\ goal' = "none" /\ saved <= pos
          /\ saved \in Nat /\ pos \in Nat
      BY <2>4, Counters DEF Kill, TypeInv
    <3>2. Changes(pos)' \subseteq Changes(pos) /\ Changes(Len(log))' = Changes(Len(log))
      BY <3>1 DEF Changes
    <3>3. \A f \in Visible : Holds(f.labels)'
      BY <2>1, <2>2, <3>1, <3>2 DEF Holds
    <3> QED  BY <2>1, <3>1, <3>3 DEF Labelled, Delivering
  <2>5. CASE Record
    <3>1. /\ pos \in Nat /\ pos <= Len(log) /\ Len(log) \in Nat /\ Len(log') = Len(log) + 1
          /\ \A i \in 1 .. Len(log) : log'[i] = log[i]
      BY <2>5, Counters DEF Record, TypeInv
    <3>2. UNCHANGED <<pos, lost, goal, body, pc>>
      BY <2>5 DEF Record, proc, ghost
    <3>3. Changes(pos)' = Changes(pos) /\ Changes(Len(log)) \subseteq Changes(Len(log))'
      BY <3>1, <3>2 DEF Changes
    <3>4. \A K : Holds(K) => Changes(pos)' \subseteq K \union lost'
                           /\ K \subseteq Changes(Len(log))'
      BY <3>2, <3>3 DEF Holds
    <3>5. \A f \in Visible : Holds(f.labels)'
      BY <2>2, <3>4 DEF Holds
    <3>6. Holds(body) => Holds(body)'
      BY <3>2, <3>4 DEF Holds
    <3> QED  BY <2>1, <3>2, <3>5, <3>6 DEF Labelled, Delivering
  <2> QED  BY <1>4, <2>3, <2>4, <2>5
<1>5. CASE Client
  <2>1. /\ "flag" \notin did /\ UNCHANGED <<log, pos, lost, goal, body, pc>>
        /\ Visible' \subseteq Visible
    BY <1>5, ClientSteps DEF proc, ghost
  <2>2. Holds(body) => Holds(body)'
    <3>1. Changes(pos)' = Changes(pos) /\ Changes(Len(log))' = Changes(Len(log))
      BY <2>1 DEF Changes
    <3> QED  BY <2>1, <3>1 DEF Holds
  <2> QED  BY <2>1, <2>2, SameHolds DEF Labelled, Delivering
<1> QED  BY <1>1, <1>2, <1>3, <1>4, <1>5, StepKinds

LEMMA GoneInv == TypeInv /\ One /\ Gone /\ [Next]_vars => Gone'
<1> SUFFICES ASSUME TypeInv, One, Gone, [Next]_vars,
                    "flag" \notin did', ~Live', ~kept', pos' = Len(log')
             PROVE  Paths' = {}
  BY DEF Gone
<1> USE MaildirAssumption
<1>1. /\ pos \in Nat /\ saved \in Nat /\ Len(log) \in Nat /\ saved <= pos /\ pos <= Len(log)
      /\ (pc # "idle" => pos < Len(log))
  BY Counters DEF TypeInv, Control
<1>2. ASSUME log' = log, NEW L, NEW k, Finish(L, k), pc # "idle", "flag" \notin did
      PROVE  goal = "delete"
  <2>1. pos + 1 = Len(log) /\ log[pos + 1] = "delete"
    BY <1>2 DEF Finish, Live
  <2> QED  BY <1>2, <2>1, Types DEF TypeInv, Control, WorkOK, Goals
<1>3. CASE Works /\ FilesKept /\ Inside
  <2>1. Paths' = Paths /\ log' = log /\ "flag" \notin did
    BY <1>3, KeptPaths DEF Inside
  <2>2. CASE pos' = pos
    <3>1. pc = "idle"
      BY <1>1, <2>1, <2>2
    <3>2. kept' = kept
      BY <1>3, <3>1 DEF Works, Looks, Finds, FindsDone, Looking, Missed, Reads, Writes, Delivered, ghost
    <3> QED  BY <2>1, <2>2, <3>2 DEF Gone, Live
  <2>3. CASE pos' # pos
    <3>1. pc # "idle"
      BY <1>3, <2>3 DEF Works, Looks, Finds, FindsDone, Looking, Missed, Reads, Writes, Delivered
    <3>2. \E L, k : Finish(L, k)
      BY <1>3, <2>3
      DEF Works, Looks, Finds, FindsDone, Missed, Miss, Reads, Writes, Delivered,
          Done, Dropped, Call, Look
    <3>3. goal = "delete"
      BY <1>2, <2>1, <3>1, <3>2
    <3>4. Finish({}, Visible # {})
      BY <1>3, <2>3, <3>3
      DEF Works, Looks, Finds, FindsDone, Missed, Miss, Reads, Writes, Delivered
    <3>5. Visible = {}
      BY <3>4 DEF Finish
    <3> QED  BY <2>1, <3>5, PathsVisible DEF TypeInv
  <2> QED  BY <2>2, <2>3
<1>4. CASE RemovesFound /\ Inside
  <2>1. found \in Paths /\ \A p \in Paths : p = found
    <3>1. found \in {"new"} \union Flags
      BY <1>4, Types DEF TypeInv, WorkOK, Control, RemovesFound
    <3> QED  BY <1>4, <3>1 DEF RemovesFound, Paths, One, Inside
  <2>2. new' = {} /\ \A f \in Flags : cur'[f] = {}
    BY <1>4, <2>1, PathsVisible DEF TypeInv, RemovesFound
  <2> QED  BY <2>2 DEF Paths, At
<1>5. CASE Renames /\ Inside
  <2>1. pos' = pos /\ log' = log /\ pc # "idle"
    BY <1>5 DEF Renames, Inside
  <2>2. pos # Len(log)
    BY <1>1, <2>1
  <2> QED  BY <2>1, <2>2
<1>6. CASE (Save \/ Kill \/ Record \/ UNCHANGED vars) /\ FilesKept
  <2>1. Paths' = Paths /\ "flag" \notin did /\ ~kept
    BY <1>6, KeptPaths DEF Save, Kill, Record, vars, ghost
  <2>2. CASE Record
    <3>1. Len(log') = Len(log) + 1 /\ pos' = pos
      BY <2>2, Counters DEF Record, TypeInv, proc
    <3> QED  BY <1>1, <3>1
  <2>3. CASE Save \/ Kill \/ UNCHANGED vars
    <3>1. log' = log /\ pos' \in {pos, saved}
      BY <2>3 DEF Save, Kill, vars, proc
    <3>2. pos = Len(log)
      BY <1>1, <3>1
    <3> QED  BY <2>1, <3>1, <3>2 DEF Gone, Live
  <2> QED  BY <1>6, <2>2, <2>3
<1>7. CASE Client
  <2>1. /\ "flag" \notin did /\ ~kept /\ ~Live /\ pos = Len(log) /\ Visible' \subseteq Visible
    BY <1>7, ClientSteps DEF proc, ghost, Live
  <2>2. Visible' = {}
    BY <2>1, PathsVisible DEF Gone, TypeInv
  <2>3. new' = {} /\ \A f \in Flags : cur'[f] = {}
    BY <2>2 DEF Visible
  <2> QED  BY <2>3 DEF Paths, At
<1> QED  BY <1>3, <1>4, <1>5, <1>6, <1>7, StepKinds

LEMMA AloneInv == TypeInv /\ Whole /\ One /\ Alone /\ [Next]_vars => Alone'
<1> SUFFICES ASSUME TypeInv, Whole, One, Alone, [Next]_vars, did' = {} PROVE Alone'
  BY DEF Alone
<1> USE MaildirAssumption
<1>1. CASE Works /\ FilesKept /\ Inside
  <2>1. /\ Paths' = Paths /\ Visible' = Visible /\ did = {} /\ "flag" \notin did
        /\ lost = {} /\ ~kept /\ cur' = cur
    BY <1>1, KeptPaths DEF Inside, Alone, FilesKept
  <2>2. CASE Looks
    BY <2>1, <2>2 DEF Alone, Looks, Look, Looking, Delivering, ghost
  <2>3. CASE Finds
    BY <2>1, <2>3 DEF Alone, Finds, Looking, Delivering, ghost
  <2>4. CASE FindsDone
    <3>1. goal = "skip" /\ Done
      BY <2>1, <2>4 DEF Alone, FindsDone
    <3> QED  BY <2>1, <3>1 DEF Alone, Done, Finish, Looking, Delivering
  <2>5. CASE Missed /\ Miss
    <3>1. CASE pc \in {"open", "remove"}
      <4>1. found \in Paths
        BY <2>1, <3>1 DEF Alone
      <4> QED  BY <2>5, <3>1, <4>1 DEF Missed, Paths
    <3>2. CASE pc = "lstat"
      <4>1. Paths = {} /\ Visible = {}
        BY <2>1, <2>5, <3>2, MissedAll, PathsVisible DEF TypeInv
      <4>2. goal \notin {"reopen", "rewrite"}
        BY <2>1, <3>2, <4>1 DEF Alone, Delivering
      <4> QED  BY <2>1, <2>5, <4>1, <4>2
               DEF Alone, Miss, Done, Finish, Call, Look, Looking, Delivering, ghost
    <3> QED  BY <2>5, <3>1, <3>2 DEF Missed
  <2>6. CASE Reads
    <3>1. Paths # {}
      BY <2>1, <2>6 DEF Alone, Reads
    <3> QED  BY <2>1, <2>6, <3>1 DEF Alone, Reads, Looking, Delivering, ghost
  <2>7. CASE Writes
    BY <2>1, <2>7 DEF Alone, Writes, Looking, Delivering, ghost
  <2>8. CASE Delivered
    BY <2>1, <2>8 DEF Alone, Delivered, Done, Finish, Look, Looking, Delivering, ghost
  <2> QED  BY <1>1, <2>2, <2>3, <2>4, <2>5, <2>6, <2>7, <2>8 DEF Works
<1>2. CASE RemovesFound /\ Inside
  BY <1>2 DEF Alone, RemovesFound, Inside, Done, Finish, Looking, Delivering, ghost
<1>3. CASE Renames /\ Inside
  <2>1. new' # {}
    BY <1>3 DEF Renames, Whole
  <2>2. Paths' # {}
    BY <2>1 DEF Paths, At
  <2> QED  BY <1>3, <2>2 DEF Alone, Renames, Inside, Looking, Delivering, ghost
<1>4. CASE (Save \/ Kill \/ Record \/ UNCHANGED vars) /\ FilesKept
  <2>1. Paths' = Paths /\ did = {} /\ lost' = lost /\ kept' = kept /\ cur' = cur
    BY <1>4, KeptPaths DEF Save, Kill, Record, vars, ghost, FilesKept
  <2>2. UNCHANGED <<pc, goal, found, listed>> \/ (pc' = "idle" /\ goal' = "none")
    BY <1>4 DEF Save, Kill, Record, vars, proc
  <2> QED  BY <2>1, <2>2 DEF Alone, Looking, Delivering
<1>5. CASE Client
  BY <1>5, ClientSteps
<1> QED  BY <1>1, <1>2, <1>3, <1>4, <1>5, StepKinds

-----------------------------------------------------------------------------
Inv == TypeInv /\ Whole /\ One /\ Due /\ Labelled /\ Gone /\ Alone

LEMMA InitInv == Init => Inv
<1> SUFFICES ASSUME Init PROVE Inv
  OBVIOUS
<1>1. TypeInv
  BY InitType
<1>2. /\ Visible = {} /\ pc = "idle" /\ goal = "none" /\ lost = {} /\ kept = FALSE
      /\ pos = 0 /\ Len(log) = 1
  BY DEF Init, Visible
<1>3. Paths = {}
  BY <1>1, <1>2, PathsVisible DEF TypeInv
<1> QED  BY <1>1, <1>2, <1>3
         DEF Inv, Whole, WholeFiles, One, Due, Labelled, Gone, Alone, Delivering

(* Every step keeps the invariant.                                         *)
LEMMA SpecInv == Spec => []Inv
<1>1. Inv /\ [Next]_vars => Inv'
  BY NextType, WholeInv, OneInv, DueInv, LabelledInv, GoneInv, AloneInv DEF Inv
<1> QED  BY <1>1, InitInv, PTL DEF Spec

-----------------------------------------------------------------------------
(* Every behaviour of Maildir is type correct, whatever a mail client does *)
(* and wherever the process is killed.                                     *)
THEOREM TypeCorrect == Spec => []TypeOK
<1>1. Inv => TypeOK
  BY DEF Inv, TypeInv
<1> QED  BY <1>1, SpecInv, PTL

(* No file in new or cur lacks a part of its bytes (maildir.go:70-94).     *)
THEOREM WholeFilesTheorem == Spec => []WholeFiles
<1>1. Inv => WholeFiles
  BY DEF Inv, Whole
<1> QED  BY <1>1, SpecInv, PTL

(* Without a file being flagged no message is ever delivered beside        *)
(* another file of it (maildir.go:97-114).                                 *)
THEOREM OneFileTheorem == Spec => []OneFile
<1>1. Inv => OneFile
  BY DEF Inv, One, OneFile
<1> QED  BY <1>1, SpecInv, PTL

(* A message that exists has a file when its records are gone through      *)
(* (history_sync.go:301-347).                                              *)
THEOREM HasFileTheorem == Spec => []HasFile
<1>1. Inv => HasFile
  <2> SUFFICES ASSUME Inv, "remove" \notin did, pc = "idle", pos = Len(log), Live
               PROVE  Visible # {}
    BY DEF HasFile
  <2>1. pos \in Nat
    BY Counters DEF Inv, TypeInv
  <2> QED  BY <2>1, PathsVisible DEF Inv, Due, TypeInv
<1> QED  BY <1>1, SpecInv, PTL

(* A file has the label changes of the records gone through but for those  *)
(* passed over, and without a mail client none is (history_sync.go:271).   *)
THEOREM UpToDateTheorem == Spec => []UpToDate
<1>1. Inv => UpToDate
  <2> SUFFICES ASSUME Inv, "flag" \notin did, pc = "idle", pos = Len(log)
               PROVE  /\ \A f \in Visible : f.labels \union lost = Changes(pos) \union lost
                      /\ Visible # {} => Live \/ kept
                      /\ did = {} => lost = {} /\ ~kept
    BY DEF UpToDate
  <2>1. \A f \in Visible : f.labels \union lost = Changes(pos) \union lost
    BY DEF Inv, Labelled, Holds
  <2>2. Visible # {} => Live \/ kept
    BY PathsVisible DEF Inv, Gone, TypeInv
  <2> QED  BY <2>1, <2>2 DEF Inv, Alone
<1> QED  BY <1>1, SpecInv, PTL

-----------------------------------------------------------------------------
(* The tokens of the rate limiter                                          *)

(* As many calls are made, of tokens put before, that n batches have been  *)
(* put since: n periods have gone by, and what the refilling goroutine has *)
(* slept of one more.                                                      *)
Since(i, n) == (i - 1) + (toks + owed) >= (n + 1) * Rate

Spaced ==
    /\ \A i \in DOMAIN recent, n \in 0 .. Periods : Since(i, n) => recent[i] >= n * Period
    /\ owed = 0 => \A i \in DOMAIN recent, n \in 0 .. Periods - 1 :
                      Since(i, n) => recent[i] >= n * Period + (Period - rest)

TokenInv ==
    /\ toks \in 0 .. Rate /\ owed \in 0 .. Rate /\ rest \in 0 .. Period
    /\ recent \in Seq(Ages)
    /\ owed > 0 => rest = 0
    /\ Spaced

(* Products of numbers, which the provers are told of one at a time.       *)
LEMMA Products ==
    ASSUME NEW a \in Nat, NEW b \in Nat, NEW k \in Nat
    PROVE  /\ a * k \in Nat
           /\ (a + 1) * k = a * k + k
           /\ a <= b => a * k <= b * k
<1>1. a * k \in Nat /\ (a + 1) * k = a * k + k  OBVIOUS
<1>2. ASSUME a <= b PROVE a * k <= b * k
  <2>1. PICK d \in Nat : b = a + d  BY <1>2
  <2>2. b * k = a * k + d * k  BY <2>1
  <2>3. d * k \in Nat  OBVIOUS
  <2> QED  BY <1>1, <2>2, <2>3
<1> QED  BY <1>1, <1>2

(* What the assumption says of the constants together.                     *)
LEMMA LimitConstants ==
  /\ Period \in Nat \ {0} /\ Rate \in Nat \ {0} /\ Periods \in Nat \ {0}
  /\ Periods * Period \in Nat /\ Memory \in Nat \ {0}
<1>1. Period \in Nat \ {0} /\ Rate \in Nat \ {0} /\ Periods \in Nat \ {0}
  BY RateLimitAssumption
<1>2. Periods * Period \in Nat /\ (Periods + 1) * Rate \in Nat  BY <1>1, Products
<1> QED  BY <1>1, <1>2 DEF Memory

(* Nothing has been called yet.                                            *)
LEMMA TokenInit == LimitInit => TokenInv
  BY LimitConstants DEF LimitInit, TokenInv, Spaced, Ages

(* A token put leaves fewer to be put: no count changes.  After the last   *)
(* one of a batch the sleep begins.                                        *)
LEMMA PutSpaced == ASSUME TokenInv, Put PROVE TokenInv'
<1>1. /\ toks' \in 0 .. Rate /\ owed' \in 0 .. Rate /\ rest' \in 0 .. Period
      /\ owed' > 0 => rest' = 0
      /\ recent' = recent /\ toks' + owed' = toks + owed
      /\ owed' = 0 => rest' = Period
  BY LimitConstants DEF TokenInv, Put, callers
<1>2. \A i \in DOMAIN recent, n \in 0 .. Periods : Since(i, n)' <=> Since(i, n)
  <2> TAKE i \in DOMAIN recent, n \in 0 .. Periods
  <2>1. i \in Nat /\ toks \in Nat /\ owed \in Nat /\ toks' \in Nat /\ owed' \in Nat
    BY <1>1, LimitConstants DEF TokenInv
  <2>2. (n + 1) * Rate \in Nat  BY Products, LimitConstants
  <2>3. toks' + owed' = toks + owed  BY <1>1
  <2> QED  BY <2>3 DEF Since
<1>3. Spaced'
  <2>1. \A i \in DOMAIN recent, n \in 0 .. Periods : recent[i] \in Nat /\ n * Period \in Nat
    BY LimitConstants, Products DEF TokenInv, Ages
  <2>2. \A i \in DOMAIN recent, n \in 0 .. Periods : Since(i, n)' => recent[i] >= n * Period
    BY <1>2 DEF TokenInv, Spaced
  <2>3. \A i \in DOMAIN recent, n \in 0 .. Periods - 1 : owed' = 0 =>
           (Since(i, n)' => recent[i] >= n * Period + (Period - rest'))
    BY <1>1, <2>1, <2>2, LimitConstants
  <2> QED  BY <1>1, <2>2, <2>3 DEF Spaced
<1> QED  BY <1>1, <1>3 DEF TokenInv

(* With a new batch to be put, one period more has gone by.                *)
LEMMA WakeSpaced == ASSUME TokenInv, Wake PROVE TokenInv'
<1>1. /\ toks' = toks /\ toks \in Nat /\ owed = 0 /\ owed' = Rate /\ rest = 0 /\ rest' = 0
      /\ recent' = recent
  BY LimitConstants DEF TokenInv, Wake, callers
<1>2. \A i \in DOMAIN recent, n \in 0 .. Periods : Since(i, n)' => recent[i] >= n * Period
  <2> TAKE i \in DOMAIN recent, n \in 0 .. Periods
  <2> HAVE Since(i, n)'
  <2>0. i \in Nat /\ recent[i] \in Nat  BY LimitConstants DEF TokenInv, Ages
  <2>1. CASE n = 0
    BY <2>0, <2>1, LimitConstants
  <2>2. CASE n # 0
    <3> DEFINE k == n - 1
    <3>1. k \in 0 .. Periods - 1 /\ k \in Nat /\ n = k + 1  BY <2>2, LimitConstants
    <3>2. (n + 1) * Rate = n * Rate + Rate /\ n * Rate \in Nat  BY Products, LimitConstants
    <3>3. (i - 1) + (toks + owed) >= (k + 1) * Rate
      BY <1>1, <2>0, <3>1, <3>2, LimitConstants DEF Since
    <3>4. Since(i, k)  BY <3>3 DEF Since
    <3>5. recent[i] >= k * Period + (Period - rest)
      BY <1>1, <3>1, <3>4 DEF TokenInv, Spaced
    <3>6. n * Period = k * Period + Period /\ k * Period \in Nat
      BY <3>1, Products, LimitConstants
    <3> QED  BY <1>1, <2>0, <3>5, <3>6, LimitConstants
  <2> QED  BY <2>1, <2>2
<1> QED  BY <1>1, <1>2, LimitConstants DEF TokenInv, Spaced

(* The calls grow older while the goroutine sleeps.                        *)
LEMMA TickSpaced == ASSUME TokenInv, Tick PROVE TokenInv'
<1>1. /\ toks' = toks /\ owed' = owed /\ rest' = (IF rest > 0 THEN rest - 1 ELSE 0)
      /\ rest \in 0 .. Period /\ rest' \in 0 .. Period /\ toks \in Nat /\ owed \in Nat
      /\ recent' = [i \in DOMAIN recent |-> Older(recent[i])]
  BY LimitConstants DEF TokenInv, Tick, Less
<1>2. \A a \in Ages : /\ Older(a) \in Ages /\ Older(a) >= a
                      /\ Older(a) > a \/ Older(a) = Periods * Period
  BY LimitConstants DEF Ages, Older
<1>3. recent' \in Seq(Ages) /\ DOMAIN recent' = DOMAIN recent
  BY <1>1, <1>2 DEF TokenInv
<1>4. \A i \in DOMAIN recent : /\ i \in Nat /\ recent[i] \in Ages /\ recent[i] \in Nat
                               /\ recent'[i] = Older(recent[i]) /\ recent'[i] \in Nat
  <2> TAKE i \in DOMAIN recent
  <2>1. i \in Nat /\ recent[i] \in Ages  BY DEF TokenInv
  <2>2. recent'[i] = Older(recent[i])  BY <1>1
  <2>3. \A a \in Ages : a \in Nat  BY LimitConstants DEF Ages
  <2> QED  BY <1>2, <2>1, <2>2, <2>3
<1>5. \A i \in DOMAIN recent, n \in 0 .. Periods : /\ Since(i, n)' <=> Since(i, n)
                                                 /\ n * Period \in Nat
  BY <1>1, Products, LimitConstants DEF Since
<1>6. \A i \in DOMAIN recent, n \in 0 .. Periods : Since(i, n)' => recent'[i] >= n * Period
  <2> TAKE i \in DOMAIN recent, n \in 0 .. Periods
  <2> HAVE Since(i, n)'
  <2>1. recent[i] >= n * Period  BY <1>5 DEF TokenInv, Spaced
  <2> QED  BY <1>2, <1>4, <1>5, <2>1
<1>7. ASSUME owed' = 0, NEW i \in DOMAIN recent, NEW n \in 0 .. Periods - 1, Since(i, n)'
      PROVE  recent'[i] >= n * Period + (Period - rest')
  <2>1. n \in 0 .. Periods /\ n \in Nat /\ n + 1 <= Periods  BY LimitConstants
  <2>2. recent[i] >= n * Period + (Period - rest)
    BY <1>1, <1>5, <1>7, <2>1 DEF TokenInv, Spaced
  <2>3. Periods * Period >= n * Period + Period
    BY <2>1, Products, LimitConstants
  <2>4. n * Period \in Nat /\ Periods * Period \in Nat  BY <2>1, Products, LimitConstants
  <2>5. CASE recent'[i] > recent[i]
    BY <1>1, <1>4, <2>2, <2>4, <2>5, LimitConstants
  <2>6. CASE recent'[i] = Periods * Period
    BY <1>1, <2>3, <2>4, <2>6, LimitConstants
  <2> QED  BY <1>2, <1>4, <2>5, <2>6
<1> QED  BY <1>1, <1>3, <1>6, <1>7 DEF TokenInv, Spaced

(* One call more.                                                          *)
Called == <<0>> \o recent

(* Behind the newest call are those that were remembered before it.        *)
LEMMA Remembering ==
    ASSUME recent \in Seq(Ages), NEW s, s = Remembered(Called)
    PROVE  /\ s \in Seq(Ages)
           /\ \A i \in DOMAIN s : /\ i \in Nat \ {0}
                                  /\ i = 1 => s[i] = 0
                                  /\ i > 1 => i - 1 \in DOMAIN recent /\ s[i] = recent[i - 1]
<1> DEFINE q == Called
           m == IF Len(q) < Memory THEN Len(q) ELSE Memory
<1>1. 0 \in Ages  BY LimitConstants DEF Ages
<1>2. /\ q \in Seq(Ages) /\ Len(q) = Len(recent) + 1 /\ Len(recent) \in Nat
      /\ \A i \in 1 .. Len(q) : q[i] = IF i = 1 THEN 0 ELSE recent[i - 1]
  BY <1>1 DEF Called
<1>3. m \in 1 .. Len(q) /\ s = SubSeq(q, 1, m)  BY <1>2, LimitConstants DEF Remembered
<1>4. s \in Seq(Ages) /\ Len(s) = m /\ \A i \in 1 .. m : s[i] = q[i]
  <2> HIDE DEF q, m
  <2> QED  BY <1>2, <1>3
<1>5. \A i \in DOMAIN s : i \in 1 .. m  BY <1>4
<1>6. ASSUME NEW i \in DOMAIN s
      PROVE  /\ i \in Nat \ {0}
             /\ i = 1 => s[i] = 0
             /\ i > 1 => i - 1 \in DOMAIN recent /\ s[i] = recent[i - 1]
  <2>1. i \in 1 .. m /\ i \in 1 .. Len(q) /\ s[i] = q[i]  BY <1>2, <1>3, <1>4, <1>5
  <2> HIDE DEF q, m
  <2> QED  BY <1>2, <2>1
<1> QED  BY <1>4, <1>6

(* A token taken is a call more; the channel is then not full.             *)
LEMMA GetSpaced == ASSUME TokenInv, NEW c \in Callers, Get(c) PROVE TokenInv'
<1>1. /\ toks > 0 /\ toks' = toks - 1 /\ owed' = owed /\ rest' = rest
      /\ toks \in 0 .. Rate /\ owed \in 0 .. Rate /\ rest \in 0 .. Period
      /\ toks' \in 0 .. Rate
      /\ recent \in Seq(Ages) /\ recent' = Remembered(Called)
  BY LimitConstants DEF TokenInv, Get, Called
<1>2. /\ recent' \in Seq(Ages)
      /\ \A i \in DOMAIN recent' : /\ i \in Nat \ {0}
                                   /\ i = 1 => recent'[i] = 0
                                   /\ i > 1 => i - 1 \in DOMAIN recent /\ recent'[i] = recent[i - 1]
  BY <1>1, Remembering
<1>3. ASSUME NEW i \in DOMAIN recent', NEW n \in 0 .. Periods, Since(i, n)'
      PROVE  \/ i = 1 /\ n = 0 /\ owed # 0
             \/ /\ i - 1 \in DOMAIN recent /\ recent'[i] = recent[i - 1]
                /\ Since(i - 1, n)
  <2>1. (n + 1) * Rate = n * Rate + Rate /\ n * Rate \in Nat  BY Products, LimitConstants
  <2>2. (i - 1) + ((toks - 1) + owed) >= (n + 1) * Rate  BY <1>1, <1>3 DEF Since
  <2>3. CASE i = 1
    <3>1. owed - 1 >= n * Rate  BY <1>1, <2>1, <2>2, <2>3, LimitConstants
    <3>2. n # 0 => n * Rate >= Rate
      <4>1. n # 0 => 1 * Rate <= n * Rate  BY Products, LimitConstants
      <4> QED  BY <4>1, LimitConstants
    <3> QED  BY <1>1, <2>1, <2>3, <3>1, <3>2, LimitConstants
  <2>4. CASE i # 1
    <3>1. i > 1 /\ i \in Nat  BY <1>2, <2>4
    <3>2. ((i - 1) - 1) + (toks + owed) >= (n + 1) * Rate  BY <1>1, <2>1, <2>2, <3>1, LimitConstants
    <3> QED  BY <1>2, <3>1, <3>2 DEF Since
  <2> QED  BY <2>3, <2>4
<1>4. \A i \in DOMAIN recent', n \in 0 .. Periods : Since(i, n)' => recent'[i] >= n * Period
  BY <1>2, <1>3, LimitConstants DEF TokenInv, Spaced
<1>5. owed = 0 => \A i \in DOMAIN recent', n \in 0 .. Periods - 1 :
                     Since(i, n)' => recent'[i] >= n * Period + (Period - rest)
  BY <1>3, LimitConstants DEF TokenInv, Spaced
<1> QED  BY <1>1, <1>2, <1>4, <1>5 DEF TokenInv, Spaced

(* Every step keeps the token invariant.                                   *)
LEMMA TokenInvariant == LimitSpec => []TokenInv
<1>1. TokenInv /\ [LimitNext]_limitVars => TokenInv'
  <2> SUFFICES ASSUME TokenInv, [LimitNext]_limitVars PROVE TokenInv'  OBVIOUS
  <2>1. CASE UNCHANGED <<refill, recent>>
    BY <2>1 DEF TokenInv, Spaced, Since, refill
  <2>2. ASSUME NEW c \in Callers, DoWithBackoff(c) PROVE TokenInv'
    BY <2>1, <2>2, GetSpaced DEF DoWithBackoff, BeginCall, Attempt, Again
  <2> QED  BY <2>1, <2>2, PutSpaced, WakeSpaced, TickSpaced DEF LimitNext, limitVars
<1> QED  BY <1>1, TokenInit, PTL DEF LimitSpec

(* In any n periods at most (n + 1) * Rate calls are made, whatever the    *)
(* number of callers, however long a batch is held up by the full channel  *)
(* and however late a sleeper wakes (ratelimit.go:19-35).                  *)
THEOREM BurstBoundTheorem == LimitSpec => []BurstBound
<1>1. TokenInv => BurstBound
  <2> SUFFICES ASSUME TokenInv, NEW n \in 1 .. Periods, NEW i \in DOMAIN recent,
                      i > (n + 1) * Rate
               PROVE  recent[i] >= n * Period
    BY DEF BurstBound
  <2>1. (n + 1) * Rate \in Nat /\ i \in Nat /\ toks \in Nat /\ owed \in Nat
    BY Products, LimitConstants DEF TokenInv
  <2>2. Since(i, n)  BY <2>1 DEF Since
  <2> QED  BY <2>2, LimitConstants DEF TokenInv, Spaced
<1> QED  BY <1>1, TokenInvariant, PTL

-----------------------------------------------------------------------------
(* The sleeps of a call                                                    *)

(* Powers of two grow: they count sets of subsets.                         *)
LEMMA Powers ==
    ASSUME NEW i \in Nat
    PROVE  2 ^ i \in Nat \ {0} /\ \A j \in Nat : i <= j => 2 ^ i <= 2 ^ j
<1>1. ASSUME NEW j \in Nat
      PROVE  /\ IsFiniteSet(SUBSET (1 .. j)) /\ Cardinality(SUBSET (1 .. j)) = 2 ^ j
             /\ Cardinality(SUBSET (1 .. j)) \in Nat
  <2>1. IsFiniteSet(1 .. j) /\ Cardinality(1 .. j) = j
    BY FS_Interval
  <2> QED  BY <2>1, FS_SUBSET, FS_CardinalityType
<1>2. 2 ^ i # 0
  <2>1. {} \in SUBSET (1 .. i)  OBVIOUS
  <2> QED  BY <1>1, <2>1, FS_EmptySet
<1>3. ASSUME NEW j \in Nat, i <= j PROVE 2 ^ i <= 2 ^ j
  <2>1. SUBSET (1 .. i) \in SUBSET (SUBSET (1 .. j))  BY <1>3
  <2>2. Cardinality(SUBSET (1 .. i)) <= Cardinality(SUBSET (1 .. j))
    BY <1>1, <2>1, FS_Subset
  <2> QED  BY <1>1, <2>2
<1> QED  BY <1>1, <1>2, <1>3

(* What fits in a word is not changed.                                     *)
LEMMA Wraps ==
    ASSUME NEW x \in Int
    PROVE  Wrap(x) \in Int /\ (0 <= x /\ x < HalfWord => Wrap(x) = x)
<1>1. HalfWord \in Nat \ {0}  BY RateLimitAssumption
<1>2. 2 * HalfWord \in Nat \ {0} /\ x + HalfWord \in Int  BY <1>1
<1>3. (x + HalfWord) % (2 * HalfWord) \in Int  BY <1>2
<1>4. ASSUME 0 <= x, x < HalfWord PROVE (x + HalfWord) % (2 * HalfWord) = x + HalfWord
  BY <1>1, <1>4
<1> QED  BY <1>1, <1>3, <1>4 DEF Wrap

(* The sleeps are positive and shorter than a word.                        *)
SleepsFit == BackoffMax > 0 /\ BackoffStart * 2 ^ (BackoffLimit - 1) < HalfWord

Sleep(i) == BackoffDuration(BackoffStart, i, BackoffMax)

(* A sleep is an integer, whether it fits or not.                          *)
LEMMA SleepType == ASSUME NEW i \in Nat PROVE Sleep(i) \in Int
<1>1. Wrap(2 ^ i) \in Int /\ BackoffStart \in Nat /\ BackoffMax \in Nat
  BY Powers, Wraps, RateLimitAssumption
<1>2. Wrap(BackoffStart * Wrap(2 ^ i)) \in Int  BY <1>1, Wraps
<1> QED  BY <1>1, <1>2 DEF Sleep, BackoffDuration

(* A sleep that fits is the product, up to BackoffMax.                     *)
LEMMA SleepIs ==
    ASSUME SleepsFit, NEW i \in Nat, i < BackoffLimit
    PROVE  /\ BackoffStart * 2 ^ i \in Nat
           /\ Sleep(i) = IF BackoffStart * 2 ^ i > BackoffMax THEN BackoffMax
                         ELSE BackoffStart * 2 ^ i
<1>1. /\ BackoffStart \in Nat \ {0} /\ BackoffLimit - 1 \in Nat /\ i <= BackoffLimit - 1
      /\ HalfWord \in Nat /\ BackoffMax \in Nat /\ BackoffMax > 0
  BY RateLimitAssumption DEF SleepsFit
<1> DEFINE p == 2 ^ i
           q == 2 ^ (BackoffLimit - 1)
<1>2. p \in Nat \ {0} /\ q \in Nat /\ p <= q  BY <1>1, Powers
<1>3. BackoffStart * q < HalfWord  BY DEF SleepsFit
<1> HIDE DEF p, q
<1>4. /\ p * BackoffStart \in Nat /\ p * BackoffStart <= q * BackoffStart
      /\ 1 * p <= BackoffStart * p
  BY <1>1, <1>2, Products
<1>5. BackoffStart * p \in Nat /\ BackoffStart * p < HalfWord /\ p < HalfWord
  BY <1>1, <1>2, <1>3, <1>4
<1>6. Wrap(p) = p /\ Wrap(BackoffStart * p) = BackoffStart * p  BY <1>2, <1>5, Wraps
<1> QED  BY <1>1, <1>5, <1>6 DEF p, Sleep, BackoffDuration

(* A sleep that fits is at least the one before it.                        *)
LEMMA SleepGrows ==
    ASSUME SleepsFit, NEW i \in Nat, i < BackoffLimit
    PROVE  /\ Sleep(i) \in Nat /\ Sleep(i) <= BackoffMax
           /\ i > 0 => Sleep(i - 1) <= Sleep(i)
<1>1. BackoffStart \in Nat /\ BackoffLimit \in Nat /\ BackoffMax \in Nat
  BY RateLimitAssumption
<1>2. ASSUME i > 0 PROVE Sleep(i - 1) <= Sleep(i)
  <2>1. i - 1 \in Nat /\ i - 1 < BackoffLimit /\ i - 1 <= i  BY <1>1, <1>2
  <2> DEFINE p == 2 ^ (i - 1)
             q == 2 ^ i
  <2>2. p \in Nat /\ q \in Nat /\ p <= q  BY <2>1, Powers
  <2>3. /\ Sleep(i - 1) = IF BackoffStart * p > BackoffMax THEN BackoffMax ELSE BackoffStart * p
        /\ Sleep(i) = IF BackoffStart * q > BackoffMax THEN BackoffMax ELSE BackoffStart * q
    BY <2>1, SleepIs
  <2> HIDE DEF p, q
  <2>4. p * BackoffStart <= q * BackoffStart /\ BackoffStart * p \in Nat /\ BackoffStart * q \in Nat
    BY <1>1, <2>2, Products
  <2>5. BackoffStart * p <= BackoffStart * q  BY <1>1, <2>2, <2>4
  <2> QED  BY <1>1, <2>3, <2>4, <2>5
<1> QED  BY <1>1, <1>2, SleepIs

(* What each caller has slept, by its attempts.                            *)
CallerInv ==
    /\ at \in [Callers -> {"idle", "get", "call", "sleep"}]
    /\ attempt \in [Callers -> 0 .. BackoffLimit]
    /\ wait \in [Callers -> Nat] /\ slept \in [Callers -> Int \X Int]
    /\ \A c \in Callers :
          /\ at[c] = "idle" => attempt[c] = 0
          /\ at[c] \in {"get", "call"} => attempt[c] < BackoffLimit
          /\ attempt[c] = 0 => slept[c] = <<0, 0>>
          /\ attempt[c] > 0 => slept[c][2] = Sleep(attempt[c] - 1)
          /\ attempt[c] > 1 => slept[c][1] = Sleep(attempt[c] - 2)
          /\ attempt[c] = 1 => slept[c][1] = 0

(* Nobody has called yet.                                                  *)
LEMMA CallerInit == LimitInit => CallerInv
  BY RateLimitAssumption DEF LimitInit, CallerInv

(* A call that returns forgets its attempts.                               *)
LEMMA CallReturns ==
    ASSUME CallerInv, NEW c \in Callers, Return(c) PROVE CallerInv'
<1>1. BackoffLimit \in Nat \ {0}  BY RateLimitAssumption
<1>2. /\ at' \in [Callers -> {"idle", "get", "call", "sleep"}]
      /\ attempt' \in [Callers -> 0 .. BackoffLimit]
      /\ wait' \in [Callers -> Nat] /\ slept' \in [Callers -> Int \X Int]
      /\ at'[c] = "idle" /\ attempt'[c] = 0 /\ slept'[c] = <<0, 0>>
      /\ \A d \in Callers \ {c} : at'[d] = at[d] /\ attempt'[d] = attempt[d] /\ slept'[d] = slept[d]
  BY <1>1 DEF CallerInv, Return, Goto
<1> QED  BY <1>1, <1>2 DEF CallerInv, Sleep

(* A refused attempt is one more, with its sleep.                          *)
LEMMA CallRefused ==
    ASSUME CallerInv, NEW c \in Callers, at[c] = "call", Refused(c) PROVE CallerInv'
<1> DEFINE n == attempt[c]
           d == Sleep(n)
<1>1. n \in Nat /\ n < BackoffLimit /\ BackoffLimit \in Nat
  BY RateLimitAssumption DEF CallerInv
<1>2. d \in Int  BY <1>1, SleepType
<1>3. slept[c] \in Int \X Int  BY DEF CallerInv
<1>4. /\ at' = [at EXCEPT ![c] = "sleep"]
      /\ attempt' = [attempt EXCEPT ![c] = n + 1]
      /\ wait' = [wait EXCEPT ![c] = IF d > 0 THEN d ELSE 0]
      /\ slept' = [slept EXCEPT ![c] = <<slept[c][2], d>>]
  BY DEF CallerInv, Refused, Goto, Sleep
<1> HIDE DEF d
<1>5. /\ at' \in [Callers -> {"idle", "get", "call", "sleep"}]
      /\ attempt' \in [Callers -> 0 .. BackoffLimit]
      /\ wait' \in [Callers -> Nat] /\ slept' \in [Callers -> Int \X Int]
  BY <1>1, <1>2, <1>3, <1>4 DEF CallerInv
<1>6. /\ at'[c] = "sleep" /\ attempt'[c] = n + 1 /\ slept'[c][1] = slept[c][2] /\ slept'[c][2] = d
      /\ \A e \in Callers \ {c} : at'[e] = at[e] /\ attempt'[e] = attempt[e] /\ slept'[e] = slept[e]
  BY <1>3, <1>4 DEF CallerInv
<1>7. slept[c][2] = IF n = 0 THEN 0 ELSE Sleep(n - 1)
  BY <1>1 DEF CallerInv
<1>8. /\ attempt'[c] > 0 => slept'[c][2] = Sleep(attempt'[c] - 1)
      /\ attempt'[c] > 1 => slept'[c][1] = Sleep(attempt'[c] - 2)
      /\ attempt'[c] = 1 => slept'[c][1] = 0
      /\ attempt'[c] # 0
  <2>1. n + 1 - 1 = n /\ n + 1 - 2 = n - 1  BY <1>1
  <2> QED  BY <1>1, <1>6, <1>7, <2>1 DEF d
<1>9. \A e \in Callers :
          /\ at'[e] = "idle" => attempt'[e] = 0
          /\ at'[e] \in {"get", "call"} => attempt'[e] < BackoffLimit
          /\ attempt'[e] = 0 => slept'[e] = <<0, 0>>
          /\ attempt'[e] > 0 => slept'[e][2] = Sleep(attempt'[e] - 1)
          /\ attempt'[e] > 1 => slept'[e][1] = Sleep(attempt'[e] - 2)
          /\ attempt'[e] = 1 => slept'[e][1] = 0
  BY <1>6, <1>8 DEF CallerInv
<1> QED  BY <1>5, <1>9 DEF CallerInv, Sleep

(* A call begins, takes its token, or is tried again.                      *)
LEMMA CallGoesOn ==
    ASSUME CallerInv, NEW c \in Callers, NEW p \in {"get", "call"}, Goto(c, p),
           attempt[c] < BackoffLimit, UNCHANGED <<attempt, wait, slept>>
    PROVE  CallerInv'
<1>1. /\ at' \in [Callers -> {"idle", "get", "call", "sleep"}] /\ at'[c] = p
      /\ \A e \in Callers \ {c} : at'[e] = at[e]
  BY DEF CallerInv, Goto
<1> QED  BY <1>1 DEF CallerInv, Sleep

(* Time does not touch attempts.                                           *)
LEMMA TickCallers == ASSUME CallerInv, Tick PROVE CallerInv'
<1>1. wait' \in [Callers -> Nat]  BY DEF CallerInv, Tick, Less
<1> QED  BY <1>1 DEF CallerInv, Tick, Sleep

(* Every step keeps what is known of the callers.                          *)
LEMMA CallerInvariant == LimitSpec => []CallerInv
<1>1. CallerInv /\ [LimitNext]_limitVars => CallerInv'
  <2> SUFFICES ASSUME CallerInv, [LimitNext]_limitVars PROVE CallerInv'  OBVIOUS
  <2>0. BackoffLimit \in Nat \ {0}  BY RateLimitAssumption
  <2>1. CASE UNCHANGED callers
    BY <2>1 DEF CallerInv, callers, Sleep
  <2>2. ASSUME NEW c \in Callers, BeginCall(c) PROVE CallerInv'
    BY <2>0, <2>2, CallGoesOn DEF BeginCall, CallerInv
  <2>3. ASSUME NEW c \in Callers, Get(c) PROVE CallerInv'
    BY <2>3, CallGoesOn DEF Get, CallerInv
  <2>4. ASSUME NEW c \in Callers, Attempt(c) PROVE CallerInv'
    BY <2>4, CallRefused, CallReturns DEF Attempt
  <2>5. ASSUME NEW c \in Callers, Again(c) PROVE CallerInv'
    BY <2>5, CallGoesOn, CallReturns DEF Again
  <2> QED
    BY <2>1, <2>2, <2>3, <2>4, <2>5, TickCallers
    DEF LimitNext, DoWithBackoff, Put, Wake, limitVars
<1> QED  BY <1>1, CallerInit, PTL DEF LimitSpec

(* If the sleep before the last attempt fits in a word and there is a      *)
(* maximum, no caller ever sleeps for less than before, nor beyond the     *)
(* maximum, whatever Gmail answers (ratelimit.go:51-73).                   *)
THEOREM BackoffGrowsTheorem == SleepsFit => (LimitSpec => []BackoffGrows)
<1> SUFFICES ASSUME SleepsFit PROVE LimitSpec => []BackoffGrows  OBVIOUS
<1>1. ASSUME CallerInv PROVE BackoffGrows
  <2> SUFFICES ASSUME NEW c \in Callers
               PROVE  slept[c][1] <= slept[c][2] /\ slept[c][2] <= BackoffMax
    BY DEF BackoffGrows
  <2>1. attempt[c] \in 0 .. BackoffLimit /\ BackoffLimit \in Nat /\ BackoffMax \in Nat
    BY <1>1, RateLimitAssumption DEF CallerInv
  <2>2. CASE attempt[c] = 0  BY <1>1, <2>1, <2>2 DEF CallerInv
  <2>3. CASE attempt[c] > 0
    <3> DEFINE i == attempt[c] - 1
    <3>1. i \in Nat /\ i < BackoffLimit  BY <2>1, <2>3
    <3>2. /\ Sleep(i) \in Nat /\ Sleep(i) <= BackoffMax
          /\ i > 0 => Sleep(i - 1) <= Sleep(i)
      BY <1>1, <3>1, SleepGrows
    <3>3. slept[c][2] = Sleep(i)  BY <1>1, <2>3 DEF CallerInv
    <3>4. slept[c][1] = IF i = 0 THEN 0 ELSE Sleep(i - 1)
      <4>1. attempt[c] = 1 <=> i = 0  BY <2>1
      <4>2. attempt[c] - 2 = i - 1 /\ (i # 0 => attempt[c] > 1)  BY <2>1, <2>3
      <4> QED  BY <1>1, <4>1, <4>2 DEF CallerInv
    <3> HIDE DEF i
    <3> QED  BY <2>1, <3>1, <3>2, <3>3, <3>4
  <2> QED  BY <2>1, <2>2, <2>3
<1> QED  BY <1>1, CallerInvariant, PTL

(* The variables of the limiter stay in their ranges; in particular the    *)
(* channel never holds more than a batch.                                  *)
THEOREM LimitTypeCorrect == LimitSpec => []LimitTypeOK
<1>1. TokenInv /\ CallerInv => LimitTypeOK
  BY DEF TokenInv, CallerInv, LimitTypeOK
<1> QED  BY <1>1, TokenInvariant, CallerInvariant, PTL
=============================================================================
