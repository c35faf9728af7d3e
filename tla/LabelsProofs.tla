---------------------------- MODULE LabelsProofs ----------------------------
(***************************************************************************)
(* Theorems about Labels, for all values of its constants.                 *)
(***************************************************************************)
EXTENDS Labels, TLAPS

Asks == {"lookup", "lock", "again", "refresh"}
Ops == {"download", "add", "remove"}

(* One label change at a time: in the History stage one worker is busy,    *)
(* with a record or with the download of its message; in the other stages  *)
(* messages are only downloaded.                                           *)
Serial ==
    \A w \in Workers : call[w] # NoCall =>
        /\ stage # "idle"
        /\ stage # "history" => call[w].op = "download"
        /\ stage = "history" => pos < Len(log) /\ \A v \in Workers \ {w} : call[v] = NoCall

(* The dictionary is refreshed once, and no label is written as an id      *)
(* before.                                                                 *)
RefreshOnce ==
    /\ raw # {} => refreshed
    /\ \A w \in Workers : At(w, "refresh") => ~refreshed

Inv == TypeOK /\ Serial /\ LockHeld /\ RefreshOnce /\ RawToTheEnd

-----------------------------------------------------------------------------
(* What a call is, by where it stands.                                     *)
LEMMA CallTypes ==
    ASSUME TypeOK, NEW w \in Workers
    PROVE  /\ call[w].pc \in Asks =>
                call[w].msg \in Msgs /\ call[w].op \in Ops /\ call[w].ids \subseteq Ids
           /\ call[w].pc = "write" =>
                /\ call[w].msg \in Msgs /\ call[w].op \in Ops
                /\ call[w].names \subseteq SUBSET UNION Names
           /\ call[w].pc # "idle" => call[w] # NoCall
<1>1. call[w] \in Calls
  BY DEF TypeOK
<1> QED  BY <1>1 DEF Calls, NoCall, Asks, Ops

(* A name found in a dictionary, or the id itself, is a set of parts.      *)
LEMMA ResolveType ==
    ASSUME NEW d \in [Ids -> NamePool \union {{}}], NEW i \in Ids
    PROVE  Resolve(d, i) \in SUBSET UNION Names
<1>1. Resolve(d, i) \in Names
  BY DEF Resolve, Names
<1> QED  BY <1>1

(* A resolved call stays well formed, and the other calls are the same.    *)
LEMMA ResolvedCall ==
    ASSUME TypeOK, NEW w \in Workers, call[w].pc \in Asks,
           NEW d \in [Ids -> NamePool \union {{}}], Resolved(w, d)
    PROVE  /\ call' \in [Workers -> Calls]
           /\ call'[w].pc = "write" /\ call'[w].op = call[w].op
           /\ \A v \in Workers \ {w} : call'[v] = call[v]
           /\ raw' = raw \union Unknown(d, call[w].ids) /\ raw' \subseteq Ids
<1>1. PICK c : c = [pc |-> "write", msg |-> call[w].msg, op |-> call[w].op,
                    names |-> {Resolve(d, i) : i \in call[w].ids}]
  OBVIOUS
<1>2. {Resolve(d, i) : i \in call[w].ids} \subseteq SUBSET UNION Names
  BY CallTypes, ResolveType
<1>3. c \in Calls
  BY <1>1, <1>2, CallTypes DEF Calls, Ops
<1>4. call' = [call EXCEPT ![w] = c]
  BY <1>1 DEF Resolved
<1>5. call \in [Workers -> Calls] /\ raw \subseteq Ids
  BY DEF TypeOK
<1>6. raw' = raw \union Unknown(d, call[w].ids) /\ raw' \subseteq Ids
  BY <1>5, CallTypes DEF Resolved, Unknown
<1> QED  BY <1>1, <1>3, <1>4, <1>5, <1>6

(* So does a call that goes from one lookup to the next.                   *)
LEMMA GotoCall ==
    ASSUME TypeOK, NEW w \in Workers, call[w].pc \in Asks, NEW p \in Asks, Goto(w, p)
    PROVE  /\ call' \in [Workers -> Calls]
           /\ call'[w].pc = p /\ call'[w].op = call[w].op /\ call'[w].ids = call[w].ids
           /\ \A v \in Workers \ {w} : call'[v] = call[v]
<1>1. PICK c : c = [call[w] EXCEPT !.pc = p]
  OBVIOUS
<1>2. call[w] \in Calls
  BY DEF TypeOK
<1>3. c \in Calls /\ c.pc = p /\ c.op = call[w].op /\ c.ids = call[w].ids
  BY <1>1, <1>2 DEF Calls, NoCall, Asks
<1>4. call' = [call EXCEPT ![w] = c]
  BY <1>1 DEF Goto
<1> QED  BY <1>3, <1>4 DEF TypeOK

-----------------------------------------------------------------------------
LEMMA InitInv == Init => Inv
<1> SUFFICES ASSUME Init PROVE Inv
  OBVIOUS
<1> USE LabelsAssumption
<1>1. TypeOK
  <2>1. /\ named \in [Ids -> NamePool \union {{}}] /\ ever \in [Ids -> SUBSET NamePool]
        /\ tagged \in [Msgs -> SUBSET Ids] /\ dict \in [Ids -> NamePool \union {{}}]
    BY DEF Init
  <2>2. /\ log = <<>> /\ log \in Seq(Record) /\ Len(log) = 0 /\ saved = 0 /\ pos = 0
    BY DEF Init
  <2>3. /\ file = {} /\ header \in [Msgs -> SUBSET SUBSET UNION Names]
        /\ stage = "idle" /\ refreshed = FALSE /\ lock = NoWorker /\ raw = {} /\ failed = {}
    BY DEF Init
  <2>4. call \in [Workers -> Calls]
    BY DEF Init, Calls
  <2>5. saved \in 0 .. pos /\ pos \in 0 .. Len(log)
    BY <2>2
  <2> QED  BY <2>1, <2>2, <2>3, <2>4, <2>5 DEF TypeOK
<1>2. \A w \in Workers : call[w] = NoCall /\ ~Holds(w)
  BY DEF Init, NoCall, Holds, At
<1> QED  BY <1>1, <1>2
         DEF Init, Inv, Serial, LockHeld, RefreshOnce, RawToTheEnd, At, NoCall
-----------------------------------------------------------------------------
LEMMA LookupInv == ASSUME Inv, NEW w \in Workers, Lookup(w) PROVE Inv'
<1>1. TypeOK /\ call[w].pc = "lookup" /\ call[w] # NoCall
  BY CallTypes DEF Inv, Lookup, At
<1>2. dict \in [Ids -> NamePool \union {{}}]
  BY DEF Inv, TypeOK
<1>3. /\ call' \in [Workers -> Calls] /\ raw' = raw
      /\ call'[w].pc \in {"write", "lock"} /\ call'[w].op = call[w].op
      /\ \A v \in Workers \ {w} : call'[v] = call[v]
  <2>1. CASE Unknown(dict, call[w].ids) = {}
    BY <1>1, <1>2, <2>1, ResolvedCall DEF Lookup, Asks
  <2>2. CASE Unknown(dict, call[w].ids) # {}
    BY <1>1, <2>2, GotoCall DEF Lookup, Asks
  <2> QED  BY <2>1, <2>2
<1>4. TypeOK'
  BY <1>3 DEF Inv, TypeOK, Lookup, gmail, disk
<1>5. Serial'
  BY <1>1, <1>3 DEF Inv, Serial, Lookup, gmail
<1>6. LockHeld' /\ RefreshOnce'
  BY <1>1, <1>3 DEF Inv, LockHeld, RefreshOnce, Holds, At, Lookup
<1>7. RawToTheEnd'
  BY <1>3 DEF Inv, RawToTheEnd, Lookup, disk
<1> QED  BY <1>4, <1>5, <1>6, <1>7 DEF Inv

LEMMA LockInv == ASSUME Inv, NEW w \in Workers, Lock(w) PROVE Inv'
<1>1. TypeOK /\ call[w].pc = "lock" /\ call[w] # NoCall
  BY CallTypes DEF Inv, Lock, At
<1>2. /\ call' \in [Workers -> Calls]
      /\ call'[w].pc = "again" /\ call'[w].op = call[w].op
      /\ \A v \in Workers \ {w} : call'[v] = call[v]
  BY <1>1, GotoCall DEF Lock, Asks
<1>3. TypeOK'
  BY <1>2 DEF Inv, TypeOK, Lock, gmail, disk, ghost
<1>4. Serial'
  BY <1>1, <1>2 DEF Inv, Serial, Lock, gmail
<1>5. LockHeld'
  <2>1. \A v \in Workers : ~Holds(v)
    BY LabelsAssumption DEF Inv, LockHeld, Lock
  <2> QED  BY <1>2, <2>1 DEF LockHeld, Holds, At, Lock
<1>6. RefreshOnce' /\ RawToTheEnd'
  BY <1>2 DEF Inv, RefreshOnce, RawToTheEnd, At, Lock, disk, ghost
<1> QED  BY <1>3, <1>4, <1>5, <1>6 DEF Inv

(* An id is written as itself only after the refresh.                      *)
LEMMA LookupAgainInv == ASSUME Inv, NEW w \in Workers, LookupAgain(w) PROVE Inv'
<1>1. TypeOK /\ call[w].pc = "again" /\ call[w] # NoCall
  BY CallTypes DEF Inv, LookupAgain, At
<1>2. dict \in [Ids -> NamePool \union {{}}]
  BY DEF Inv, TypeOK
<1>3. lock = w
  BY <1>1 DEF Inv, LockHeld, Holds, At
<1>4. CASE Miss(w)
  <2>1. /\ call' \in [Workers -> Calls] /\ raw' = raw /\ lock' = lock
        /\ call'[w].pc = "refresh" /\ call'[w].op = call[w].op
        /\ \A v \in Workers \ {w} : call'[v] = call[v]
    BY <1>1, <1>4, GotoCall DEF LookupAgain, Asks
  <2>2. TypeOK'
    BY <2>1 DEF Inv, TypeOK, LookupAgain, gmail, disk
  <2>3. Serial'
    BY <1>1, <2>1 DEF Inv, Serial, LookupAgain, gmail
  <2>4. LockHeld'
    BY <1>3, <2>1 DEF Inv, LockHeld, Holds, At
  <2>5. RefreshOnce' /\ RawToTheEnd'
    BY <1>4, <2>1 DEF Inv, RefreshOnce, RawToTheEnd, At, Miss, LookupAgain, disk
  <2> QED  BY <2>2, <2>3, <2>4, <2>5 DEF Inv
<1>5. CASE ~Miss(w)
  <2>1. /\ call' \in [Workers -> Calls] /\ lock' = NoWorker
        /\ call'[w].pc = "write" /\ call'[w].op = call[w].op
        /\ \A v \in Workers \ {w} : call'[v] = call[v]
        /\ raw' = raw \union Unknown(dict, call[w].ids) /\ raw' \subseteq Ids
    BY <1>1, <1>2, <1>5, ResolvedCall DEF LookupAgain, Asks
  <2>2. TypeOK'
    BY <2>1 DEF Inv, TypeOK, LookupAgain, gmail, disk
  <2>3. Serial'
    BY <1>1, <2>1 DEF Inv, Serial, LookupAgain, gmail
  <2>4. LockHeld'
    BY <1>3, <2>1, LabelsAssumption DEF Inv, LockHeld, Holds, At
  <2>5. Unknown(dict, call[w].ids) # {} => refreshed
    BY <1>5 DEF Miss
  <2>6. RefreshOnce' /\ RawToTheEnd'
    BY <2>1, <2>5 DEF Inv, RefreshOnce, RawToTheEnd, Unknown, At, LookupAgain, disk
  <2> QED  BY <2>2, <2>3, <2>4, <2>6 DEF Inv
<1> QED  BY <1>4, <1>5

(* The refresh finds no id that was written as itself.                     *)
LEMMA RefreshInv == ASSUME Inv, NEW w \in Workers, Refresh(w) PROVE Inv'
<1>1. TypeOK /\ call[w].pc = "refresh" /\ call[w] # NoCall
  BY CallTypes DEF Inv, Refresh, At
<1>2. PICK d : d = [i \in Ids |-> Upserted(i)]
  OBVIOUS
<1>3. d \in [Ids -> NamePool \union {{}}]
  BY <1>2 DEF Inv, TypeOK, Upserted
<1>4. dict' = d /\ refreshed' = TRUE /\ lock' = NoWorker
  BY <1>2 DEF Refresh
<1>5. /\ call' \in [Workers -> Calls]
      /\ call'[w].pc = "write" /\ call'[w].op = call[w].op
      /\ \A v \in Workers \ {w} : call'[v] = call[v]
      /\ raw' = raw \union Unknown(d, call[w].ids) /\ raw' \subseteq Ids
  BY <1>1, <1>2, <1>3, ResolvedCall DEF Refresh, Asks
<1>6. TypeOK'
  BY <1>3, <1>4, <1>5 DEF Inv, TypeOK, Refresh, gmail
<1>7. Serial'
  BY <1>1, <1>5 DEF Inv, Serial, Refresh, gmail
<1>8. lock = w /\ raw = {}
  BY <1>1 DEF Inv, LockHeld, RefreshOnce, Holds, At
<1>9. \A v \in Workers : ~Holds(v)'
  BY <1>5, <1>8 DEF Inv, LockHeld, Holds, At
<1>10. LockHeld' /\ RefreshOnce'
  BY <1>4, <1>9, LabelsAssumption DEF LockHeld, RefreshOnce, Holds
<1>11. RawToTheEnd'
  BY <1>4, <1>5, <1>8 DEF RawToTheEnd, Unknown
<1> QED  BY <1>6, <1>7, <1>10, <1>11 DEF Inv

LEMMA RefreshFailsInv == ASSUME Inv, NEW w \in Workers, RefreshFails(w) PROVE Inv'
<1>1. TypeOK /\ call[w].pc = "refresh" /\ call[w] # NoCall /\ call[w].msg \in Msgs
  BY CallTypes DEF Inv, RefreshFails, At, Asks
<1>2. /\ call' = [call EXCEPT ![w] = NoCall] /\ call \in [Workers -> Calls]
      /\ NoCall \in Calls /\ NoCall.pc = "idle"
  BY <1>1 DEF RefreshFails, TypeOK, Calls, NoCall
<1>3. /\ call' \in [Workers -> Calls] /\ call'[w] = NoCall
      /\ \A v \in Workers \ {w} : call'[v] = call[v]
  BY <1>2
<1>4. stage = "history" => pos < Len(log) /\ \A v \in Workers \ {w} : call[v] = NoCall
  BY <1>1 DEF Inv, Serial
<1>5. TypeOK'
  <2>1. saved' \in 0 .. pos' /\ pos' \in 0 .. Len(log')
    <3>1. saved \in 0 .. pos /\ pos \in 0 .. Len(log) /\ Len(log) \in Nat
      BY <1>1 DEF TypeOK
    <3>2. pos' = pos \/ (pos' = pos + 1 /\ pos < Len(log))
      BY <1>4 DEF RefreshFails
    <3>3. saved' = saved /\ log' = log
      BY DEF RefreshFails, gmail, disk
    <3> QED  BY <3>1, <3>2, <3>3
  <2>2. failed' \subseteq Msgs
    BY <1>1 DEF RefreshFails, TypeOK
  <2> QED  BY <1>1, <1>3, <2>1, <2>2 DEF TypeOK, RefreshFails, gmail, disk
<1>6. Serial'
  BY <1>3, <1>4 DEF Inv, Serial, RefreshFails, gmail
<1>7. LockHeld' /\ RefreshOnce' /\ RawToTheEnd'
  <2>1. lock = w
    BY <1>1 DEF Inv, LockHeld, Holds, At
  <2>2. \A v \in Workers : ~Holds(v)'
    BY <1>2, <1>3, <2>1 DEF Inv, LockHeld, Holds, At
  <2>3. LockHeld'
    BY <2>2, LabelsAssumption DEF LockHeld, RefreshFails
  <2> QED  BY <2>2, <2>3 DEF Inv, RefreshOnce, RawToTheEnd, Holds, RefreshFails, disk
<1> QED  BY <1>5, <1>6, <1>7 DEF Inv

-----------------------------------------------------------------------------
(* A worker takes the download of a message or a record.                   *)
LEMMA AskCall ==
    ASSUME TypeOK, NEW w \in Workers, NEW m \in Msgs, NEW o \in Ops, NEW S \in SUBSET Ids,
           Ask(w, m, o, S)
    PROVE  /\ call' \in [Workers -> Calls]
           /\ call'[w].pc = "lookup" /\ call'[w].op = o /\ call'[w] # NoCall
           /\ \A v \in Workers \ {w} : call'[v] = call[v]
<1>1. PICK c : c = [pc |-> "lookup", msg |-> m, op |-> o, ids |-> S]
  OBVIOUS
<1>2. c \in Calls /\ c.pc = "lookup" /\ c.op = o /\ c # NoCall
  BY <1>1 DEF Calls, Ops, NoCall
<1>3. call' = [call EXCEPT ![w] = c]
  BY <1>1 DEF Ask
<1> QED  BY <1>2, <1>3 DEF TypeOK

LEMMA TakeDownloadInv ==
    ASSUME Inv, NEW w \in Workers, NEW m \in Msgs, TakeDownload(w, m) PROVE Inv'
<1>1. TypeOK /\ tagged[m] \in SUBSET Ids /\ "download" \in Ops
  BY DEF Inv, TypeOK, Ops
<1>2. /\ call' \in [Workers -> Calls]
      /\ call'[w].pc = "lookup" /\ call'[w].op = "download"
      /\ \A v \in Workers \ {w} : call'[v] = call[v]
  BY <1>1, AskCall DEF TakeDownload
<1>3. TypeOK'
  BY <1>2 DEF Inv, TypeOK, TakeDownload, gmail, disk, ghost
<1>4. Serial'
  BY <1>2 DEF Inv, Serial, TakeDownload, gmail
<1>5. call[w].pc = "idle"
  BY DEF TakeDownload, NoCall
<1>6. LockHeld' /\ RefreshOnce' /\ RawToTheEnd'
  BY <1>2, <1>5
  DEF Inv, LockHeld, RefreshOnce, RawToTheEnd, Holds, At, TakeDownload, disk, ghost
<1> QED  BY <1>3, <1>4, <1>6 DEF Inv

LEMMA TakeRecordInv == ASSUME Inv, NEW w \in Workers, TakeRecord(w) PROVE Inv'
<1>1. PICK r : r = log[pos + 1]
  OBVIOUS
<1>2. r \in Record
  <2>1. log \in Seq(Record) /\ pos + 1 \in 1 .. Len(log)
    BY DEF Inv, TypeOK, TakeRecord
  <2> QED  BY <1>1, <2>1
<1>3. TypeOK /\ tagged[r.msg] \in SUBSET Ids
  BY <1>2 DEF Inv, TypeOK, Record
<1>4. /\ call' \in [Workers -> Calls]
      /\ call'[w].pc = "lookup"
      /\ \A v \in Workers \ {w} : call'[v] = call[v]
  <2>1. r.msg \in Msgs /\ r.op \in Ops /\ "download" \in Ops /\ r.ids \in SUBSET Ids
    BY <1>2 DEF Record, Ops
  <2>2. Ask(w, r.msg, r.op, r.ids) \/ Ask(w, r.msg, "download", tagged[r.msg])
    BY <1>1 DEF TakeRecord
  <2> QED  BY <1>3, <2>1, <2>2, AskCall
<1>5. TypeOK'
  BY <1>4 DEF Inv, TypeOK, TakeRecord, gmail, disk, ghost
<1>6. Serial'
  BY <1>4 DEF Inv, Serial, TakeRecord, AllIdle, gmail
<1>7. call[w].pc = "idle"
  BY DEF TakeRecord, AllIdle, NoCall
<1>8. LockHeld' /\ RefreshOnce' /\ RawToTheEnd'
  BY <1>4, <1>7
  DEF Inv, LockHeld, RefreshOnce, RawToTheEnd, Holds, At, TakeRecord, disk, ghost
<1> QED  BY <1>5, <1>6, <1>8 DEF Inv

(* What a delta leaves in a header are sets of parts.                      *)
LEMMA DeltaType ==
    ASSUME TypeOK, NEW m \in Msgs, NEW o, NEW names \in SUBSET SUBSET UNION Names
    PROVE  Delta(m, o, names) \in SUBSET SUBSET UNION Names
<1>1. header[m] \in SUBSET SUBSET UNION Names
  BY DEF TypeOK
<1>2. Read(m) \in SUBSET SUBSET UNION Names
  BY <1>1 DEF Read
<1> QED  BY <1>2 DEF Delta

LEMMA WriteInv == ASSUME Inv, NEW w \in Workers, Write(w) PROVE Inv'
<1>1. /\ TypeOK /\ call[w].pc = "write" /\ call[w] # NoCall
      /\ call[w].msg \in Msgs /\ call[w].op \in Ops
      /\ call[w].names \in SUBSET SUBSET UNION Names
  BY CallTypes DEF Inv, Write, At
<1>2. /\ call' = [call EXCEPT ![w] = NoCall] /\ call \in [Workers -> Calls]
      /\ NoCall \in Calls /\ NoCall.pc = "idle"
  BY <1>1 DEF Write, TypeOK, Calls, NoCall
<1>3. /\ call' \in [Workers -> Calls] /\ call'[w] = NoCall
      /\ \A v \in Workers \ {w} : call'[v] = call[v]
  BY <1>2
<1>4. /\ stage = "history" => pos < Len(log) /\ \A v \in Workers \ {w} : call[v] = NoCall
      /\ stage # "history" => call[w].op = "download"
  BY <1>1 DEF Inv, Serial
<1>5. TypeOK'
  <2>1. saved' \in 0 .. pos' /\ pos' \in 0 .. Len(log')
    <3>1. saved \in 0 .. pos /\ pos \in 0 .. Len(log) /\ Len(log) \in Nat
      BY <1>1 DEF TypeOK
    <3>2. pos' = pos \/ (pos' = pos + 1 /\ pos < Len(log))
      BY <1>4 DEF Write
    <3>3. saved' = saved /\ log' = log
      BY DEF Write, gmail
    <3> QED  BY <3>1, <3>2, <3>3
  <2>2. PICK h : /\ h \in SUBSET SUBSET UNION Names
                 /\ header' = [header EXCEPT ![call[w].msg] = h]
    <3>1. CASE call[w].op = "download"
      BY <1>1, <3>1 DEF Write
    <3>2. CASE call[w].op # "download"
      <4>1. Delta(call[w].msg, call[w].op, call[w].names) \in SUBSET SUBSET UNION Names
        BY <1>1, DeltaType
      <4> QED  BY <3>2, <4>1 DEF Write
    <3> QED  BY <3>1, <3>2
  <2>3. header' \in [Msgs -> SUBSET SUBSET UNION Names]
    BY <1>1, <2>2 DEF TypeOK
  <2>4. file' \subseteq Msgs
    BY <1>1 DEF Write, TypeOK
  <2> QED  BY <1>1, <1>3, <2>1, <2>3, <2>4 DEF TypeOK, Write, gmail, ghost
<1>6. Serial'
  BY <1>3, <1>4 DEF Inv, Serial, Write, gmail
<1>7. LockHeld' /\ RefreshOnce' /\ RawToTheEnd'
  BY <1>1, <1>2, <1>3
  DEF Inv, LockHeld, RefreshOnce, RawToTheEnd, Holds, At, Write, ghost
<1> QED  BY <1>5, <1>6, <1>7 DEF Inv

(* The steps that concern no call.                                         *)
LEMMA StageInv == ASSUME Inv, StartRun \/ StartHistory \/ EndRun \/ Save PROVE Inv'
<1>1. AllIdle /\ UNCHANGED <<gmail, dict, file, header, lock, call, pos, failed>>
  BY DEF StartRun, StartHistory, EndRun, Enter, Save, proc, ghost
<1>2. \A w \in Workers : call[w] = NoCall /\ call'[w] = NoCall /\ NoCall.pc = "idle"
  BY <1>1 DEF AllIdle, NoCall
<1>3. TypeOK'
  <2>1. saved' \in 0 .. pos' /\ pos' \in 0 .. Len(log')
    <3>1. saved \in 0 .. pos /\ pos \in 0 .. Len(log) /\ Len(log) \in Nat
      BY DEF Inv, TypeOK
    <3>2. saved' \in {saved, pos}
      BY DEF StartRun, StartHistory, EndRun, Save
    <3> QED  BY <1>1, <3>1, <3>2 DEF gmail
  <2>2. stage' \in {"idle", "archive", "history"} /\ refreshed' \in BOOLEAN /\ raw' \subseteq Ids
    BY DEF Inv, TypeOK, StartRun, StartHistory, EndRun, Enter, Save, proc, ghost
  <2> QED  BY <1>1, <2>1, <2>2 DEF Inv, TypeOK, gmail
<1>4. Serial' /\ LockHeld'
  BY <1>1, <1>2 DEF Inv, Serial, LockHeld, Holds, At
<1>5. RefreshOnce' /\ RawToTheEnd'
  BY <1>1, <1>2 DEF Inv, RefreshOnce, RawToTheEnd, At, StartRun, StartHistory, EndRun, Enter,
                    Save, proc, ghost
<1> QED  BY <1>3, <1>4, <1>5 DEF Inv

LEMMA AbortInv == Inv /\ Abort => Inv'
<1> SUFFICES ASSUME Inv, Abort PROVE Inv'
  OBVIOUS
<1>1. \A w \in Workers : call'[w] = NoCall /\ NoCall.pc = "idle"
  BY DEF Abort, NoCall
<1>2. TypeOK'
  <2>1. saved' \in 0 .. pos' /\ pos' \in 0 .. Len(log')
    <3>1. saved \in 0 .. pos /\ pos \in 0 .. Len(log) /\ Len(log) \in Nat
      BY DEF Inv, TypeOK
    <3> QED  BY <3>1 DEF Abort, gmail, disk
  <2>2. call' \in [Workers -> Calls]
    BY DEF Abort, Calls
  <2> QED  BY <2>1, <2>2 DEF Inv, TypeOK, Abort, gmail, disk
<1>3. Serial' /\ LockHeld' /\ RefreshOnce' /\ RawToTheEnd'
  BY <1>1, LabelsAssumption DEF Serial, LockHeld, RefreshOnce, RawToTheEnd, Holds, At, Abort
<1> QED  BY <1>2, <1>3 DEF Inv

(* What users do in Gmail changes no state of outtake; the log grows.      *)
LEMMA GmailInv == Inv /\ Gmail => Inv'
<1> SUFFICES ASSUME Inv, Gmail PROVE Inv'
  OBVIOUS
<1>1. Quiet
  BY DEF Gmail, Create, Rename, Delete, Tag, Untag, Changed
<1>2. /\ named' \in [Ids -> NamePool \union {{}}] /\ ever' \in [Ids -> SUBSET NamePool]
      /\ tagged' \in [Msgs -> SUBSET Ids]
  <2>1. /\ named \in [Ids -> NamePool \union {{}}] /\ ever \in [Ids -> SUBSET NamePool]
        /\ tagged \in [Msgs -> SUBSET Ids]
    BY DEF Inv, TypeOK
  <2>2. ASSUME NEW i \in Ids, NEW n \in NamePool, Create(i, n) \/ Rename(i, n)
        PROVE  <1>2!:
    BY <2>1, <2>2 DEF Create, Rename
  <2>3. ASSUME NEW i \in Ids, Delete(i)
        PROVE  <1>2!:
    BY <2>1, <2>3 DEF Delete
  <2>4. ASSUME NEW m \in Msgs, NEW S \in SUBSET Ids, Tag(m, S) \/ Untag(m, S)
        PROVE  <1>2!:
    BY <2>1, <2>4 DEF Tag, Untag, Changed
  <2> QED  BY <2>2, <2>3, <2>4 DEF Gmail
<1>3. log' \in Seq(Record) /\ Len(log') \in Nat /\ Len(log') >= Len(log)
  <2>1. log \in Seq(Record) /\ Len(log) \in Nat
    BY DEF Inv, TypeOK
  <2>2. CASE log' = log
    BY <2>1, <2>2
  <2>3. ASSUME NEW r \in Record, log' = Append(log, r)
        PROVE  log' \in Seq(Record) /\ Len(log') = Len(log) + 1
    BY <2>1, <2>3
  <2>4. log' = log \/ \E r \in Record : log' = Append(log, r)
    <3>1. ASSUME NEW m \in Msgs, NEW S \in SUBSET Ids, NEW o \in {"add", "remove"},
                 Changed(m, o, S)
          PROVE  \E r \in Record : log' = Append(log, r)
      <4>1. [msg |-> m, op |-> o, ids |-> S] \in Record
        BY DEF Record
      <4> QED  BY <3>1, <4>1 DEF Changed
    <3> QED  BY <3>1 DEF Gmail, Create, Rename, Delete, Tag, Untag
  <2> QED  BY <2>1, <2>2, <2>3, <2>4
<1>4. TypeOK'
  <2>1. saved' \in 0 .. pos' /\ pos' \in 0 .. Len(log')
    <3>1. saved \in 0 .. pos /\ pos \in 0 .. Len(log) /\ Len(log) \in Nat
      BY DEF Inv, TypeOK
    <3> QED  BY <1>1, <1>3, <3>1 DEF Quiet, disk, proc
  <2> QED  BY <1>1, <1>2, <1>3, <2>1 DEF Inv, TypeOK, Quiet, disk, proc, ghost
<1>5. Serial'
  <2>1. pos \in Nat /\ Len(log) \in Nat
    BY DEF Inv, TypeOK
  <2> QED  BY <1>1, <1>3, <2>1 DEF Inv, Serial, Quiet, proc
<1>6. LockHeld' /\ RefreshOnce' /\ RawToTheEnd'
  BY <1>1 DEF Inv, LockHeld, RefreshOnce, RawToTheEnd, Holds, At, Quiet, disk, proc, ghost
<1> QED  BY <1>4, <1>5, <1>6 DEF Inv

(* Every step keeps the invariant.                                         *)
LEMMA NextInv == Inv /\ [Next]_vars => Inv'
<1> SUFFICES ASSUME Inv, [Next]_vars PROVE Inv'
  OBVIOUS
<1>1. CASE UNCHANGED vars
  BY <1>1 DEF Inv, TypeOK, Serial, LockHeld, RefreshOnce, RawToTheEnd, Holds, At,
              vars, gmail, disk, proc, ghost
<1>2. CASE Gmail \/ Abort
  BY <1>2, GmailInv, AbortInv
<1>3. CASE Sync
  <2>1. CASE ResolveArchivedLabels
    BY <2>1, LookupInv, LockInv, LookupAgainInv, RefreshInv, RefreshFailsInv
    DEF ResolveArchivedLabels
  <2>2. CASE StartRun \/ StartHistory \/ EndRun \/ Save
    BY <2>2, StageInv
  <2>3. ASSUME NEW w \in Workers,
               Write(w) \/ TakeRecord(w) \/ \E m \in Msgs : TakeDownload(w, m)
        PROVE  Inv'
    BY <2>3, WriteInv, TakeRecordInv, TakeDownloadInv
  <2> QED  BY <1>3, <2>1, <2>2, <2>3 DEF Sync
<1> QED  BY <1>1, <1>2, <1>3 DEF Next

LEMMA SpecInv == Spec => []Inv
  BY InitInv, NextInv, PTL DEF Spec

-----------------------------------------------------------------------------
(* HeaderInSync                                                            *)

(* A record above a position changes a label of a message, or one of that  *)
(* name.                                                                   *)
LaterOn(m, i, p) ==
    \E k \in DOMAIN log : k > p /\ log[k].msg = m /\ i \in log[k].ids

LaterNamed(m, n, p) == \E i \in Ids : n \in ever[i] /\ LaterOn(m, i, p)

(* A label has no name but those it has had, and neither has the           *)
(* dictionary for it.                                                      *)
NamesInv ==
    /\ \A i \in Ids : named[i] # {} => named[i] \in ever[i]
    /\ \A i \in Ids : dict[i] # {} => dict[i] \in ever[i]
    /\ \A i, j \in Ids : named[i] = named[j] => i = j \/ named[i] = {}
    /\ \A m \in Msgs : \A i \in tagged[m] : named[i] # {}
    /\ \A k \in DOMAIN log : \A i \in log[k].ids : ever[i] # {}

(* What a record says of a message holds up to later records; a label that *)
(* was removed has left no other of its name.                              *)
RecordTrue(k) ==
    /\ log[k].op = "add" => \A i \in log[k].ids :
           i \in tagged[log[k].msg] \/ LaterOn(log[k].msg, i, k)
    /\ log[k].op = "remove" => \A i \in log[k].ids, j \in tagged[log[k].msg] :
           ever[i] \intersect ever[j] # {} => LaterOn(log[k].msg, j, k)

(* Labels that were read of a message are right up to records above p.     *)
Fresh(m, S, p) ==
    /\ \A i \in S \ tagged[m] : LaterOn(m, i, p)
    /\ \A i \in tagged[m] \ S : LaterOn(m, i, p)

(* The labels of a download, or of the record behind p.                    *)
Due(c, S, p) ==
    /\ c.op = "download" => Fresh(c.msg, S, p)
    /\ c.op # "download" => c.op = log[p + 1].op /\ S = log[p + 1].ids

CallInv(c) ==
    /\ c.pc \in Asks => Due(c, c.ids, pos)
    /\ c.pc = "write" =>
           \E S \in SUBSET Ids : /\ c.names = {Resolve(dict, i) : i \in S}
                                 /\ Unknown(dict, S) \subseteq raw
                                 /\ Due(c, S, pos)
    /\ c # NoCall /\ stage = "history" => c.msg = log[pos + 1].msg

(* A name in a header h is that of a label of the message, and each label  *)
(* is there by its name or as an id, up to records above p.                *)
NameTrue(m, x, p) ==
    \E i \in Ids : x \in ever[i] /\ dict[i] = x /\ (i \in tagged[m] \/ LaterOn(m, i, p))

LabelThere(m, i, h, p) ==
    \/ named[i] \in h
    \/ LaterNamed(m, named[i], p)
    \/ \E j \in Ids : named[i] \in ever[j] /\ {j} \in h

HeaderTrue(m, h, p) ==
    /\ \A x \in h : (\E i \in Ids : x = {i}) \/ NameTrue(m, x, p)
    /\ \A i \in tagged[m] : LabelThere(m, i, h, p)

RecordsInv == \A k \in DOMAIN log : RecordTrue(k)
CallsInv == \A w \in Workers : CallInv(call[w])
HeadersInv == \A m \in file \ failed : HeaderTrue(m, header[m], pos)

SyncInv == Plain => NamesInv /\ RecordsInv /\ CallsInv /\ HeadersInv

-----------------------------------------------------------------------------
(* A position further down has more records above it.                      *)
LEMMA HeaderDown ==
    ASSUME TypeOK, NEW m, NEW h, NEW p \in Nat, NEW q \in Nat, q <= p, HeaderTrue(m, h, p)
    PROVE  HeaderTrue(m, h, q)
<1>1. DOMAIN log \subseteq Nat
  BY DEF TypeOK
<1>2. \A i : LaterOn(m, i, p) => LaterOn(m, i, q)
  BY <1>1 DEF LaterOn
<1>3. \A n : LaterNamed(m, n, p) => LaterNamed(m, n, q)
  BY <1>2 DEF LaterNamed
<1> QED  BY <1>2, <1>3 DEF HeaderTrue, NameTrue, LabelThere

(* A record that is another message's leaves a header as right as it was.  *)
LEMMA HeaderUp ==
    ASSUME TypeOK, NEW m, NEW h, NEW p \in Nat, p + 1 \in DOMAIN log, log[p + 1].msg # m,
           HeaderTrue(m, h, p)
    PROVE  HeaderTrue(m, h, p + 1)
<1>1. DOMAIN log \subseteq Nat
  BY DEF TypeOK
<1>2. \A i : LaterOn(m, i, p) => LaterOn(m, i, p + 1)
  <2> SUFFICES ASSUME NEW i, NEW k \in DOMAIN log, k > p, log[k].msg = m, i \in log[k].ids
               PROVE  LaterOn(m, i, p + 1)
    BY DEF LaterOn
  <2>1. k > p + 1
    <3>1. k # p + 1
      OBVIOUS
    <3> QED  BY <1>1, <3>1
  <2> QED  BY <2>1 DEF LaterOn
<1>3. \A n : LaterNamed(m, n, p) => LaterNamed(m, n, p + 1)
  BY <1>2 DEF LaterNamed
<1> QED  BY <1>2, <1>3 DEF HeaderTrue, NameTrue, LabelThere

(* While names are plain, a name resolves to itself or to the id, and a    *)
(* header that is read back is the one that was written.                   *)
LEMMA ReadBack ==
    ASSUME Plain, NEW m \in Msgs, NEW p, HeaderTrue(m, header[m], p),
           ever \in [Ids -> SUBSET NamePool]
    PROVE  Read(m) = header[m]
<1>1. \A x \in header[m] : \E q : x = {q}
  <2> SUFFICES ASSUME NEW x \in header[m] PROVE \E q : x = {q}
    OBVIOUS
  <2>1. CASE \E i \in Ids : x = {i}
    BY <2>1
  <2>2. CASE NameTrue(m, x, p)
    <3>1. PICK i \in Ids : x \in ever[i]
      BY <2>2 DEF NameTrue
    <3>2. x # {} /\ \A q, r \in x : q = r
      BY <3>1, LabelsAssumption DEF Plain
    <3> QED  BY <3>2
  <2> QED  BY <2>1, <2>2 DEF HeaderTrue
<1>2. ASSUME NEW x \in Read(m) PROVE x \in header[m]
  <2>1. PICK y \in header[m] : \E q \in y : x = {q}
    BY <1>2 DEF Read
  <2> QED  BY <1>1, <2>1
<1>3. ASSUME NEW x \in header[m] PROVE x \in Read(m)
  <2>1. PICK q : x = {q}
    BY <1>1
  <2>2. q \in UNION header[m]
    BY <2>1
  <2> QED  BY <2>1, <2>2 DEF Read
<1> QED  BY <1>2, <1>3

LEMMA Resolving ==
    ASSUME NamesInv, NEW i \in Ids
    PROVE  \/ Resolve(dict, i) = {i} /\ dict[i] = {}
           \/ Resolve(dict, i) = dict[i] /\ dict[i] \in ever[i] /\ dict[i] # {}
  BY DEF Resolve, NamesInv

(* A download writes a right header.                                       *)
LEMMA DownloadTrue ==
    ASSUME Plain, TypeOK, NamesInv, NEW m \in Msgs, NEW S \in SUBSET Ids, NEW p, Fresh(m, S, p)
    PROVE  HeaderTrue(m, {Resolve(dict, i) : i \in S}, p)
<1> DEFINE h == {Resolve(dict, i) : i \in S}
<1>1. ASSUME NEW x \in h
      PROVE  (\E i \in Ids : x = {i}) \/ NameTrue(m, x, p)
  <2>1. PICK i \in S : x = Resolve(dict, i)
    BY <1>1
  <2> QED  BY <2>1, Resolving DEF NameTrue, Fresh
<1>2. ASSUME NEW i \in tagged[m]
      PROVE  LabelThere(m, i, h, p)
  <2>1. i \in Ids /\ named[i] \in ever[i]
    BY DEF TypeOK, NamesInv
  <2>2. CASE i \in S
    <3>1. Resolve(dict, i) \in h
      BY <2>2
    <3>2. CASE Resolve(dict, i) = {i}
      BY <2>1, <3>1, <3>2 DEF LabelThere
    <3>3. CASE Resolve(dict, i) \in ever[i]
      BY <2>1, <3>1, <3>3 DEF LabelThere, Plain
    <3> QED  BY <2>1, <3>2, <3>3, Resolving
  <2>3. CASE i \notin S
    BY <2>1, <2>3 DEF Fresh, LabelThere, LaterNamed
  <2> QED  BY <2>2, <2>3
<1> QED  BY <1>1, <1>2 DEF HeaderTrue

(* What is later than p is of the record behind p or later than that.      *)
LEMMA NextOrLater ==
    ASSUME TypeOK, NEW p \in Nat, p + 1 \in DOMAIN log, NEW m, NEW i, LaterOn(m, i, p)
    PROVE  \/ log[p + 1].msg = m /\ i \in log[p + 1].ids
           \/ LaterOn(m, i, p + 1)
<1>1. PICK k \in DOMAIN log : k > p /\ log[k].msg = m /\ i \in log[k].ids
  BY DEF LaterOn
<1>2. k \in Nat
  BY DEF TypeOK
<1>3. k = p + 1 \/ k > p + 1
  BY <1>1, <1>2
<1> QED  BY <1>1, <1>3 DEF LaterOn

(* Applying the record behind p to a header that was right up to it makes  *)
(* it right up to the ones above.                                          *)
LEMMA DeltaTrue ==
    ASSUME Plain, TypeOK, NamesInv, NEW m \in Msgs, NEW p \in Nat, p + 1 \in DOMAIN log,
           RecordTrue(p + 1), log[p + 1].msg = m, HeaderTrue(m, header[m], p)
    PROVE  HeaderTrue(m, Delta(m, log[p + 1].op, {Resolve(dict, i) : i \in log[p + 1].ids}),
                      p + 1)
<1> DEFINE N == {Resolve(dict, i) : i \in log[p + 1].ids}
           h == Delta(m, log[p + 1].op, N)
<1>1. Read(m) = header[m]
  BY ReadBack DEF TypeOK
<1>2. log[p + 1].ids \subseteq Ids /\ log[p + 1].op \in {"add", "remove"}
  <2>1. log[p + 1] \in Record
    BY DEF TypeOK
  <2> QED  BY <2>1 DEF Record
<1>3. \A i \in log[p + 1].ids : Resolve(dict, i) \in N
  OBVIOUS
<1> HIDE DEF N
<1>4. CASE log[p + 1].op = "add"
  <2>1. h = header[m] \union N
    BY <1>1, <1>4 DEF Delta
  <2>2. ASSUME NEW x \in h
        PROVE  (\E i \in Ids : x = {i}) \/ NameTrue(m, x, p + 1)
    <3>1. CASE x \in N
      <4>1. PICK i \in log[p + 1].ids : x = Resolve(dict, i)
        BY <3>1 DEF N
      <4>2. i \in tagged[m] \/ LaterOn(m, i, p + 1)
        BY <1>4 DEF RecordTrue
      <4> QED  BY <1>2, <4>1, <4>2, Resolving DEF NameTrue
    <3>2. CASE x \in header[m] /\ NameTrue(m, x, p)
      <4>1. PICK i \in Ids : /\ x \in ever[i] /\ dict[i] = x
                             /\ i \in tagged[m] \/ LaterOn(m, i, p)
        BY <3>2 DEF NameTrue
      <4>2. i \in tagged[m] \/ LaterOn(m, i, p + 1)
        BY <1>4, <4>1, NextOrLater DEF RecordTrue
      <4> QED  BY <4>1, <4>2 DEF NameTrue
    <3> QED  BY <2>1, <3>1, <3>2 DEF HeaderTrue
  <2>3. ASSUME NEW i \in tagged[m]
        PROVE  LabelThere(m, i, h, p + 1)
    <3>1. CASE LaterNamed(m, named[i], p)
      <4>1. PICK j \in Ids : named[i] \in ever[j] /\ LaterOn(m, j, p)
        BY <3>1 DEF LaterNamed
      <4>2. CASE LaterOn(m, j, p + 1)
        BY <4>1, <4>2 DEF LabelThere, LaterNamed
      <4>3. CASE j \in log[p + 1].ids
        <5>1. Resolve(dict, j) \in h
          BY <1>3, <2>1, <4>3
        <5>2. CASE Resolve(dict, j) = {j}
          BY <4>1, <5>1, <5>2 DEF LabelThere
        <5>3. CASE Resolve(dict, j) \in ever[j]
          BY <4>1, <5>1, <5>3 DEF LabelThere, Plain
        <5> QED  BY <5>2, <5>3, Resolving
      <4> QED  BY <4>1, <4>2, <4>3, NextOrLater
    <3>2. CASE ~LaterNamed(m, named[i], p)
      BY <2>1, <3>2 DEF HeaderTrue, LabelThere
    <3> QED  BY <3>1, <3>2
  <2> QED  BY <2>2, <2>3 DEF HeaderTrue, N
<1>5. CASE log[p + 1].op = "remove"
  <2>1. h = header[m] \ N
    BY <1>1, <1>5 DEF Delta
  <2>2. ASSUME NEW x \in h
        PROVE  (\E i \in Ids : x = {i}) \/ NameTrue(m, x, p + 1)
    <3>1. CASE NameTrue(m, x, p)
      <4>1. PICK i \in Ids : /\ x \in ever[i] /\ dict[i] = x
                             /\ i \in tagged[m] \/ LaterOn(m, i, p)
        BY <3>1 DEF NameTrue
      <4>2. x # {}
        BY <4>1, LabelsAssumption DEF TypeOK
      <4>3. i \notin log[p + 1].ids
        BY <1>3, <2>1, <2>2, <4>1, <4>2 DEF Resolve
      <4>4. i \in tagged[m] \/ LaterOn(m, i, p + 1)
        BY <4>1, <4>3, NextOrLater
      <4> QED  BY <4>1, <4>4 DEF NameTrue
    <3> QED  BY <2>1, <2>2, <3>1 DEF HeaderTrue
  <2>3. ASSUME NEW i \in tagged[m]
        PROVE  LabelThere(m, i, h, p + 1)
    <3>1. i \in Ids /\ named[i] \in ever[i]
      BY DEF TypeOK, NamesInv
    <3>2. CASE \E j \in log[p + 1].ids : named[i] \in ever[j]
      <4>1. LaterOn(m, i, p + 1)
        BY <1>5, <3>1, <3>2 DEF RecordTrue
      <4> QED  BY <3>1, <4>1 DEF LabelThere, LaterNamed
    <3>3. CASE \A j \in log[p + 1].ids : named[i] \notin ever[j]
      <4>1. LaterNamed(m, named[i], p) => LaterNamed(m, named[i], p + 1)
        BY <3>3, NextOrLater DEF LaterNamed
      <4>2. named[i] \notin N
        <5>1. ASSUME NEW j \in log[p + 1].ids PROVE Resolve(dict, j) # named[i]
          <6>1. named[i] # {j}
            <7>1. named[i] \in NamePool
              BY <3>1 DEF TypeOK
            <7> QED  BY <1>2, <7>1, LabelsAssumption
          <6> QED  BY <1>2, <3>3, <6>1, Resolving
        <5> QED  BY <5>1 DEF N
      <4>3. ASSUME NEW j \in Ids, named[i] \in ever[j]
            PROVE  {j} \notin N
        <5>1. ASSUME NEW k \in log[p + 1].ids PROVE Resolve(dict, k) # {j}
          <6>1. CASE Resolve(dict, k) = {k}
            BY <3>3, <4>3, <6>1
          <6>2. CASE Resolve(dict, k) \in ever[k]
            <7>1. Resolve(dict, k) \in NamePool
              BY <1>2, <6>2 DEF TypeOK
            <7> QED  BY <7>1, LabelsAssumption
          <6> QED  BY <1>2, <6>1, <6>2, Resolving
        <5> QED  BY <5>1 DEF N
      <4> QED  BY <2>1, <4>1, <4>2, <4>3 DEF HeaderTrue, LabelThere
    <3> QED  BY <3>2, <3>3
  <2> QED  BY <2>2, <2>3 DEF HeaderTrue, N
<1> QED  BY <1>2, <1>4, <1>5

-----------------------------------------------------------------------------
(* Steps that leave the mailbox and the dictionary as they are.            *)
LEMMA StillTrue ==
    ASSUME UNCHANGED <<gmail, dict>>
    PROVE  /\ Plain' <=> Plain
           /\ NamesInv' <=> NamesInv
           /\ RecordsInv' <=> RecordsInv
           /\ \A c, S, p : Due(c, S, p)' <=> Due(c, S, p)
           /\ \A m, h, p : HeaderTrue(m, h, p)' <=> HeaderTrue(m, h, p)
<1>1. (Plain' <=> Plain) /\ (NamesInv' <=> NamesInv)
  BY DEF Plain, NamesInv, gmail
<1>2. RecordsInv' <=> RecordsInv
  BY DEF RecordsInv, RecordTrue, LaterOn, gmail
<1>3. \A c, S, p : Due(c, S, p)' <=> Due(c, S, p)
  BY DEF Due, Fresh, LaterOn, gmail
<1>4. \A m, h, p : HeaderTrue(m, h, p)' <=> HeaderTrue(m, h, p)
  BY DEF HeaderTrue, NameTrue, LabelThere, LaterNamed, LaterOn, gmail
<1> QED  BY <1>1, <1>2, <1>3, <1>4

(* One call goes on, the others are what they were.                        *)
LEMMA CallsKept ==
    ASSUME CallsInv, UNCHANGED <<gmail, dict, pos, stage>>, raw \subseteq raw',
           NEW w \in Workers, \A v \in Workers \ {w} : call'[v] = call[v],
           CallInv(call[w])'
    PROVE  CallsInv'
<1> SUFFICES ASSUME NEW v \in Workers \ {w} PROVE CallInv(call[v])'
  BY DEF CallsInv
<1>1. CallInv(call[v]) /\ call'[v] = call[v]
  BY DEF CallsInv
<1>2. PICK c : c = call[v]
  OBVIOUS
<1>3. CallInv(c)'
  BY <1>1, <1>2, StillTrue DEF CallInv, gmail
<1> QED  BY <1>1, <1>2, <1>3

(* A call that has its names.                                              *)
LEMMA ResolvedTrue ==
    ASSUME TypeOK, NEW w \in Workers, call[w].pc \in Asks, UNCHANGED <<gmail, pos, stage>>,
           Resolved(w, dict'), CallInv(call[w])
    PROVE  CallInv(call[w])'
<1>1. PICK c : c = [pc |-> "write", msg |-> call[w].msg, op |-> call[w].op,
                    names |-> {Resolve(dict', i) : i \in call[w].ids}]
  OBVIOUS
<1>2. call'[w] = c
  BY <1>1 DEF Resolved, TypeOK
<1>3. PICK S : S = call[w].ids
  OBVIOUS
<1>4. Due(call[w], S, pos) /\ S \in SUBSET Ids /\ call[w] # NoCall
  BY <1>3, CallTypes DEF CallInv, Asks
<1>5. Due(c, S, pos)'
  BY <1>1, <1>4 DEF Due, Fresh, LaterOn, gmail
<1>6. c.pc = "write" /\ c.names = {Resolve(dict', i) : i \in S}
  BY <1>1, <1>3
<1>7. Unknown(dict', S) \subseteq raw'
  BY <1>3 DEF Resolved
<1>8. stage' = "history" => c.msg = log'[pos' + 1].msg
  BY <1>1, <1>4 DEF CallInv, gmail
<1>9. CallInv(c)'
  BY <1>4, <1>5, <1>6, <1>7, <1>8 DEF CallInv, Asks
<1> QED  BY <1>2, <1>9
-----------------------------------------------------------------------------
(* A step of one call that changes neither mailbox, dictionary nor files.  *)
LEMMA CallStep ==
    ASSUME Inv, SyncInv, UNCHANGED <<gmail, dict, file, header, pos, stage, failed>>,
           raw \subseteq raw', NEW w \in Workers, \A v \in Workers \ {w} : call'[v] = call[v],
           Plain /\ CallsInv => CallInv(call[w])'
    PROVE  SyncInv'
<1> SUFFICES ASSUME Plain' PROVE (NamesInv /\ RecordsInv /\ CallsInv /\ HeadersInv)'
  BY DEF SyncInv
<1>1. Plain /\ NamesInv /\ RecordsInv /\ CallsInv /\ HeadersInv
  BY StillTrue DEF SyncInv
<1>2. CallsInv'
  BY <1>1, CallsKept
<1>3. HeadersInv'
  <2> SUFFICES ASSUME NEW m \in file \ failed PROVE HeaderTrue(m, header[m], pos)'
    BY DEF HeadersInv
  <2>1. PICK h, p : h = header[m] /\ p = pos
    OBVIOUS
  <2>2. HeaderTrue(m, h, p)'
    BY <1>1, <2>1, StillTrue DEF HeadersInv
  <2> QED  BY <2>1, <2>2
<1> QED  BY <1>1, <1>2, <1>3, StillTrue

LEMMA LookupTrue ==
    ASSUME Inv, SyncInv, NEW w \in Workers, Lookup(w) \/ Lock(w) \/ LookupAgain(w)
    PROVE  SyncInv'
<1>1. /\ UNCHANGED <<gmail, dict, file, header, pos, stage, failed>>
      /\ call[w].pc \in Asks /\ TypeOK
  BY DEF Lookup, Lock, LookupAgain, At, Asks, disk, ghost, Inv
<1>2. CASE Resolved(w, dict)
  <2>1. raw \subseteq raw' /\ \A v \in Workers \ {w} : call'[v] = call[v]
    BY <1>1, <1>2, ResolvedCall DEF Inv, TypeOK
  <2>2. Resolved(w, dict')
    BY <1>1, <1>2
  <2>3. CallsInv => CallInv(call[w])'
    BY <1>1, <2>2, ResolvedTrue DEF CallsInv
  <2> QED  BY <1>1, <2>1, <2>3, CallStep
<1>3. ASSUME NEW q \in Asks, Goto(w, q), raw' = raw
      PROVE  SyncInv'
  <2>1. PICK c : c = [call[w] EXCEPT !.pc = q]
    OBVIOUS
  <2>2. call' = [call EXCEPT ![w] = c] /\ call \in [Workers -> Calls] /\ call[w] \in Calls
    BY <1>1, <1>3, <2>1 DEF Goto, TypeOK
  <2>3. /\ c.pc = q /\ c.op = call[w].op /\ c.ids = call[w].ids /\ c.msg = call[w].msg
        /\ call[w] # NoCall /\ c # NoCall
    BY <1>1, <2>1, <2>2 DEF Calls, NoCall, Asks
  <2>4. CallsInv => CallInv(c)'
    BY <1>1, <2>3 DEF CallsInv, CallInv, Due, Fresh, LaterOn, gmail, Asks
  <2>5. call'[w] = c /\ \A v \in Workers \ {w} : call'[v] = call[v]
    BY <2>2
  <2>6. CallsInv => CallInv(call[w])'
    BY <2>4, <2>5
  <2> QED  BY <1>1, <1>3, <2>5, <2>6, CallStep
<1> QED  BY <1>2, <1>3 DEF Lookup, Lock, LookupAgain, Asks, ghost

(* The refresh gives no label another name, and no id that was written     *)
(* gets one.                                                               *)
LEMMA RefreshTrue ==
    ASSUME Inv, SyncInv, NEW w \in Workers, Refresh(w)
    PROVE  SyncInv'
<1> SUFFICES ASSUME Plain' PROVE (NamesInv /\ RecordsInv /\ CallsInv /\ HeadersInv)'
  BY DEF SyncInv
<1>1. /\ UNCHANGED <<gmail, file, header, pos, stage, failed>>
      /\ call[w].pc = "refresh" /\ call[w].pc \in Asks /\ TypeOK
  BY DEF Refresh, At, Asks, Inv
<1>2. Plain /\ NamesInv /\ RecordsInv /\ CallsInv /\ HeadersInv
  BY <1>1 DEF SyncInv, Plain, gmail
<1>3. dict' = [i \in Ids |-> Upserted(i)] /\ Resolved(w, dict') /\ raw = {}
  BY <1>1 DEF Refresh, Inv, RefreshOnce, At
<1>4. \A i \in Ids : /\ dict[i] # {} => dict'[i] = dict[i]
                     /\ dict'[i] # {} => dict'[i] \in ever[i]
  BY <1>2, <1>3 DEF Upserted, NamesInv, Plain
<1>5. NamesInv' /\ RecordsInv'
  BY <1>1, <1>2, <1>4 DEF NamesInv, RecordsInv, RecordTrue, LaterOn, gmail
<1>6. CallsInv'
  <2>1. CallInv(call[w])'
    BY <1>1, <1>2, <1>3, ResolvedTrue DEF CallsInv
  <2>2. \A v \in Workers \ {w} : call'[v] = call[v]
    BY <1>3 DEF Resolved, Inv, TypeOK
  <2>3. ASSUME NEW v \in Workers \ {w} PROVE CallInv(call[v])'
    <3>1. PICK c : c = call[v]
      OBVIOUS
    <3>2. CallInv(c)
      BY <1>2, <3>1 DEF CallsInv
    <3>3. \A S, p : Due(c, S, p)' <=> Due(c, S, p)
      BY <1>1 DEF Due, Fresh, LaterOn, gmail
    <3>4. ASSUME NEW S \in SUBSET Ids, Unknown(dict, S) \subseteq raw
          PROVE  /\ {Resolve(dict, i) : i \in S} = {Resolve(dict', i) : i \in S}
                 /\ Unknown(dict', S) \subseteq raw'
      <4>1. \A i \in S : dict[i] # {} /\ dict'[i] = dict[i]
        BY <1>3, <1>4, <3>4 DEF Unknown
      <4> QED  BY <4>1 DEF Resolve, Unknown
    <3>5. c.pc = "write" => \E S \in SUBSET Ids :
             /\ c.names = {Resolve(dict', i) : i \in S}
             /\ Unknown(dict', S) \subseteq raw' /\ Due(c, S, pos)
      BY <3>2, <3>4 DEF CallInv
    <3>6. CallInv(c)'
      BY <1>1, <3>2, <3>3, <3>5 DEF CallInv, gmail
    <3> QED  BY <2>2, <3>1, <3>6
  <2> QED  BY <2>1, <2>3 DEF CallsInv
<1>7. HeadersInv'
  <2> SUFFICES ASSUME NEW m \in file \ failed PROVE HeaderTrue(m, header[m], pos)'
    BY <1>1 DEF HeadersInv
  <2>1. PICK h, p : h = header[m] /\ p = pos
    OBVIOUS
  <2>2. HeaderTrue(m, h, p)
    BY <1>2, <2>1 DEF HeadersInv
  <2>3. \A x : NameTrue(m, x, p) => NameTrue(m, x, p)'
    <3> SUFFICES ASSUME NEW x, NameTrue(m, x, p) PROVE NameTrue(m, x, p)'
      OBVIOUS
    <3>1. PICK i \in Ids : x \in ever[i] /\ dict[i] = x /\ (i \in tagged[m] \/ LaterOn(m, i, p))
      BY DEF NameTrue
    <3>2. x # {}
      BY <1>1, <3>1, LabelsAssumption DEF TypeOK
    <3>3. dict'[i] = x
      BY <1>4, <3>1, <3>2
    <3> QED  BY <1>1, <3>1, <3>3 DEF NameTrue, LaterOn, gmail
  <2>4. \A i : LabelThere(m, i, h, p) => LabelThere(m, i, h, p)'
    BY <1>1 DEF LabelThere, LaterNamed, LaterOn, gmail
  <2>5. HeaderTrue(m, h, p)'
    BY <1>1, <2>2, <2>3, <2>4 DEF HeaderTrue, gmail
  <2> QED  BY <1>1, <2>1, <2>5
<1> QED  BY <1>5, <1>6, <1>7

-----------------------------------------------------------------------------
LEMMA NoCallTrue == CallInv(NoCall) /\ CallInv(NoCall)'
  BY DEF CallInv, NoCall, Asks

(* The record that is passed over or applied is the next one.              *)
LEMMA NextRecord ==
    ASSUME TypeOK, pos < Len(log)
    PROVE  /\ pos \in Nat /\ pos + 1 \in DOMAIN log /\ log[pos + 1] \in Record
<1>1. pos \in Nat /\ Len(log) \in Nat /\ log \in Seq(Record)
  BY DEF TypeOK
<1>2. pos + 1 \in 1 .. Len(log)
  BY <1>1
<1> QED  BY <1>1, <1>2

(* A step that ends a call, other files as they were: a header is right up *)
(* to pos, or is that of the record gone through.                          *)
LEMMA EndCall ==
    ASSUME Inv, SyncInv, Plain, UNCHANGED <<gmail, dict, raw, stage>>,
           NEW w \in Workers, call' = [call EXCEPT ![w] = NoCall], call[w] # NoCall,
           pos' = pos \/ (stage = "history" /\ pos' = pos + 1),
           file' \ {call[w].msg} \subseteq file, failed \subseteq failed',
           \A m \in Msgs \ {call[w].msg} : header'[m] = header[m],
           call[w].msg \in file' \ failed' =>
               HeaderTrue(call[w].msg, header'[call[w].msg], pos')
    PROVE  SyncInv'
<1> SUFFICES (NamesInv /\ RecordsInv /\ CallsInv /\ HeadersInv)'
  BY DEF SyncInv
<1>1. TypeOK /\ NamesInv /\ RecordsInv /\ CallsInv /\ HeadersInv
  BY DEF SyncInv, Inv
<1>2. \A v \in Workers \ {w} : call'[v] = call[v]
  BY <1>1 DEF TypeOK
<1>3. call'[w] = NoCall
  BY <1>1 DEF TypeOK
<1>4. stage = "history" => /\ pos < Len(log) /\ \A v \in Workers \ {w} : call[v] = NoCall
                           /\ call[w].msg = log[pos + 1].msg
  BY <1>1 DEF Inv, Serial, CallsInv, CallInv
<1>5. CallsInv'
  <2>1. CASE pos' = pos
    <3>1. CallInv(call[w])'
      BY <1>3, NoCallTrue
    <3> QED  BY <1>1, <1>2, <2>1, <3>1, CallsKept
  <2>2. CASE stage = "history"
    BY <1>2, <1>3, <1>4, <2>2, NoCallTrue DEF CallsInv
  <2> QED  BY <2>1, <2>2
<1>6. HeadersInv'
  <2> SUFFICES ASSUME NEW m \in (file \ failed)' PROVE HeaderTrue(m, header[m], pos)'
    BY DEF HeadersInv
  <2>1. PICK h, p : h = header'[m] /\ p = pos'
    OBVIOUS
  <2>2. HeaderTrue(m, h, p)
    <3>1. CASE m = call[w].msg
      BY <2>1, <3>1
    <3>2. CASE m # call[w].msg
      <4>1. m \in file \ failed /\ header'[m] = header[m]
        BY <1>1, <3>2 DEF TypeOK
      <4>2. HeaderTrue(m, h, pos)
        BY <1>1, <2>1, <4>1 DEF HeadersInv
      <4>3. CASE pos' = pos
        BY <2>1, <4>2, <4>3
      <4>4. CASE stage = "history" /\ pos' = pos + 1
        BY <1>1, <1>4, <2>1, <3>2, <4>2, <4>4, HeaderUp, NextRecord
      <4> QED  BY <4>3, <4>4
    <3> QED  BY <3>1, <3>2
  <2> QED  BY <2>1, <2>2, StillTrue
<1> QED  BY <1>1, <1>5, <1>6, StillTrue

LEMMA RefreshFailsTrue ==
    ASSUME Inv, SyncInv, NEW w \in Workers, RefreshFails(w)
    PROVE  SyncInv'
<1>1. /\ UNCHANGED <<gmail, dict, file, header, raw, stage>>
      /\ call' = [call EXCEPT ![w] = NoCall]
      /\ failed \subseteq failed'
      /\ pos' = pos \/ (stage = "history" /\ pos' = pos + 1)
      /\ stage = "history" => call[w].msg \in failed'
      /\ stage # "history" => pos' = pos /\ failed' = failed
  BY DEF RefreshFails, disk
<1>2. call[w].pc = "refresh" /\ call[w] # NoCall /\ TypeOK
  BY CallTypes DEF RefreshFails, At, Inv
<1> SUFFICES ASSUME Plain PROVE SyncInv'
  BY <1>1, StillTrue DEF SyncInv
<1>3. call[w].msg \in file' \ failed' => HeaderTrue(call[w].msg, header'[call[w].msg], pos')
  BY <1>1 DEF SyncInv, HeadersInv
<1> QED  BY <1>1, <1>2, <1>3, EndCall

(* The header of a download or of a record is right once it is written.    *)
LEMMA WriteTrue ==
    ASSUME Inv, SyncInv, NEW w \in Workers, Write(w)
    PROVE  SyncInv'
<1>1. UNCHANGED <<gmail, dict, raw, stage, failed>> /\ call' = [call EXCEPT ![w] = NoCall]
  BY DEF Write, ghost
<1> SUFFICES ASSUME Plain PROVE SyncInv'
  BY <1>1, StillTrue DEF SyncInv
<1>2. /\ TypeOK /\ call[w].pc = "write" /\ call[w] # NoCall
      /\ call[w].msg \in Msgs /\ call[w].op \in Ops
  BY CallTypes DEF Inv, Write, At
<1>3. /\ stage = "history" => pos < Len(log) /\ call[w].msg = log[pos + 1].msg
      /\ stage # "history" => call[w].op = "download"
  BY <1>2 DEF Inv, Serial, SyncInv, CallsInv, CallInv
<1>4. PICK S \in SUBSET Ids : /\ call[w].names = {Resolve(dict, i) : i \in S}
                              /\ Due(call[w], S, pos)
  BY <1>2 DEF SyncInv, CallsInv, CallInv
<1>5. CASE call[w].op = "download"
  <2>1. /\ header' = [header EXCEPT ![call[w].msg] = call[w].names]
        /\ file' = file \union {call[w].msg} /\ pos' = pos
    BY <1>5 DEF Write
  <2>2. HeaderTrue(call[w].msg, call[w].names, pos)
    BY <1>2, <1>4, <1>5, DownloadTrue DEF SyncInv, Due
  <2>3. /\ header'[call[w].msg] = call[w].names
        /\ \A m \in Msgs \ {call[w].msg} : header'[m] = header[m]
    BY <1>2, <2>1 DEF TypeOK
  <2>4. HeaderTrue(call[w].msg, header'[call[w].msg], pos')
    BY <2>1, <2>2, <2>3
  <2> QED  BY <1>1, <1>2, <2>1, <2>3, <2>4, EndCall
<1>6. CASE call[w].op # "download"
  <2> DEFINE D == Delta(call[w].msg, call[w].op, call[w].names)
  <2>1. header' = [header EXCEPT ![call[w].msg] = D] /\ file' = file /\ pos' = pos + 1
    BY <1>6 DEF Write
  <2>2. stage = "history" /\ S = log[pos + 1].ids /\ call[w].op = log[pos + 1].op
    BY <1>3, <1>4, <1>6 DEF Due
  <2>3. /\ header'[call[w].msg] = D
        /\ \A m \in Msgs \ {call[w].msg} : header'[m] = header[m]
    BY <1>2, <2>1 DEF TypeOK
  <2>4. ASSUME call[w].msg \in file \ failed
        PROVE  HeaderTrue(call[w].msg, D, pos + 1)
    <3>1. HeaderTrue(call[w].msg, header[call[w].msg], pos)
      BY <2>4 DEF SyncInv, HeadersInv
    <3>2. pos \in Nat /\ pos + 1 \in DOMAIN log
      BY <1>2, <1>3, <2>2, NextRecord
    <3>3. RecordTrue(pos + 1) /\ NamesInv
      BY <3>2 DEF SyncInv, RecordsInv
    <3> QED  BY <1>2, <1>3, <1>4, <2>2, <3>1, <3>2, <3>3, DeltaTrue
  <2>5. call[w].msg \in file' \ failed' => HeaderTrue(call[w].msg, header'[call[w].msg], pos')
    BY <1>1, <2>1, <2>3, <2>4
  <2> HIDE DEF D
  <2> QED  BY <1>1, <1>2, <2>1, <2>2, <2>3, <2>5, EndCall
<1> QED  BY <1>5, <1>6

(* A worker takes a message or a record: the labels are those of now.      *)
LEMMA TakeTrue ==
    ASSUME Inv, SyncInv, NEW w \in Workers,
           TakeRecord(w) \/ \E m \in Msgs : TakeDownload(w, m)
    PROVE  SyncInv'
<1>1. /\ UNCHANGED <<gmail, dict, file, header, pos, stage, failed>> /\ raw' = raw
      /\ call \in [Workers -> Calls]
  BY DEF TakeRecord, TakeDownload, disk, ghost, Inv, TypeOK
<1>2. ASSUME NEW m, NEW o, NEW S, Ask(w, m, o, S), Plain => Due([op |-> o, msg |-> m], S, pos),
             stage = "history" => m = log[pos + 1].msg
      PROVE  SyncInv'
  <2>1. PICK c : c = [pc |-> "lookup", msg |-> m, op |-> o, ids |-> S]
    OBVIOUS
  <2>2. call' = [call EXCEPT ![w] = c]
    BY <1>2, <2>1 DEF Ask
  <2>3. call'[w] = c /\ \A v \in Workers \ {w} : call'[v] = call[v]
    BY <1>1, <2>2
  <2>4. Plain => Due(c, c.ids, pos)'
    BY <1>1, <1>2, <2>1 DEF Due, Fresh, LaterOn, gmail
  <2>5. Plain => CallInv(c)'
    BY <1>1, <1>2, <2>1, <2>4 DEF CallInv, Asks, gmail
  <2>6. Plain => CallInv(call[w])'
    BY <2>3, <2>5
  <2> QED  BY <1>1, <2>3, <2>6, CallStep
<1>3. \A m : Fresh(m, tagged[m], pos)
  BY DEF Fresh
<1>4. ASSUME NEW m \in Msgs, TakeDownload(w, m) PROVE SyncInv'
  BY <1>2, <1>3, <1>4 DEF TakeDownload, Due
<1>5. CASE TakeRecord(w)
  <2>2. CASE Ask(w, log[pos + 1].msg, log[pos + 1].op, log[pos + 1].ids)
    <3>1. PICK o, m, S : o = log[pos + 1].op /\ m = log[pos + 1].msg /\ S = log[pos + 1].ids
      OBVIOUS
    <3>2. o # "download"
      <4>1. pos < Len(log) /\ TypeOK
        BY <1>5 DEF TakeRecord, Inv
      <4> QED  BY <3>1, <4>1, NextRecord DEF Record
    <3>3. Due([op |-> o, msg |-> m], S, pos)
      BY <3>1, <3>2 DEF Due
    <3> QED  BY <1>2, <2>2, <3>1, <3>3
  <2>3. CASE Ask(w, log[pos + 1].msg, "download", tagged[log[pos + 1].msg])
    <3>1. PICK m : m = log[pos + 1].msg
      OBVIOUS
    <3>2. Due([op |-> "download", msg |-> m], tagged[m], pos)
      BY <1>3 DEF Due
    <3> QED  BY <1>2, <2>3, <3>1, <3>2
  <2> QED  BY <1>5, <2>2, <2>3 DEF TakeRecord
<1> QED  BY <1>4, <1>5

(* The steps between the stages, and a kill: nobody is at work, and the    *)
(* replay may go back to the saved position.                               *)
LEMMA StageTrue ==
    ASSUME Inv, SyncInv, StartRun \/ StartHistory \/ EndRun \/ Save \/ Abort
    PROVE  SyncInv'
<1>1. /\ UNCHANGED <<gmail, dict, file, header, failed>>
      /\ \A w \in Workers : call'[w] = NoCall
      /\ pos' = pos \/ pos' = saved
  BY DEF StartRun, StartHistory, EndRun, Enter, Save, Abort, AllIdle, proc, disk, ghost
<1>2. TypeOK /\ pos \in Nat /\ pos' \in Nat /\ pos' <= pos
  BY <1>1 DEF Inv, TypeOK
<1> SUFFICES ASSUME Plain' PROVE (NamesInv /\ RecordsInv /\ CallsInv /\ HeadersInv)'
  BY DEF SyncInv
<1>3. NamesInv' /\ RecordsInv' /\ HeadersInv
  BY <1>1, StillTrue DEF SyncInv
<1>4. CallsInv'
  BY <1>1, NoCallTrue DEF CallsInv
<1>5. HeadersInv'
  <2> SUFFICES ASSUME NEW m \in file \ failed PROVE HeaderTrue(m, header[m], pos)'
    BY <1>1 DEF HeadersInv
  <2>1. PICK h, p : h = header[m] /\ p = pos'
    OBVIOUS
  <2>2. HeaderTrue(m, h, pos)
    BY <1>3, <2>1 DEF HeadersInv
  <2>3. HeaderTrue(m, h, p)
    BY <1>2, <2>1, <2>2, HeaderDown
  <2>4. HeaderTrue(m, h, p)'
    BY <1>1, <2>3, StillTrue
  <2> QED  BY <1>1, <2>1, <2>4
<1> QED  BY <1>3, <1>4, <1>5

-----------------------------------------------------------------------------
(* A user creates or deletes a label that no message has.                  *)
LEMMA LabelTrue ==
    ASSUME Inv, SyncInv, NEW i \in Ids, Delete(i) \/ \E n \in NamePool : Create(i, n)
    PROVE  SyncInv'
<1>1. UNCHANGED <<tagged, log, disk, proc, ghost>> /\ TypeOK
  BY DEF Delete, Create, Quiet, Inv
<1>2. \A j \in Ids : ever[j] \subseteq ever'[j] /\ (j # i => ever'[j] = ever[j])
  BY <1>1 DEF Delete, Create, TypeOK
<1> SUFFICES ASSUME Plain' PROVE (NamesInv /\ RecordsInv /\ CallsInv /\ HeadersInv)'
  BY DEF SyncInv
<1>3. NamesInv /\ RecordsInv /\ CallsInv /\ HeadersInv
  BY <1>2 DEF SyncInv, Plain
<1>4. \A m \in Msgs : i \notin tagged[m]
  BY <1>1, <1>3 DEF Delete, Create, NamesInv, TypeOK
<1>5. \A j \in Ids \ {i} : named'[j] = named[j]
  BY <1>1 DEF Delete, Create, TypeOK
<1>6. Delete(i) => ever' = ever
  BY DEF Delete
<1>7. ever' # ever => \A k \in DOMAIN log : i \notin log[k].ids
  BY <1>3, <1>6 DEF NamesInv, Create
<1>8. NamesInv'
  <2>1. CASE Delete(i)
    <3>1. ever' = ever /\ named' = [named EXCEPT ![i] = {}]
      BY <2>1 DEF Delete
    <3>2. named'[i] = {} /\ dict' = dict
      BY <1>1, <3>1 DEF TypeOK, disk
    <3> QED  BY <1>1, <1>3, <1>4, <1>5, <3>1, <3>2 DEF NamesInv, TypeOK
  <2>2. ASSUME NEW n \in NamePool, Create(i, n) PROVE NamesInv'
    <3>1. named'[i] = n /\ ever'[i] = {n} /\ dict' = dict /\ Free(n) /\ ever[i] = {} /\ n # {}
      BY <1>1, <2>2, LabelsAssumption DEF Create, TypeOK, disk
    <3>2. \A j \in Ids : named'[j] # {} => named'[j] \in ever'[j]
      BY <1>2, <1>3, <1>5, <3>1 DEF NamesInv
    <3>3. \A j \in Ids : dict'[j] # {} => dict'[j] \in ever'[j]
      BY <1>2, <1>3, <3>1 DEF NamesInv
    <3>4. \A j, k \in Ids : named'[j] = named'[k] => j = k \/ named'[j] = {}
      BY <1>3, <1>5, <3>1 DEF NamesInv, Free
    <3>5. \A m \in Msgs : \A j \in tagged'[m] : named'[j] # {}
      BY <1>1, <1>3, <1>4, <1>5 DEF NamesInv, TypeOK
    <3>6. \A k \in DOMAIN log' : \A j \in log'[k].ids : ever'[j] # {}
      <4> SUFFICES ASSUME NEW k \in DOMAIN log, NEW j \in log[k].ids PROVE ever'[j] # {}
        BY <1>1
      <4>1. log[k] \in Record
        BY <1>1 DEF TypeOK
      <4>2. j \in Ids /\ ever[j] # {}
        BY <1>3, <4>1 DEF NamesInv, Record
      <4> QED  BY <1>2, <4>2
    <3> QED  BY <3>2, <3>3, <3>4, <3>5, <3>6 DEF NamesInv
  <2> QED  BY <2>1, <2>2
<1>9. \A m, j, p : LaterOn(m, j, p)' <=> LaterOn(m, j, p)
  BY <1>1 DEF LaterOn
<1>10. RecordsInv'
  <2> SUFFICES ASSUME NEW k \in DOMAIN log PROVE RecordTrue(k)'
    BY <1>1 DEF RecordsInv
  <2>1. RecordTrue(k) /\ log[k] \in Record
    BY <1>1, <1>3 DEF RecordsInv, TypeOK
  <2>2. \A j \in log[k].ids : j \in Ids /\ ever'[j] = ever[j]
    BY <1>2, <1>7, <2>1 DEF Record
  <2>3. \A j \in tagged[log[k].msg] : j \in Ids /\ ever'[j] = ever[j]
    BY <1>1, <1>2, <1>4, <2>1 DEF TypeOK, Record
  <2>4. \A j : LaterOn(log[k].msg, j, k)' <=> LaterOn(log[k].msg, j, k)
    BY <1>1, <1>9
  <2>5. log'[k] = log[k] /\ tagged' = tagged
    BY <1>1
  <2> QED  BY <2>1, <2>2, <2>3, <2>4, <2>5 DEF RecordTrue
<1>11. CallsInv'
  <2> SUFFICES ASSUME NEW w \in Workers PROVE CallInv(call[w])'
    BY DEF CallsInv
  <2>1. PICK c : c = call[w]
    OBVIOUS
  <2>2. CallInv(c) /\ call'[w] = c
    BY <1>1, <1>3, <2>1 DEF CallsInv, proc
  <2>3. CallInv(c)'
    BY <1>1, <2>2 DEF CallInv, Due, Fresh, LaterOn, disk, proc, ghost
  <2> QED  BY <2>2, <2>3
<1>12. HeadersInv'
  <2> SUFFICES ASSUME NEW m \in file \ failed PROVE HeaderTrue(m, header[m], pos)'
    BY <1>1 DEF HeadersInv, disk, ghost
  <2>1. PICK h, p : h = header[m] /\ p = pos
    OBVIOUS
  <2>2. HeaderTrue(m, h, p) /\ m \in Msgs
    BY <1>1, <1>3, <2>1 DEF HeadersInv, TypeOK
  <2>3. \A x : NameTrue(m, x, p) => NameTrue(m, x, p)'
    BY <1>1, <1>2, <1>9 DEF NameTrue, disk
  <2>4. ASSUME NEW j \in tagged[m] PROVE LabelThere(m, j, h, p)'
    <3>1. j \in Ids /\ named'[j] = named[j]
      BY <1>1, <1>4, <1>5, <2>2 DEF TypeOK
    <3>2. LabelThere(m, j, h, p)
      BY <2>2 DEF HeaderTrue
    <3> QED  BY <1>2, <1>9, <3>1, <3>2 DEF LabelThere, LaterNamed
  <2>5. HeaderTrue(m, h, p)'
    BY <1>1, <2>2, <2>3, <2>4 DEF HeaderTrue
  <2> QED  BY <1>1, <2>1, <2>5 DEF disk, proc
<1> QED  BY <1>8, <1>10, <1>11, <1>12

(* After a rename names are no longer plain.                               *)
LEMMA RenameTrue ==
    ASSUME Inv, SyncInv, NEW i \in Ids, NEW n \in NamePool, Rename(i, n)
    PROVE  SyncInv'
<1>1. TypeOK /\ \A j \in Ids : ever[j] \subseteq ever'[j]
  BY DEF Inv, TypeOK, Rename
<1>2. n \in ever'[i] /\ named[i] # {} /\ named[i] # n
  BY DEF Inv, TypeOK, Rename, Free
<1>3. ASSUME Plain' PROVE FALSE
  <2>1. Plain
    BY <1>1, <1>3 DEF Plain
  <2>2. named[i] \in ever'[i]
    BY <1>1, <1>2, <2>1 DEF SyncInv, NamesInv
  <2> QED  BY <1>2, <1>3, <2>2 DEF Plain
<1> QED  BY <1>3 DEF SyncInv

-----------------------------------------------------------------------------
(* A label change of a message appends a record.                           *)
LEMMA Appended ==
    ASSUME TypeOK, NEW m, NEW o, NEW S, Changed(m, o, S)
    PROVE  /\ \A x, i, p : LaterOn(x, i, p) => LaterOn(x, i, p)'
           /\ \A i \in S, p \in 0 .. Len(log) : LaterOn(m, i, p)'
           /\ \A k \in DOMAIN log : k \in DOMAIN log' /\ log'[k] = log[k]
           /\ \A k \in DOMAIN log' : k \in DOMAIN log \/ k = Len(log) + 1
           /\ log'[Len(log) + 1] = [msg |-> m, op |-> o, ids |-> S]
           /\ DOMAIN log = 1 .. Len(log) /\ Len(log) \in Nat
<1>1. PICK r : r = [msg |-> m, op |-> o, ids |-> S]
  OBVIOUS
<1>2. log' = Append(log, r) /\ log \in Seq(Record)
  BY <1>1 DEF Changed, TypeOK
<1>3. /\ DOMAIN log = 1 .. Len(log) /\ Len(log) \in Nat
      /\ DOMAIN log' = 1 .. Len(log) + 1
      /\ log'[Len(log) + 1] = r
      /\ \A k \in 1 .. Len(log) : log'[k] = log[k]
  BY <1>2
<1>4. \A x, i, p : LaterOn(x, i, p) => LaterOn(x, i, p)'
  BY <1>3 DEF LaterOn
<1>5. ASSUME NEW i \in S, NEW p \in 0 .. Len(log) PROVE LaterOn(m, i, p)'
  <2>1. Len(log) + 1 \in DOMAIN log' /\ Len(log) + 1 > p
    BY <1>3
  <2>2. r.msg = m /\ i \in r.ids
    BY <1>1
  <2> QED  BY <1>3, <2>1, <2>2 DEF LaterOn
<1> QED  BY <1>1, <1>3, <1>4, <1>5

LEMMA ChangeTrue ==
    ASSUME Inv, SyncInv, NEW m \in Msgs, NEW S \in SUBSET Ids, Tag(m, S) \/ Untag(m, S)
    PROVE  SyncInv'
<1>1. /\ UNCHANGED <<named, ever, disk, proc, ghost>> /\ TypeOK
      /\ \E o \in {"add", "remove"} : Changed(m, o, S)
  BY DEF Tag, Untag, Changed, Quiet, Inv
<1> SUFFICES ASSUME Plain' PROVE (NamesInv /\ RecordsInv /\ CallsInv /\ HeadersInv)'
  BY DEF SyncInv
<1>2. Plain /\ NamesInv /\ RecordsInv /\ CallsInv /\ HeadersInv
  BY <1>1 DEF SyncInv, Plain
<1>3. PICK o : /\ Changed(m, o, S)
               /\ \/ o = "add" /\ Tag(m, S)
                  \/ o = "remove" /\ Untag(m, S)
  BY DEF Tag, Untag
<1>4. /\ \A x, i, p : LaterOn(x, i, p) => LaterOn(x, i, p)'
      /\ \A i \in S, p \in 0 .. Len(log) : LaterOn(m, i, p)'
      /\ \A k \in DOMAIN log : k \in DOMAIN log' /\ log'[k] = log[k]
      /\ \A k \in DOMAIN log' : k \in DOMAIN log \/ k = Len(log) + 1
      /\ DOMAIN log = 1 .. Len(log) /\ Len(log) \in Nat
  BY <1>1, <1>3, Appended
<1>5. log'[Len(log) + 1] = [msg |-> m, op |-> o, ids |-> S]
  BY <1>1, <1>3, Appended
<1>6. /\ \A x \in Msgs \ {m} : tagged'[x] = tagged[x]
      /\ o = "add" => tagged'[m] = tagged[m] \union S
      /\ o = "remove" => tagged'[m] = tagged[m] \ S
  BY <1>1, <1>3 DEF Tag, Untag, TypeOK
<1>7. \A i \in S : named[i] # {} /\ ever[i] # {}
  <2>1. \A i \in S : named[i] # {}
    BY <1>1, <1>2, <1>3 DEF Tag, Untag, NamesInv
  <2> QED  BY <1>2, <2>1 DEF NamesInv
<1>8. NamesInv'
  <2>1. \A x \in Msgs : \A i \in tagged'[x] : named'[i] # {}
    BY <1>1, <1>2, <1>3, <1>6, <1>7 DEF NamesInv
  <2>2. \A k \in DOMAIN log' : \A i \in log'[k].ids : ever'[i] # {}
    BY <1>1, <1>2, <1>4, <1>5, <1>7 DEF NamesInv
  <2> QED  BY <1>1, <1>2, <2>1, <2>2 DEF NamesInv, disk
\* A label that a message gets or loses is later on above every position.
<1>9. \A x \in Msgs, p \in 0 .. Len(log) :
          /\ \A i \in tagged[x] \ tagged'[x] : LaterOn(x, i, p)'
          /\ \A i \in tagged'[x] \ tagged[x] : LaterOn(x, i, p)'
  <2> SUFFICES ASSUME NEW x \in Msgs, NEW p \in 0 .. Len(log), NEW i,
                      i \in tagged[x] \ tagged'[x] \/ i \in tagged'[x] \ tagged[x]
               PROVE  LaterOn(x, i, p)'
    OBVIOUS
  <2>1. x = m /\ i \in S
    BY <1>3, <1>6
  <2>2. LaterOn(m, i, p)'
    BY <1>4, <2>1
  <2> QED  BY <2>1, <2>2
<1>10. RecordsInv'
  <2> SUFFICES ASSUME NEW k \in DOMAIN log' PROVE RecordTrue(k)'
    BY DEF RecordsInv
  <2>1. CASE k \in DOMAIN log
    <3>1. PICK r : r = log[k]
      OBVIOUS
    <3>2. RecordTrue(k) /\ log'[k] = r /\ r.msg \in Msgs /\ k \in 0 .. Len(log)
      <4>1. log[k] \in Record
        BY <1>1, <2>1 DEF TypeOK
      <4> QED  BY <1>2, <1>4, <2>1, <3>1, <4>1 DEF RecordsInv, Record
    <3>3. \A i : LaterOn(r.msg, i, k) => LaterOn(r.msg, i, k)'
      BY <1>4
    <3>4. r.op = "add" => \A i \in r.ids : i \in tagged'[r.msg] \/ LaterOn(r.msg, i, k)'
      BY <1>9, <3>1, <3>2, <3>3 DEF RecordTrue
    <3>5. r.op = "remove" => \A i \in r.ids, j \in tagged'[r.msg] :
              ever[i] \intersect ever[j] # {} => LaterOn(r.msg, j, k)'
      BY <1>9, <3>1, <3>2, <3>3 DEF RecordTrue
    <3>6. PICK x : x = r.msg
      OBVIOUS
    <3>7. x = log'[k].msg /\ \A i : LaterOn(x, i, k)' = LaterOn(log[k].msg, i, k)'
      BY <3>1, <3>2, <3>6 DEF LaterOn
    <3> QED  BY <1>1, <3>1, <3>2, <3>4, <3>5, <3>6, <3>7 DEF RecordTrue
  <2>2. CASE k = Len(log) + 1
    <3>1. PICK r : r = [msg |-> m, op |-> o, ids |-> S]
      OBVIOUS
    <3>2. log'[k] = r /\ r.msg = m /\ r.op = o /\ r.ids = S
      BY <1>5, <2>2, <3>1
    <3>3. o = "add" => \A i \in S : i \in tagged'[m]
      BY <1>6
    <3>4. o = "remove" => \A i \in S, j \in tagged'[m] : ever[i] \intersect ever[j] = {}
      <4> SUFFICES ASSUME o = "remove", NEW i \in S, NEW j \in tagged'[m],
                          ever[i] \intersect ever[j] # {}
                   PROVE  FALSE
        OBVIOUS
      <4>1. i \in tagged[m] /\ j \in tagged[m] /\ j \notin S
        BY <1>3, <1>6 DEF Untag
      <4>2. i \in Ids /\ j \in Ids
        BY <1>1, <4>1 DEF TypeOK
      <4>3. named[i] # {} /\ named[j] # {} /\ named[i] \in ever[i] /\ named[j] \in ever[j]
        BY <1>2, <4>1, <4>2 DEF NamesInv
      <4>4. named[i] = named[j]
        BY <1>2, <4>2, <4>3 DEF Plain
      <4> QED  BY <1>2, <4>1, <4>2, <4>3, <4>4 DEF NamesInv
    <3> QED  BY <1>1, <3>2, <3>3, <3>4 DEF RecordTrue
  <2> QED  BY <1>4, <2>1, <2>2
<1>11. pos \in 0 .. Len(log) /\ pos' = pos
  BY <1>1 DEF TypeOK, proc
<1>12. CallsInv'
  <2> SUFFICES ASSUME NEW w \in Workers PROVE CallInv(call[w])'
    BY DEF CallsInv
  <2>1. PICK c : c = call[w]
    OBVIOUS
  <2>2. CallInv(c) /\ call'[w] = c
    BY <1>1, <1>2, <2>1 DEF CallsInv, proc
  <2>3. CASE c = NoCall
    BY <2>2, <2>3, NoCallTrue
  <2>4. CASE c # NoCall
    <3>1. /\ c.op # "download" => stage = "history"
          /\ stage = "history" => pos < Len(log)
      BY <2>1, <2>4 DEF Inv, Serial
    <3>2. c.pc \in Asks \union {"write"} /\ c.msg \in Msgs
      <4>1. c \in Calls
        BY <1>1, <2>1 DEF TypeOK
      <4> QED  BY <2>4, <4>1 DEF Calls, Asks
    <3>3. stage = "history" => log'[pos + 1] = log[pos + 1]
      BY <1>1, <1>4, <3>1, NextRecord
    <3>4. ASSUME NEW T \in SUBSET Ids, Due(c, T, pos) PROVE Due(c, T, pos)'
      <4>1. PICK p : p = pos
        OBVIOUS
      <4>2. CASE c.op = "download"
        <5>1. \A i \in T \ tagged'[c.msg] : LaterOn(c.msg, i, p)'
          BY <1>4, <1>9, <1>11, <3>2, <3>4, <4>1, <4>2 DEF Due, Fresh
        <5>2. \A i \in tagged'[c.msg] \ T : LaterOn(c.msg, i, p)'
          BY <1>4, <1>9, <1>11, <3>2, <3>4, <4>1, <4>2 DEF Due, Fresh
        <5>3. Fresh(c.msg, T, p)'
          BY <5>1, <5>2 DEF Fresh
        <5>4. Due(c, T, p)'
          BY <4>2, <5>3 DEF Due
        <5> QED  BY <1>11, <4>1, <5>4
      <4>3. CASE c.op # "download"
        BY <1>11, <3>1, <3>3, <3>4, <4>3 DEF Due
      <4> QED  BY <4>2, <4>3
    <3>5. c.pc \in Asks => c.ids \in SUBSET Ids
      <4>1. c \in Calls
        BY <1>1, <2>1 DEF TypeOK
      <4> QED  BY <4>1 DEF Calls, NoCall, Asks
    <3>6. c.pc \in Asks => Due(c, c.ids, pos)'
      BY <2>2, <3>4, <3>5 DEF CallInv
    <3>7. c.pc = "write" => \E T \in SUBSET Ids :
              /\ c.names = {Resolve(dict, i) : i \in T}
              /\ Unknown(dict, T) \subseteq raw /\ Due(c, T, pos)'
      BY <2>2, <3>4 DEF CallInv
    <3>8. stage' = "history" => c.msg = log'[pos' + 1].msg
      BY <1>1, <1>11, <2>2, <2>4, <3>3 DEF CallInv, proc
    <3>9. dict' = dict /\ raw' = raw
      BY <1>1 DEF disk, ghost
    <3>10. CallInv(c)'
      BY <3>6, <3>7, <3>8, <3>9 DEF CallInv, Resolve, Unknown
    <3> QED  BY <2>2, <3>10
  <2> QED  BY <2>3, <2>4
<1>13. HeadersInv'
  <2> SUFFICES ASSUME NEW x \in file \ failed PROVE HeaderTrue(x, header[x], pos)'
    BY <1>1 DEF HeadersInv, disk, ghost
  <2>1. PICK h, p : h = header[x] /\ p = pos
    OBVIOUS
  <2>2. HeaderTrue(x, h, p) /\ x \in Msgs /\ p \in 0 .. Len(log)
    BY <1>1, <1>2, <1>11, <2>1 DEF HeadersInv, TypeOK
  <2>3. \A y : NameTrue(x, y, p) => NameTrue(x, y, p)'
    BY <1>1, <1>4, <1>9, <2>2 DEF NameTrue, disk
  <2>4. ASSUME NEW i \in tagged'[x] PROVE LabelThere(x, i, h, p)'
    <3>1. CASE i \in tagged[x]
      <4>1. LabelThere(x, i, h, p)
        BY <2>2, <3>1 DEF HeaderTrue
      <4>2. \A n : LaterNamed(x, n, p) => LaterNamed(x, n, p)'
        BY <1>1, <1>4 DEF LaterNamed
      <4>3. PICK n : n = named[i]
        OBVIOUS
      <4>4. LaterNamed(x, named[i], p) => LaterNamed(x, named[i], p)'
        <5>1. LaterNamed(x, n, p)' => LaterNamed(x, named[i], p)'
          BY <1>1, <4>3 DEF LaterNamed
        <5> QED  BY <4>2, <4>3, <5>1
      <4> QED  BY <1>1, <4>1, <4>4 DEF LabelThere
    <3>2. CASE i \notin tagged[x]
      <4>1. i \in S /\ i \in Ids /\ LaterOn(x, i, p)'
        BY <1>3, <1>6, <1>9, <2>2, <3>2
      <4>2. named[i] \in ever[i]
        BY <1>2, <1>7, <4>1 DEF NamesInv
      <4> QED  BY <1>1, <4>1, <4>2 DEF LabelThere, LaterNamed
    <3> QED  BY <3>1, <3>2
  <2>5. HeaderTrue(x, h, p)'
    BY <2>2, <2>3, <2>4 DEF HeaderTrue
  <2> QED  BY <1>1, <1>11, <2>1, <2>5 DEF disk
<1> QED  BY <1>8, <1>10, <1>12, <1>13

-----------------------------------------------------------------------------
LEMMA InitTrue == Init => SyncInv
<1> SUFFICES ASSUME Init PROVE SyncInv
  OBVIOUS
<1>1. TypeOK
  BY InitInv DEF Inv
<1>2. NamesInv
  BY <1>1 DEF Init, NamesInv, TypeOK
<1>3. RecordsInv /\ HeadersInv
  BY DEF Init, RecordsInv, HeadersInv
<1>4. CallsInv
  BY NoCallTrue DEF Init, CallsInv
<1> QED  BY <1>2, <1>3, <1>4 DEF SyncInv

LEMMA NextTrue == Inv /\ SyncInv /\ [Next]_vars => SyncInv'
<1> SUFFICES ASSUME Inv, SyncInv, [Next]_vars PROVE SyncInv'
  OBVIOUS
<1>1. CASE UNCHANGED vars
  <2>1. UNCHANGED <<gmail, dict, raw, stage, call, pos, file, header, failed>>
    BY <1>1 DEF vars, disk, proc, ghost
  <2>2. PICK w \in Workers : TRUE
    BY LabelsAssumption
  <2>3. CallsInv => CallInv(call[w])'
    BY <2>1, <2>2 DEF CallsInv, CallInv, Due, Fresh, LaterOn, gmail
  <2> QED  BY <2>1, <2>2, <2>3, CallStep
<1>2. CASE Gmail
  BY <1>2, LabelTrue, RenameTrue, ChangeTrue DEF Gmail
<1>3. CASE Sync \/ Abort
  <2>1. CASE ResolveArchivedLabels
    BY <2>1, LookupTrue, RefreshTrue, RefreshFailsTrue DEF ResolveArchivedLabels
  <2>2. CASE StartRun \/ StartHistory \/ EndRun \/ Save \/ Abort
    BY <2>2, StageTrue
  <2>3. ASSUME NEW w \in Workers,
               Write(w) \/ TakeRecord(w) \/ \E m \in Msgs : TakeDownload(w, m)
        PROVE  SyncInv'
    BY <2>3, WriteTrue, TakeTrue
  <2> QED  BY <1>3, <2>1, <2>2, <2>3 DEF Sync
<1> QED  BY <1>1, <1>2, <1>3 DEF Next

(* With all records applied nothing is to come, and a header that names    *)
(* labels names those of the message.                                      *)
LEMMA SyncInSync == Inv /\ SyncInv => HeaderInSync
<1> SUFFICES ASSUME Inv, SyncInv, Plain, NEW m \in Msgs \ failed, Settled(m), RawIds(m) = {}
             PROVE  Read(m) = {named[i] : i \in tagged[m]}
  BY DEF HeaderInSync
<1>1. TypeOK /\ NamesInv /\ HeaderTrue(m, header[m], pos) /\ pos = Len(log)
  BY DEF Inv, SyncInv, HeadersInv, Settled
<1>2. Read(m) = header[m]
  BY <1>1, ReadBack DEF TypeOK
<1>3. \A i : ~LaterOn(m, i, pos)
  <2>1. DOMAIN log = 1 .. Len(log) /\ Len(log) \in Nat
    BY <1>1 DEF TypeOK
  <2> QED  BY <1>1, <2>1 DEF LaterOn
<1>4. \A i \in Ids : {i} \notin header[m]
  BY DEF RawIds
<1>5. tagged[m] \subseteq Ids
  BY <1>1 DEF TypeOK
<1>6. ASSUME NEW x \in header[m] PROVE \E i \in tagged[m] : x = named[i]
  <2>1. PICK i \in tagged[m] : x \in ever[i]
    BY <1>1, <1>3, <1>4 DEF HeaderTrue, NameTrue
  <2>2. named[i] \in ever[i]
    BY <1>1, <1>5, <2>1 DEF NamesInv
  <2> QED  BY <1>5, <2>1, <2>2 DEF Plain
<1>7. ASSUME NEW i \in tagged[m] PROVE named[i] \in header[m]
  BY <1>1, <1>3, <1>4, <1>7 DEF HeaderTrue, LabelThere, LaterNamed
<1> QED  BY <1>2, <1>6, <1>7

-----------------------------------------------------------------------------
(* Every behaviour of Labels is type correct, whatever users do to labels  *)
(* and however many workers look names up.                                 *)
THEOREM TypeCorrect == Spec => []TypeOK
<1>1. Inv => TypeOK
  BY DEF Inv
<1> QED  BY <1>1, SpecInv, PTL

(* labelsRefreshMu is held by nobody but the worker that looks up again or *)
(* refreshes, and is released on every way out (message_sync.go:374-388).  *)
THEOREM LockHeldTheorem == Spec => []LockHeld
<1>1. Inv => LockHeld
  BY DEF Inv
<1> QED  BY <1>1, SpecInv, PTL

(* An id that was written in place of a name stays unknown for the stage:  *)
(* no two workers refresh the dictionary, and none does so after another   *)
(* has given up on an id (message_sync.go:374-391).                        *)
THEOREM RawToTheEndTheorem == Spec => []RawToTheEnd
<1>1. Inv => RawToTheEnd
  BY DEF Inv
<1> QED  BY <1>1, SpecInv, PTL

(* Once every record is applied, headers name the labels of their messages *)
(* and no others, whatever was downloaded from the future of the log,      *)
(* killed and applied again in between, and however the workers' lookups   *)
(* interleaved with the one refresh, where names are plain, no id stands   *)
(* for a name and no change of the message was passed over                 *)
(* (message_sync.go:365, history_sync.go:435).                             *)
THEOREM HeaderInSyncTheorem == Spec => []HeaderInSync
<1>1. Init => Inv /\ SyncInv
  BY InitInv, InitTrue
<1>2. (Inv /\ SyncInv) /\ [Next]_vars => (Inv /\ SyncInv)'
  BY NextInv, NextTrue
<1>3. Inv /\ SyncInv => HeaderInSync
  BY SyncInSync
<1> QED  BY <1>1, <1>2, <1>3, PTL DEF Spec
=============================================================================
