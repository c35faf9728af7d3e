------------------------------- MODULE Labels -------------------------------
(***************************************************************************)
(* Label names.  Gmail's history speaks of label ids, the X-Keywords       *)
(* headers of the maildir of names.  The dictionary gmail_labels           *)
(* (labels_sql.go) maps one to the other; it is refreshed from GetLabels   *)
(* at most once in each of the stages Downloading-Archived and History,    *)
(* when an id is not in it (resolveArchivedLabels), and an id that is      *)
(* still unknown stands for itself.  A label change reads the names back   *)
(* from the header (maildir_labels.go) and applies the delta by name.      *)
(*                                                                         *)
(* A name is the set of its parts between commas, because that is what is  *)
(* read back from a header; a name without a comma has one part.           *)
(***************************************************************************)
EXTENDS Naturals, Sequences

CONSTANTS
    Msgs,       \* message ids
    Ids,        \* label ids; Gmail never reuses one
    NamePool,   \* names users give to labels, as sets of parts
    Workers,    \* goroutines of Downloading-Archived
    NoWorker,
    MaxChanges, \* bound: label changes of messages
    MayFail     \* whether GetLabels may fail

ASSUME LabelsAssumption ==
    /\ \A n \in NamePool : n # {} /\ n \intersect Ids = {}
    /\ NoWorker \notin Workers /\ Workers # {}
    /\ MaxChanges \in Nat
    /\ MayFail \in BOOLEAN

VARIABLES
    named,      \* external: the name of each label, {} if it does not exist
    ever,       \* external: all names a label has had
    tagged,     \* external: the labels of each message
    log,        \* external: labelsAdded and labelsRemoved records
    dict,       \* gmail_labels: id to name, {} where there is no row
    file,       \* messages that have a file
    header,     \* the X-Keywords lines of each file, a set of names
    saved,      \* records behind the durable cursor
    stage,      \* "idle", "archive", "history"
    refreshed,  \* labelsRefreshedOnMiss
    lock,       \* who holds labelsRefreshMu
    call,       \* what each worker is resolving labels for
    pos,        \* records applied
    raw,        \* ghost: ids that were resolved to themselves in this stage
    failed      \* ghost: messages a label change of which was passed over

gmail == <<named, ever, tagged, log>>
disk  == <<dict, file, header, saved>>
proc  == <<stage, refreshed, lock, call, pos>>
ghost == <<raw, failed>>
vars  == <<gmail, disk, proc, ghost>>

Names == NamePool \union {{i} : i \in Ids}
Record == [msg : Msgs, op : {"add", "remove"}, ids : SUBSET Ids]

NoCall == [pc |-> "idle"]
Calls == {NoCall} \union
    [pc : {"lookup", "lock", "again", "refresh"}, msg : Msgs,
     op : {"download", "add", "remove"}, ids : SUBSET Ids] \union
    [pc : {"write"}, msg : Msgs,
     op : {"download", "add", "remove"}, names : SUBSET SUBSET UNION Names]

TypeOK ==
    /\ named \in [Ids -> NamePool \union {{}}]
    /\ ever \in [Ids -> SUBSET NamePool]
    /\ tagged \in [Msgs -> SUBSET Ids]
    /\ log \in Seq(Record)
    /\ dict \in [Ids -> NamePool \union {{}}]
    /\ file \subseteq Msgs
    /\ header \in [Msgs -> SUBSET SUBSET UNION Names]
    /\ saved \in 0 .. pos /\ pos \in 0 .. Len(log)
    /\ stage \in {"idle", "archive", "history"}
    /\ refreshed \in BOOLEAN
    /\ lock \in Workers \union {NoWorker}
    /\ call \in [Workers -> Calls]
    /\ raw \subseteq Ids /\ failed \subseteq Msgs

-----------------------------------------------------------------------------
Init ==
    /\ named \in [Ids -> NamePool \union {{}}]
    /\ \A i, j \in Ids : named[i] = named[j] => i = j \/ named[i] = {}
    /\ ever = [i \in Ids |-> {named[i]} \ {{}}]
    /\ tagged = [m \in Msgs |-> {}]
    /\ log = <<>>
    /\ dict = [i \in Ids |-> {}]
    /\ file = {} /\ header = [m \in Msgs |-> {}] /\ saved = 0
    /\ stage = "idle" /\ refreshed = FALSE /\ lock = NoWorker
    /\ call = [w \in Workers |-> NoCall] /\ pos = 0
    /\ raw = {} /\ failed = {}

-----------------------------------------------------------------------------
(* The lookup in the dictionary                                            *)

(* resolveLabelName in a dictionary d, with the id itself where there is   *)
(* no row.                                                                 *)
Resolve(d, i) == IF d[i] = {} THEN {i} ELSE d[i]

Unknown(d, S) == {i \in S : d[i] = {}}

(* The call has its names: the caller goes on to write the header.         *)
Resolved(w, d) ==
    /\ call' = [call EXCEPT ![w] =
            [pc |-> "write", msg |-> @.msg, op |-> @.op,
             names |-> {Resolve(d, i) : i \in @.ids}]]
    /\ raw' = raw \union Unknown(d, call[w].ids)

At(w, pc) == call[w].pc = pc
Goto(w, pc) == call' = [call EXCEPT ![w].pc = pc]

(* The first lookup, without the lock.                                     *)
Lookup(w) ==
    /\ At(w, "lookup")
    /\ IF Unknown(dict, call[w].ids) = {} THEN Resolved(w, dict)
       ELSE Goto(w, "lock") /\ UNCHANGED raw
    /\ UNCHANGED <<gmail, disk, stage, refreshed, lock, pos, failed>>

Lock(w) ==
    /\ At(w, "lock") /\ lock = NoWorker
    /\ lock' = w
    /\ Goto(w, "again")
    /\ UNCHANGED <<gmail, disk, stage, refreshed, pos, ghost>>

(* Mutant: the dictionary is refreshed when no id is known.                *)
AllMissing(w) == Unknown(dict, call[w].ids) = call[w].ids /\ ~refreshed

Miss(w) == Unknown(dict, call[w].ids) # {} /\ ~refreshed

(* The second lookup: another worker may have refreshed the dictionary.    *)
LookupAgain(w) ==
    /\ At(w, "again")
    /\ IF Miss(w)
       THEN Goto(w, "refresh") /\ UNCHANGED <<lock, raw>>
       ELSE Resolved(w, dict) /\ lock' = NoWorker
    /\ UNCHANGED <<gmail, disk, stage, refreshed, pos, failed>>

(* Mutant: rows of labels that Gmail no longer lists are deleted.          *)
Mirrored(i) == named[i]

(* upsertLabels never deletes a row.                                       *)
Upserted(i) == IF named[i] = {} THEN dict[i] ELSE named[i]

(* refreshLabelsInDB, and the third lookup.                                *)
Refresh(w) ==
    /\ At(w, "refresh")
    /\ dict' = [i \in Ids |-> Upserted(i)]
    /\ Resolved(w, [i \in Ids |-> Upserted(i)])
    /\ refreshed' = TRUE /\ lock' = NoWorker
    /\ UNCHANGED <<gmail, file, header, saved, stage, pos, failed>>

(* Mutant: an error returns without Unlock.                                *)
RefreshFailsLocked(w) ==
    /\ MayFail /\ At(w, "refresh")
    /\ call' = [call EXCEPT ![w] = NoCall]
    /\ IF stage = "history"
       THEN pos' = pos + 1 /\ failed' = failed \union {call[w].msg}
       ELSE UNCHANGED <<pos, failed>>
    /\ UNCHANGED <<gmail, disk, stage, refreshed, lock, raw>>

(* GetLabels fails: a download or a label change is passed over.           *)
RefreshFails(w) ==
    /\ MayFail /\ At(w, "refresh")
    /\ call' = [call EXCEPT ![w] = NoCall]
    /\ lock' = NoWorker
    /\ IF stage = "history"
       THEN pos' = pos + 1 /\ failed' = failed \union {call[w].msg}
       ELSE UNCHANGED <<pos, failed>>
    /\ UNCHANGED <<gmail, disk, stage, refreshed, raw>>

-----------------------------------------------------------------------------
(* The callers                                                             *)

AllIdle == \A w \in Workers : call[w] = NoCall

Ask(w, m, op, S) ==
    call' = [call EXCEPT ![w] = [pc |-> "lookup", msg |-> m, op |-> op, ids |-> S]]

InHand == {call[w].msg : w \in {v \in Workers : call[v] # NoCall}}

(* GetMetadata has the labels the message has now.                         *)
TakeDownload(w, m) ==
    /\ stage = "archive" /\ call[w] = NoCall
    /\ m \notin file \union InHand
    /\ Ask(w, m, "download", tagged[m])
    /\ UNCHANGED <<gmail, disk, stage, refreshed, lock, pos, ghost>>

(* History applies one record after the other; a message without a file is *)
(* downloaded first.                                                       *)
TakeRecord(w) ==
    /\ stage = "history" /\ AllIdle /\ pos < Len(log)
    /\ LET r == log[pos + 1]
       IN  IF r.msg \in file THEN Ask(w, r.msg, r.op, r.ids)
           ELSE Ask(w, r.msg, "download", tagged[r.msg])
    /\ UNCHANGED <<gmail, disk, stage, refreshed, lock, pos, ghost>>

(* readLabelsFromMaildirMessage                                            *)
Read(m) == {{p} : p \in UNION header[m]}

(* applyHeaderLabelDelta                                                   *)
Delta(m, op, names) ==
    IF op = "add" THEN Read(m) \union names ELSE Read(m) \ names

(* The file is delivered with the header.                                  *)
Write(w) ==
    /\ At(w, "write")
    /\ LET c == call[w]
       IN  IF c.op = "download"
           THEN /\ header' = [header EXCEPT ![c.msg] = c.names]
                /\ file' = file \union {c.msg}
                /\ UNCHANGED pos
           ELSE /\ header' = [header EXCEPT ![c.msg] = Delta(c.msg, c.op, c.names)]
                /\ pos' = pos + 1
                /\ UNCHANGED file
    /\ call' = [call EXCEPT ![w] = NoCall]
    /\ UNCHANGED <<gmail, dict, saved, stage, refreshed, lock, ghost>>

-----------------------------------------------------------------------------
(* Each stage has its own labelsRefreshedOnMiss.                           *)
Enter(s) ==
    /\ AllIdle
    /\ stage' = s /\ refreshed' = FALSE /\ raw' = {}
    /\ UNCHANGED <<gmail, dict, file, header, lock, call, pos, failed>>

StartRun == stage = "idle" /\ Enter("archive") /\ UNCHANGED saved
StartHistory == stage = "archive" /\ Enter("history") /\ UNCHANGED saved
EndRun == stage = "history" /\ Enter("idle") /\ saved' = pos

(* Mutant: the cursor of the whole response is saved.                      *)
SaveAhead ==
    /\ stage = "history" /\ AllIdle /\ saved < pos
    /\ saved' = Len(log)
    /\ UNCHANGED <<gmail, dict, file, header, proc, ghost>>

(* The cursor behind a page becomes durable.                               *)
Save ==
    /\ stage = "history" /\ AllIdle /\ saved < pos
    /\ saved' = pos
    /\ UNCHANGED <<gmail, dict, file, header, proc, ghost>>

(* The process is killed, or the run returns an error.                     *)
Abort ==
    /\ stage # "idle"
    /\ stage' = "idle" /\ refreshed' = FALSE /\ lock' = NoWorker
    /\ call' = [w \in Workers |-> NoCall] /\ pos' = saved
    /\ raw' = {}
    /\ UNCHANGED <<gmail, disk, failed>>

-----------------------------------------------------------------------------
(* What users do in Gmail                                                  *)

Quiet == UNCHANGED <<disk, proc, ghost>>

(* Two labels never have the same name at the same time.                   *)
Free(n) == \A i \in Ids : named[i] # n

Create(i, n) ==
    /\ ever[i] = {} /\ Free(n)
    /\ named' = [named EXCEPT ![i] = n] /\ ever' = [ever EXCEPT ![i] = {n}]
    /\ UNCHANGED <<tagged, log>> /\ Quiet

Rename(i, n) ==
    /\ named[i] # {} /\ Free(n)
    /\ named' = [named EXCEPT ![i] = n]
    /\ ever' = [ever EXCEPT ![i] = @ \union {n}]
    /\ UNCHANGED <<tagged, log>> /\ Quiet

(* A label can be deleted when no message has it any more.                 *)
Delete(i) ==
    /\ named[i] # {} /\ \A m \in Msgs : i \notin tagged[m]
    /\ named' = [named EXCEPT ![i] = {}]
    /\ UNCHANGED <<ever, tagged, log>> /\ Quiet

Changed(m, o, S) ==
    /\ Len(log) < MaxChanges
    /\ log' = Append(log, [msg |-> m, op |-> o, ids |-> S])
    /\ UNCHANGED <<named, ever>> /\ Quiet

Tag(m, S) ==
    /\ S # {} /\ \A i \in S : named[i] # {} /\ i \notin tagged[m]
    /\ tagged' = [tagged EXCEPT ![m] = @ \union S]
    /\ Changed(m, "add", S)

Untag(m, S) ==
    /\ S # {} /\ S \subseteq tagged[m]
    /\ tagged' = [tagged EXCEPT ![m] = @ \ S]
    /\ Changed(m, "remove", S)

-----------------------------------------------------------------------------
Gmail ==
    \/ \E i \in Ids, n \in NamePool : Create(i, n) \/ Rename(i, n)
    \/ \E i \in Ids : Delete(i)
    \/ \E m \in Msgs, S \in SUBSET Ids : Tag(m, S) \/ Untag(m, S)

ResolveArchivedLabels ==
    \E w \in Workers :
        Lookup(w) \/ Lock(w) \/ LookupAgain(w) \/ Refresh(w) \/ RefreshFails(w)

Sync ==
    \/ StartRun \/ StartHistory \/ EndRun \/ Save
    \/ \E w \in Workers : Write(w) \/ TakeRecord(w) \/ \E m \in Msgs : TakeDownload(w, m)
    \/ ResolveArchivedLabels

Next == Gmail \/ Sync \/ Abort

Spec == Init /\ [][Next]_vars

-----------------------------------------------------------------------------
(* Properties                                                              *)

Settled(m) == pos = Len(log) /\ m \in file /\ \A w \in Workers : call[w] = NoCall

RawIds(m) == {i \in Ids : {i} \in header[m]}

(* No label has been renamed or has a comma in its name.                   *)
Plain == \A i \in Ids : \A n, k \in ever[i] : n = k /\ \A p, q \in n : p = q

(* Once all records are applied, whatever was downloaded from their future *)
(* and applied a second time after a kill, the header names exactly the    *)
(* labels of the message, provided that names are plain and that no label  *)
(* was written as an id (message_sync.go:365, history_sync.go:435).        *)
(* Labels are created and deleted meanwhile.                               *)
HeaderInSync ==
    Plain => \A m \in Msgs \ failed : Settled(m) /\ RawIds(m) = {} =>
        Read(m) = {named[i] : i \in tagged[m]}

(* Within a stage a label that was once written as an id is written so to  *)
(* the end, because no later miss refreshes the dictionary: what the stage *)
(* adds to a header it also removes (labelsRefreshedOnMiss under           *)
(* labelsRefreshMu, message_sync.go:374-391).                              *)
RawToTheEnd == \A i \in raw : dict[i] = {}

(* labelsRefreshMu is held exactly by the one worker that looks up again   *)
(* or refreshes: no error returns with it locked, so that whoever waits    *)
(* for it gets it (message_sync.go:374-388).                               *)
Holds(w) == At(w, "again") \/ At(w, "refresh")

LockHeld == \A w \in Workers : lock = w <=> Holds(w)
=============================================================================
