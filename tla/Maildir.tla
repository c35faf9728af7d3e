------------------------------ MODULE Maildir ------------------------------
(***************************************************************************)
(* The maildir (lib/maildir/maildir.go) under the steps the History stage  *)
(* makes of it for one message: deliver through tmp, look up in new and    *)
(* then in cur, open, remove, rewrite.  Between any two system calls a     *)
(* mail client may move the file from new to cur, flag it or remove it,    *)
(* and the process may be killed.                                          *)
(***************************************************************************)
EXTENDS Naturals, Sequences, FiniteSets

CONSTANTS
    Flags,         \* suffixes a mail client gives to a file in cur
    MaxLog         \* bound: history records of the message

ASSUME MaildirAssumption ==
    /\ Flags # {} /\ "new" \notin Flags /\ "none" \notin Flags
    /\ MaxLog \in Nat \ {0}

VARIABLES
    log,      \* external: the records of the message, "add" first
    new,      \* the file new/<key>, {} if there is none
    cur,      \* the files cur/<key>:<flag>
    tmp,      \* the file tmp/<key>
    other,    \* the flag of another message's file in cur
    saved,    \* records behind the durable cursor
    pc,       \* the next system call, "idle" between two records
    goal,     \* what a lookup is for
    found,    \* the path it returned
    listed,   \* the names ReadDir has read from cur
    body,     \* the content in memory
    pos,      \* records gone through
    lost,     \* ghost: label changes that were passed over
    kept,     \* ghost: a delete was passed over
    did       \* ghost: what the mail client has done

disk == <<new, cur, tmp, saved>>
proc == <<pc, goal, found, listed, body, pos>>
ghost == <<lost, kept>>
vars == <<log, other, disk, proc, ghost, did>>

(* A file: the label changes that are in its header, and whether it has    *)
(* all of its bytes.                                                       *)
File == [labels : SUBSET (1 .. MaxLog), whole : BOOLEAN]

TypeOK ==
    /\ log \in Seq({"add", "labels", "delete"}) /\ Len(log) \in 1 .. MaxLog
    /\ new \subseteq File /\ Cardinality(new) <= 1
    /\ cur \in [Flags -> SUBSET File] /\ \A f \in Flags : Cardinality(cur[f]) <= 1
    /\ tmp \subseteq File /\ Cardinality(tmp) <= 1
    /\ other \in Flags
    /\ saved \in 0 .. pos /\ pos \in 0 .. Len(log)
    /\ pc \in {"idle", "stat", "list", "lstat", "open", "remove",
               "create", "write", "rename", "chtimes"}
    /\ goal \in {"none", "skip", "heal", "open", "reopen", "rewrite", "delete"}
    /\ found \in {"none", "new"} \union Flags
    /\ listed \in [mine : SUBSET Flags, other : Flags]
    /\ body \subseteq 1 .. MaxLog
    /\ lost \subseteq 1 .. MaxLog /\ kept \in BOOLEAN
    /\ did \subseteq {"move", "flag", "remove"}

Visible == new \union UNION {cur[f] : f \in Flags}

Live == log[Len(log)] # "delete"
Changes(n) == {i \in 1 .. n : log[i] = "labels"}

-----------------------------------------------------------------------------
Init ==
    /\ log = <<"add">>
    /\ new = {} /\ tmp = {} /\ cur = [f \in Flags |-> {}]
    /\ other \in Flags
    /\ saved = 0 /\ pos = 0
    /\ pc = "idle" /\ goal = "none" /\ found = "none"
    /\ listed = [mine |-> {}, other |-> other] /\ body = {}
    /\ lost = {} /\ kept = FALSE /\ did = {}

Disk == UNCHANGED <<log, other, disk, did>>

Look(g) ==
    /\ pc' = "stat" /\ goal' = g /\ found' = "none"
    /\ UNCHANGED <<listed, pos>>

Call(p) == pc' = p /\ UNCHANGED <<goal, listed, pos>>

(* The record is gone through; "lost" says what of it was passed over.     *)
Finish(L, k) ==
    /\ pc' = "idle" /\ goal' = "none" /\ found' = "none" /\ body' = {}
    /\ pos' = pos + 1
    /\ lost' = lost \union L /\ kept' = (kept \/ k)
    /\ UNCHANGED listed

Done == Finish({}, FALSE)
Dropped == Finish({pos + 1}, FALSE)

Begin ==
    /\ pc = "idle" /\ pos < Len(log)
    /\ Look(CASE log[pos + 1] = "add" -> "skip"
              [] log[pos + 1] = "labels" -> "open"
              [] log[pos + 1] = "delete" -> "delete")
    /\ Disk /\ UNCHANGED <<body, ghost>>

-----------------------------------------------------------------------------
(* GetFile                                                                 *)

(* A file that is there: an added message is skipped; one that has come    *)
(* back before the self-heal leaves its label change undone.               *)
Hit(f) ==
    \/ goal = "skip" /\ Done
    \/ goal = "heal" /\ Dropped
    \/ /\ goal \in {"open", "reopen", "rewrite", "delete"}
       /\ found' = f
       /\ Call(IF goal \in {"open", "reopen"} THEN "open" ELSE "remove")
       /\ UNCHANGED <<body, ghost>>

(* Mutant: a label change of a message without a file is passed over.      *)
MissWithoutHeal ==
    \/ /\ goal = "skip" /\ Live
       /\ body' = Changes(Len(log))
       /\ Call("create")
       /\ UNCHANGED <<found, ghost>>
    \/ goal = "skip" /\ ~Live /\ Done
    \/ goal \in {"open", "heal", "reopen", "rewrite"} /\ Dropped
    \/ goal = "delete" /\ Finish({}, Visible # {})

(* Mutant: a file is healed from the body alone, without its labels.       *)
MissFromScratch ==
    \/ /\ goal \in {"skip", "heal"} /\ Live
       /\ body' = {}
       /\ Call("create")
       /\ UNCHANGED <<found, ghost>>
    \/ goal \in {"skip", "heal"} /\ ~Live /\ Done
    \/ goal = "open" /\ Look("heal") /\ UNCHANGED <<body, ghost>>
    \/ goal \in {"reopen", "rewrite"} /\ Dropped
    \/ goal = "delete" /\ Finish({}, Visible # {})

(* No file, or an error: it is downloaded with the labels it has now, a    *)
(* message that is gone is left alone, a label change heals the file       *)
(* first, and a remove passes it over.                                     *)
Miss ==
    \/ /\ goal \in {"skip", "heal"} /\ Live
       /\ body' = Changes(Len(log))
       /\ Call("create")
       /\ UNCHANGED <<found, ghost>>
    \/ goal \in {"skip", "heal"} /\ ~Live /\ Done
    \/ goal = "open" /\ Look("heal") /\ UNCHANGED <<body, ghost>>
    \/ goal \in {"reopen", "rewrite"} /\ Dropped
    \/ goal = "delete" /\ Finish({}, Visible # {})

(* os.Stat of new/<key>                                                    *)
StatNew ==
    /\ pc = "stat"
    /\ IF new # {} THEN Hit("new") ELSE Call("list") /\ UNCHANGED <<found, body, ghost>>
    /\ Disk

(* ioutil.ReadDir of cur reads the names ...                               *)
ListCur ==
    /\ pc = "list"
    /\ listed' = [mine |-> {f \in Flags : cur[f] # {}}, other |-> other]
    /\ pc' = "lstat"
    /\ Disk /\ UNCHANGED <<goal, found, body, pos, ghost>>

(* ... and then asks for each of them, any message's, and fails when one   *)
(* is gone.                                                                *)
ListHolds == listed.other = other /\ \A f \in listed.mine : cur[f] # {}

LstatCur ==
    /\ pc = "lstat"
    /\ \/ ~ListHolds /\ Miss
       \/ ListHolds /\ listed.mine = {} /\ Miss
       \/ ListHolds /\ \E f \in listed.mine : Hit(f)
    /\ Disk

-----------------------------------------------------------------------------
At(f) == IF f = "new" THEN new ELSE cur[f]

(* getMaildirMessage; an open file can be read after it is removed.        *)
Open ==
    /\ pc = "open"
    /\ \/ At(found) = {} /\ Miss
       \/ \E f \in At(found) : body' = f.labels /\ Look("rewrite") /\ UNCHANGED ghost
    /\ Disk

(* Mutant: a rewrite relies on the delivery to replace the old file.       *)
RemoveNot ==
    /\ pc = "remove"
    /\ \/ At(found) = {} /\ Miss /\ UNCHANGED disk
       \/ /\ At(found) # {} /\ goal = "rewrite"
          /\ body' = body \union {pos + 1}
          /\ Call("create")
          /\ UNCHANGED <<found, ghost, disk>>
       \/ /\ At(found) # {} /\ goal = "delete"
          /\ new' = IF found = "new" THEN {} ELSE new
          /\ cur' = [f \in Flags |-> IF f = found THEN {} ELSE cur[f]]
          /\ Done
          /\ UNCHANGED <<tmp, saved>>
    /\ UNCHANGED <<log, other, did>>

(* Delete; a label change then delivers the message again.                 *)
Remove ==
    /\ pc = "remove"
    /\ \/ At(found) = {} /\ Miss /\ UNCHANGED disk
       \/ /\ At(found) # {}
          /\ new' = IF found = "new" THEN {} ELSE new
          /\ cur' = [f \in Flags |-> IF f = found THEN {} ELSE cur[f]]
          /\ \/ /\ goal = "rewrite"
                /\ body' = body \union {pos + 1}
                /\ Call("create")
                /\ UNCHANGED <<found, ghost>>
             \/ goal = "delete" /\ Done
          /\ UNCHANGED <<tmp, saved>>
    /\ UNCHANGED <<log, other, did>>

-----------------------------------------------------------------------------
(* deliverWithKey                                                          *)

Fresh(whole) == [labels |-> body, whole |-> whole]

Step(p) == Call(p) /\ UNCHANGED <<log, other, found, body, ghost, did>>

(* Mutant: the message is written in new.                                  *)
CreateInNew ==
    /\ pc = "create"
    /\ new' = {Fresh(FALSE)}
    /\ Step("write")
    /\ UNCHANGED <<cur, tmp, saved>>

(* os.Create truncates what an earlier run has left.                       *)
Create ==
    /\ pc = "create"
    /\ tmp' = {Fresh(FALSE)}
    /\ Step("write")
    /\ UNCHANGED <<new, cur, saved>>

WriteBody ==
    /\ pc = "write"
    /\ tmp' = {Fresh(TRUE)}
    /\ Step("rename")
    /\ UNCHANGED <<new, cur, saved>>

Rename ==
    /\ pc = "rename"
    /\ new' = tmp /\ tmp' = {}
    /\ Step("chtimes")
    /\ UNCHANGED <<cur, saved>>

(* applyMtimeFromHeaders only logs an error; the mtime is not modelled.    *)
(* After a self-heal the label change goes on with the delivered file.     *)
Chtimes ==
    /\ pc = "chtimes"
    /\ \/ goal \in {"skip", "rewrite"} /\ Finish({}, FALSE)
       \/ goal = "heal" /\ Look("reopen") /\ UNCHANGED <<body, ghost>>
    /\ UNCHANGED <<log, other, disk, did>>

-----------------------------------------------------------------------------
(* Mutant: the cursor is saved with a record that is still being applied.  *)
SaveAhead ==
    /\ pc # "idle" /\ saved = pos
    /\ saved' = pos + 1
    /\ UNCHANGED <<log, other, new, cur, tmp, proc, ghost, did>>

(* The cursor behind the records becomes durable in SQLite.                *)
Save ==
    /\ pc = "idle" /\ saved < pos
    /\ saved' = pos
    /\ UNCHANGED <<log, other, new, cur, tmp, proc, ghost, did>>

Kill ==
    /\ pc # "idle" \/ pos # saved
    /\ pc' = "idle" /\ goal' = "none" /\ found' = "none" /\ body' = {}
    /\ pos' = saved
    /\ UNCHANGED <<log, other, disk, listed, ghost, did>>

-----------------------------------------------------------------------------
(* Gmail and the mail client                                               *)

Record ==
    /\ Live /\ Len(log) < MaxLog
    /\ \E r \in {"labels", "delete"} : log' = Append(log, r)
    /\ UNCHANGED <<other, disk, proc, ghost, did>>

Does(what) ==
    /\ did' = did \union {what}
    /\ UNCHANGED <<log, tmp, saved, proc, ghost>>

MoveToCur ==
    /\ new # {}
    /\ \E f \in Flags : cur' = [cur EXCEPT ![f] = new]
    /\ new' = {}
    /\ Does("move") /\ UNCHANGED other

Flag(f, g) ==
    /\ cur[f] # {} /\ f # g
    /\ cur' = [cur EXCEPT ![f] = {}, ![g] = cur[f]]
    /\ Does("flag") /\ UNCHANGED <<other, new>>

FlagOther ==
    /\ \E f \in Flags \ {other} : other' = f
    /\ Does("flag") /\ UNCHANGED <<new, cur>>

RemoveFromCur(f) ==
    /\ cur[f] # {}
    /\ cur' = [cur EXCEPT ![f] = {}]
    /\ Does("remove") /\ UNCHANGED <<other, new>>

Client ==
    \/ MoveToCur \/ FlagOther
    \/ \E f \in Flags : RemoveFromCur(f) \/ \E g \in Flags : Flag(f, g)

GetFile == StatNew \/ ListCur \/ LstatCur
DeliverWithKey == Create \/ WriteBody \/ Rename \/ Chtimes

Sync == Begin \/ GetFile \/ Open \/ Remove \/ DeliverWithKey \/ Save

Next == Sync \/ Kill \/ Record \/ Client

Spec == Init /\ [][Next]_vars

-----------------------------------------------------------------------------
(* Properties                                                              *)

(* A mail client never sees half a message, wherever the process is killed *)
(* (maildir.go:70-94).                                                     *)
WholeFiles == \A f \in Visible : f.whole

(* The paths of the message in new and cur.                                *)
Paths == {f \in {"new"} \union Flags : At(f) # {}}

(* The message has one file at most, whichever directory it is in and      *)
(* however often it is delivered again (maildir.go:97-114), as long as no  *)
(* file is flagged: ReadDir fails when a name it has read is gone, and the *)
(* message is delivered beside the file that was not found.                *)
OneFile == "flag" \notin did => \A p, q \in Paths : p = q

(* A file holds the label changes of all records gone through that were    *)
(* not passed over, and none is there after a deletion: no kill between    *)
(* the remove and the deliver of a rewrite, and no move of the file by a   *)
(* mail client, brings back an older version.  Without a mail client       *)
(* nothing is passed over, wherever the process is killed                  *)
(* (history_sync.go:271-347).                                              *)
UpToDate ==
    "flag" \notin did /\ pc = "idle" /\ pos = Len(log) =>
        /\ \A f \in Visible : f.labels \union lost = Changes(pos) \union lost
        /\ Visible # {} => Live \/ kept
        /\ did = {} => lost = {} /\ ~kept

(* A message that exists has a file whenever all records are gone through, *)
(* wherever a rewrite or a delivery was cut off and whatever was flagged   *)
(* meanwhile, unless a mail client removes it (history_sync.go:301-347).   *)
HasFile ==
    "remove" \notin did /\ pc = "idle" /\ pos = Len(log) /\ Live => Visible # {}
=============================================================================
