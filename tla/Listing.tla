------------------------------ MODULE Listing ------------------------------
(***************************************************************************)
(* The Listing stage (lib/gmail/list_pages.go): store the ids of all       *)
(* messages, page by page from the newest to the oldest, each page and the *)
(* token of the next one in one SQLite transaction.  The process may die   *)
(* between any two steps, messages arrive and are deleted all the time,    *)
(* and the next run goes on from the stored token.                         *)
(***************************************************************************)
EXTENDS Naturals, FiniteSets

CONSTANTS
    MaxMsgs,    \* bound: messages 1..MaxMsgs, numbered in order of arrival
    Before,     \* the messages that have arrived when the model starts
    PageMax     \* messages on one page of GetMessages

ASSUME ListingAssumption ==
    /\ MaxMsgs \in Nat /\ Before \in 0 .. MaxMsgs
    /\ PageMax \in Nat \ {0}

VARIABLES
    arrived,    \* external: the newest message ever
    live,       \* external: messages that exist
    rows,       \* gmail_users_messages_list_response_messages
    responses,  \* number of rows in ..._list_responses
    chain,      \* nextPageToken of the latest ..._list_requests row, if any
    listDone,   \* sync_state sync.list.done, FALSE when absent or "0"
    listNext,   \* sync_state sync.list.next_page_token, if present
    pc,         \* "idle", "fetch", "store"
    token,      \* pageToken of the run, 0 when empty
    page,       \* the messages of the response in memory
    next,       \* its NextPageToken, 0 when empty
    first       \* ghost: the newest message when the first page was fetched

mail == <<arrived, live>>
db == <<rows, responses, chain, listDone, listNext>>
proc == <<pc, token, page, next>>
vars == <<mail, db, proc, first>>

Messages == 1 .. MaxMsgs

(* A token stands for the last message returned: the next page begins with *)
(* the newest message that is older.                                       *)
Tokens == 0 .. MaxMsgs

TypeOK ==
    /\ arrived \in 0 .. MaxMsgs /\ live \subseteq 1 .. arrived
    /\ rows \subseteq [resp : 1 .. responses, msg : Messages]
    /\ responses \in Nat
    /\ chain \subseteq Tokens /\ Cardinality(chain) <= 1
    /\ listDone \in BOOLEAN
    /\ listNext \subseteq Tokens /\ Cardinality(listNext) <= 1
    /\ pc \in {"idle", "fetch", "store"}
    /\ token \in Tokens /\ page \subseteq Messages /\ next \in Tokens
    /\ first \in 0 .. MaxMsgs

-----------------------------------------------------------------------------
(* What GetMessages answers                                                *)

Older(t) == {m \in live : t = 0 \/ m < t}

IsPage(P, t) ==
    /\ P \subseteq Older(t)
    /\ \A m \in P, k \in Older(t) \ P : m > k
    /\ Cardinality(P) <= PageMax
    /\ Cardinality(P) = PageMax \/ P = Older(t)

Oldest(P) == CHOOSE m \in P : \A k \in P : m <= k

TokenAfter(P, t) == IF P = Older(t) THEN 0 ELSE Oldest(P)

-----------------------------------------------------------------------------
(* A database of an earlier version of outtake has the requests but no     *)
(* sync_state.                                                             *)
Init ==
    /\ arrived = Before
    /\ live \in SUBSET (1 .. Before)
    /\ \/ rows = {} /\ responses = 0 /\ chain = {} /\ first = 0
       \/ \E P \in SUBSET live :
             /\ IsPage(P, 0)
             /\ rows = {[resp |-> 1, msg |-> m] : m \in P}
             /\ responses = 1 /\ chain = {TokenAfter(P, 0)} /\ first = Before
    /\ listDone = FALSE /\ listNext = {}
    /\ pc = "idle" /\ token = 0 /\ page = {} /\ next = 0

Stop == pc' = "idle" /\ token' = 0 /\ page' = {} /\ next' = 0

(* getResumePageToken: the token a run goes on with, {} to begin with the  *)
(* first page.                                                             *)
ResumeToken ==
    IF listDone THEN {0} ELSE IF listNext # {} THEN listNext ELSE chain

(* Mutant: the listing begins with the first page again.                   *)
StartOver ==
    /\ pc = "idle" /\ ResumeToken # {0}
    /\ pc' = "fetch"
    /\ token' = 0
    /\ UNCHANGED <<mail, db, page, next, first>>

(* An empty token to resume from means that the listing is complete.       *)
Start ==
    /\ pc = "idle" /\ ResumeToken # {0}
    /\ pc' = "fetch"
    /\ token' \in (IF ResumeToken = {} THEN {0} ELSE ResumeToken)
    /\ UNCHANGED <<mail, db, page, next, first>>

(* Mutant: a page without messages is an error.                            *)
FetchSome ==
    /\ pc = "fetch"
    /\ \E P \in SUBSET live : IsPage(P, token) /\ P # {} /\ page' = P
    /\ next' = TokenAfter(page', token)
    /\ first' = IF token = 0 THEN arrived ELSE first
    /\ pc' = "store"
    /\ UNCHANGED <<mail, db, token>>

Fetch ==
    /\ pc = "fetch"
    /\ \E P \in SUBSET live : IsPage(P, token) /\ page' = P
    /\ next' = TokenAfter(page', token)
    /\ first' = IF token = 0 THEN arrived ELSE first
    /\ pc' = "store"
    /\ UNCHANGED <<mail, db, token>>

(* Mutant: any request row, not the latest.                                *)
AnyRequest == chain \union {next}

(* The request row with the largest id has this nextPageToken.             *)
LatestRequest == {next}

(* One transaction: the request, the response, its messages and the        *)
(* sync_state.                                                             *)
Store ==
    /\ pc = "store"
    /\ rows' = rows \union {[resp |-> responses + 1, msg |-> m] : m \in page}
    /\ responses' = responses + 1
    /\ chain' = LatestRequest
    /\ listDone' = (next = 0) /\ listNext' = {next}
    /\ IF next = 0 THEN Stop
       ELSE pc' = "fetch" /\ token' = next /\ UNCHANGED <<page, next>>
    /\ UNCHANGED <<mail, first>>

(* Mutant: the token is stored before the page it comes with.              *)
AbortStored ==
    /\ pc # "idle"
    /\ listNext' = IF pc = "store" THEN {next} ELSE listNext
    /\ Stop
    /\ UNCHANGED <<mail, rows, responses, chain, listDone, first>>

(* The process is killed, or a call fails and main.go ends it.             *)
Abort ==
    /\ pc # "idle"
    /\ Stop
    /\ UNCHANGED <<mail, db, first>>

-----------------------------------------------------------------------------
Arrive ==
    /\ arrived < MaxMsgs
    /\ arrived' = arrived + 1
    /\ live' = live \union {arrived'}
    /\ UNCHANGED <<db, proc, first>>

DeleteMessage ==
    /\ \E m \in live : live' = live \ {m}
    /\ UNCHANGED <<arrived, db, proc, first>>

Run == Start \/ Fetch \/ Store

Next == Run \/ Abort \/ Arrive \/ DeleteMessage

Spec == Init /\ [][Next]_vars

FairSpec == Spec /\ WF_vars(Run)

-----------------------------------------------------------------------------
(* Properties                                                              *)

Listed == {r.msg : r \in rows}

(* Every message that was there when the first page was fetched, and is    *)
(* there still, is on a stored page or older than the token the next run   *)
(* goes on with; so a complete listing has them all                        *)
(* (list_pages.go:93-108, list_pages_schema.go:95-120).                    *)
NothingMissed ==
    ResumeToken # {} => \A m \in live :
        m <= first => \/ m \in Listed
                      \/ \E t \in ResumeToken : t # 0 /\ m < t

(* A message is stored once, however often a page is fetched again after a *)
(* kill, and a later page has older messages: the first stored page, from  *)
(* which history is bootstrapped, is the newest one.                       *)
PagesInOrder ==
    \A r, s \in rows : r.resp < s.resp => r.msg > s.msg

(* Once the runs are no longer killed, the listing becomes complete.       *)
EventuallyListed == <>[][~Abort]_vars => <>[](ResumeToken = {0})
=============================================================================
