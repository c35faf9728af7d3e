--------------------------- MODULE ListingProofs ---------------------------
(***************************************************************************)
(* Theorems about Listing, for all values of its constants.                *)
(***************************************************************************)
EXTENDS Listing, FiniteSetTheorems, WellFoundedInduction, TLAPS

(* A nonempty set of messages has an oldest one.                           *)
LEMMA OldestIn ==
    ASSUME NEW P \in SUBSET Nat, P # {}
    PROVE  Oldest(P) \in P /\ \A k \in P : Oldest(P) <= k
<1> DEFINE Less == {ss \in Nat \X Nat : ss[1] < ss[2]}
<1>1. IsWellFoundedOn(Less, Nat)
  BY NatLessThanWellFounded DEF OpToRel
<1>2. ASSUME NEW y \in Nat, NEW x \in Nat, <<y, x>> \notin Less PROVE x <= y
  BY <1>2
<1> HIDE DEF Less
<1>3. PICK x \in P : \A y \in P : ~(<<y, x>> \in Less)
  BY <1>1, WFMin
<1>4. ASSUME NEW y \in P PROVE x <= y
  <2>1. x \in Nat /\ y \in Nat
    OBVIOUS
  <2>2. <<y, x>> \notin Less
    BY <1>3
  <2> QED  BY <1>2, <2>1, <2>2
<1> QED  BY <1>4 DEF Oldest

(* A column that holds at most one token.                                  *)
LEMMA OneToken ==
    ASSUME NEW S, S \subseteq Tokens, Cardinality(S) <= 1
    PROVE  S = {} \/ \E t : S = {t}
<1> SUFFICES ASSUME S # {} PROVE \E t : S = {t}
  OBVIOUS
<1>1. IsFiniteSet(Tokens)
  BY ListingAssumption, FS_Interval DEF Tokens
<1>2. IsFiniteSet(S)
  BY <1>1, FS_Subset
<1>3. Cardinality(S) \in Nat /\ Cardinality(S) # 0
  BY <1>2, FS_CardinalityType, FS_EmptySet
<1>4. Cardinality(S) = 1
  BY <1>3
<1> QED  BY <1>2, <1>4, FS_Singleton

LEMMA HasOne ==
    ASSUME NEW n
    PROVE  Cardinality({n}) <= 1
<1>1. Cardinality({n}) = 1
  BY FS_Singleton
<1> QED  BY <1>1

LEMMA HasNone == Cardinality({}) <= 1
<1>1. Cardinality({}) = 0
  BY FS_EmptySet
<1> QED  BY <1>1

(* What a page of live messages and its token leave out: every older       *)
(* message is on the page or older than the token, which is 0 or the       *)
(* oldest message of the page.                                             *)
LEMMA PageSplit ==
    ASSUME NEW P \in SUBSET live, live \subseteq Messages, NEW t \in Tokens, IsPage(P, t),
           NEW n, n = TokenAfter(P, t)
    PROVE  /\ n \in Tokens
           /\ n = 0 \/ (n \in P /\ \A m \in P : m >= n)
           /\ \A m \in P : t = 0 \/ m < t
           /\ \A m \in live : t = 0 \/ m < t => m \in P \/ (n # 0 /\ m < n)
<1>1. CASE P = Older(t)
  BY <1>1, ListingAssumption DEF TokenAfter, Older, Tokens
<1>2. CASE P # Older(t)
  <2>1. P # {}
    BY <1>2, FS_EmptySet, ListingAssumption DEF IsPage
  <2>2. n = Oldest(P) /\ n \in P /\ \A m \in P : n <= m
    BY <1>2, <2>1, OldestIn DEF TokenAfter, Messages
  <2>3. n \in Messages /\ n \in Tokens /\ n # 0 /\ \A m \in P : m \in Messages /\ m >= n
    BY <2>2, ListingAssumption DEF Messages, Tokens
  <2>4. \A m \in P : t = 0 \/ m < t
    BY DEF IsPage, Older
  <2>5. ASSUME NEW m \in live, t = 0 \/ m < t PROVE m \in P \/ m < n
    BY <2>2, <2>3, <2>5 DEF IsPage, Older, Messages
  <2> QED  BY <2>2, <2>3, <2>4, <2>5
<1> QED  BY <1>1, <1>2

-----------------------------------------------------------------------------
(* The run goes on from the stored token, or with the first page when      *)
(* there is none.                                                          *)
OnTrack ==
    pc # "idle" => \/ ResumeToken = {} /\ token = 0
                   \/ ResumeToken = {token} /\ token # 0

(* The page in memory has everything between its token and the next one.   *)
PageTrue ==
    pc = "store" =>
        /\ next = 0 \/ next \in page
        /\ \A m \in page : (token = 0 \/ m < token) /\ m >= next
        /\ \A m \in live : m <= first /\ (token = 0 \/ m < token)
                              => m \in page \/ (next # 0 /\ m < next)

(* The stored messages are not older than the stored token.                *)
RowsAbove ==
    /\ ResumeToken = {} => rows = {}
    /\ \A r \in rows, t \in ResumeToken : r.msg >= t

Inv ==
    /\ TypeOK /\ first <= arrived
    /\ OnTrack /\ PageTrue /\ RowsAbove
    /\ NothingMissed /\ PagesInOrder

(* The types that steps rely on, in plain terms.                           *)
LEMMA Typed ==
    ASSUME TypeOK
    PROVE  /\ arrived \in Nat /\ arrived <= MaxMsgs
           /\ live \subseteq Messages /\ \A m \in live : m \in Nat /\ m <= arrived
           /\ responses \in Nat /\ ResumeToken \subseteq Tokens
           /\ \A r \in rows : r.resp \in 1 .. responses /\ r.msg \in Messages
           /\ token \in Nat /\ next \in Nat /\ first \in Nat
           /\ \A m \in page : m \in Nat
  BY ListingAssumption DEF TypeOK, Messages, Tokens, ResumeToken

LEMMA InitInv == Init => Inv
<1> SUFFICES ASSUME Init PROVE Inv
  OBVIOUS
<1> USE ListingAssumption
<1>1. live \subseteq Messages /\ arrived \in 0 .. MaxMsgs /\ live \subseteq 1 .. arrived
  BY DEF Init, Messages
<1>2. CASE rows = {} /\ responses = 0 /\ chain = {} /\ first = 0
  <2>1. TypeOK
    <3>1. /\ live \subseteq 1 .. arrived /\ arrived \in 0 .. MaxMsgs
          /\ rows \subseteq [resp : 1 .. responses, msg : Messages] /\ responses \in Nat
          /\ chain = {} /\ listNext = {} /\ listDone \in BOOLEAN
      BY <1>1, <1>2 DEF Init
    <3>2. /\ 0 \in Tokens /\ first = 0 /\ first \in 0 .. MaxMsgs
          /\ pc = "idle" /\ token = 0 /\ next = 0 /\ page = {}
      BY <1>2 DEF Init, Tokens
    <3> QED  BY <3>1, <3>2, HasNone DEF TypeOK
  <2> QED  BY <1>1, <1>2, <2>1
           DEF Init, Inv, OnTrack, PageTrue, RowsAbove, NothingMissed, PagesInOrder, ResumeToken
<1>3. ASSUME NEW P \in SUBSET live, IsPage(P, 0),
             rows = {[resp |-> 1, msg |-> m] : m \in P},
             responses = 1, chain = {TokenAfter(P, 0)}, first = Before
      PROVE  Inv
  <2>1. PICK n : n = TokenAfter(P, 0)
    OBVIOUS
  <2>2. /\ n \in Tokens
        /\ \A m \in P : m >= n
        /\ \A m \in live : m \in P \/ (n # 0 /\ m < n)
    <3>1. 0 \in Tokens
      BY DEF Tokens
    <3>2. /\ n \in Tokens
          /\ n = 0 \/ \A m \in P : m >= n
          /\ \A m \in live : m \in P \/ (n # 0 /\ m < n)
      BY <1>1, <1>3, <2>1, <3>1, PageSplit
    <3>3. \A m \in P : m >= 0
      BY <1>1 DEF Messages
    <3> QED  BY <3>2, <3>3
  <2>3. TypeOK
    <3>1. Cardinality({n}) <= 1 /\ Cardinality({}) <= 1
      BY HasOne, HasNone
    <3>2. rows \subseteq [resp : 1 .. responses, msg : Messages]
      BY <1>1, <1>3
    <3>3. /\ live \subseteq 1 .. arrived /\ arrived \in 0 .. MaxMsgs
          /\ responses \in Nat /\ chain = {n} /\ listNext = {} /\ listDone \in BOOLEAN
      BY <1>1, <1>3, <2>1 DEF Init
    <3>4. /\ 0 \in Tokens /\ first \in 0 .. MaxMsgs
          /\ pc = "idle" /\ token = 0 /\ next = 0 /\ page = {}
      BY <1>3 DEF Init, Tokens
    <3> QED  BY <2>2, <3>1, <3>2, <3>3, <3>4 DEF TypeOK
  <2>4. ResumeToken = {n}
    BY <1>3, <2>1 DEF Init, ResumeToken
  <2>5. NothingMissed
    <3>1. \A m \in P : [resp |-> 1, msg |-> m] \in rows /\ [resp |-> 1, msg |-> m].msg = m
      BY <1>3
    <3>2. P \subseteq Listed
      BY <3>1 DEF Listed
    <3> QED  BY <2>2, <2>4, <3>2 DEF NothingMissed
  <2>6. RowsAbove /\ PagesInOrder
    BY <1>3, <2>2, <2>4 DEF RowsAbove, PagesInOrder
  <2> QED  BY <1>3, <2>3, <2>5, <2>6 DEF Init, Inv, OnTrack, PageTrue
<1> QED  BY <1>2, <1>3 DEF Init

-----------------------------------------------------------------------------
(* A step that leaves the database alone leaves the stored token alone.    *)
LEMMA SameToken ==
    UNCHANGED db => ResumeToken' = ResumeToken /\ Listed' = Listed
  BY DEF db, ResumeToken, Listed

LEMMA StartInv == Inv /\ Start => Inv'
<1> SUFFICES ASSUME Inv, Start PROVE Inv'
  OBVIOUS
<1> USE ListingAssumption
<1>1. TypeOK' /\ first' <= arrived'
  BY Typed DEF Inv, TypeOK, Start, mail, db, Tokens
<1>2. ResumeToken' = ResumeToken /\ Listed' = Listed
  BY SameToken DEF Start
<1>3. OnTrack'
  <2>1. PICK T : T = ResumeToken
    OBVIOUS
  <2>2. T = {} \/ \E t : T = {t}
    <3>1. \/ T = {0}
          \/ T \subseteq Tokens /\ Cardinality(T) <= 1
      BY <2>1 DEF Inv, TypeOK, ResumeToken
    <3> QED  BY <3>1, OneToken
  <2> QED  BY <1>2, <2>1, <2>2 DEF OnTrack, Start
<1>4. PageTrue' /\ RowsAbove' /\ NothingMissed' /\ PagesInOrder'
  BY <1>2 DEF Inv, Start, PageTrue, RowsAbove, NothingMissed, PagesInOrder, mail, db
<1> QED  BY <1>1, <1>3, <1>4 DEF Inv

LEMMA FetchInv == Inv /\ Fetch => Inv'
<1> SUFFICES ASSUME Inv, Fetch PROVE Inv'
  OBVIOUS
<1> USE ListingAssumption
<1>1. PICK P \in SUBSET live : IsPage(P, token) /\ page' = P
  BY DEF Fetch
<1>2. next' = TokenAfter(P, token)
  BY <1>1 DEF Fetch
<1>3. live \subseteq Messages /\ token \in Tokens
  BY Typed DEF Inv, TypeOK
<1>4. /\ next' \in Tokens
      /\ next' = 0 \/ (next' \in P /\ \A m \in P : m >= next')
      /\ \A m \in P : token = 0 \/ m < token
      /\ \A m \in live : token = 0 \/ m < token => m \in P \/ (next' # 0 /\ m < next')
  BY <1>1, <1>2, <1>3, PageSplit
<1>5. TypeOK' /\ first' <= arrived'
  BY <1>1, <1>3, <1>4, Typed DEF Inv, TypeOK, Fetch, mail, db, Messages, Tokens
<1>6. ResumeToken' = ResumeToken /\ Listed' = Listed
  BY SameToken DEF Fetch
<1>7. OnTrack'
  BY <1>6 DEF Inv, OnTrack, Fetch
<1>8. PageTrue'
  BY <1>1, <1>3, <1>4 DEF PageTrue, Fetch, mail, Messages
<1>9. NothingMissed'
  BY <1>6 DEF Inv, OnTrack, NothingMissed, Fetch, mail
<1>10. RowsAbove' /\ PagesInOrder'
  BY <1>6 DEF Inv, RowsAbove, PagesInOrder, Fetch, db
<1> QED  BY <1>5, <1>7, <1>8, <1>9, <1>10 DEF Inv

LEMMA StoreInv == Inv /\ Store => Inv'
<1> SUFFICES ASSUME Inv, Store PROVE Inv'
  OBVIOUS
<1> USE ListingAssumption
<1>1. next \in Tokens /\ ResumeToken' = {next}
  BY DEF Inv, TypeOK, Store, ResumeToken
<1>2. TypeOK' /\ first' <= arrived'
  <2>1. rows' \subseteq [resp : 1 .. responses', msg : Messages] /\ responses' \in Nat
    BY DEF Inv, TypeOK, Store
  <2>2. chain' = {next} /\ listNext' = {next} /\ Cardinality({next}) <= 1
    BY HasOne DEF Store, LatestRequest
  <2>3. pc' \in {"idle", "fetch"} /\ token' \in Tokens /\ page' \subseteq Messages
        /\ next' \in Tokens /\ listDone' \in BOOLEAN
    BY <1>1 DEF Inv, TypeOK, Store, Stop, Tokens
  <2> QED  BY <1>1, <2>1, <2>2, <2>3 DEF Inv, TypeOK, Store, mail
<1>3. OnTrack'
  BY <1>1 DEF OnTrack, Store, Stop
<1>4. PageTrue'
  BY DEF PageTrue, Store, Stop
<1>5. \A s \in rows' : \/ s \in rows /\ s.resp <= responses
                       \/ s.resp = responses + 1 /\ s.msg \in page
  BY Typed DEF Inv, Store
<1>6. \A r \in rows, m \in page : r.msg > m /\ r.msg \in Nat /\ m \in Nat /\ r.msg >= next
  BY Typed DEF Inv, OnTrack, RowsAbove, PageTrue, Store, Messages
<1>7. \A r \in rows : r.msg >= next
  <2> SUFFICES ASSUME NEW r \in rows PROVE r.msg >= next
    OBVIOUS
  <2>1. CASE next = 0
    BY <2>1, Typed DEF Inv, Messages
  <2>2. CASE next \in page
    BY <2>2, <1>6
  <2> QED  BY <2>1, <2>2 DEF Inv, PageTrue, Store
<1>8. RowsAbove'
  <2>1. \A m \in page : m >= next
    BY DEF Inv, PageTrue, Store
  <2> QED  BY <1>1, <1>5, <1>7, <2>1 DEF RowsAbove
<1>9. PagesInOrder'
  <2> SUFFICES ASSUME NEW r \in rows', NEW s \in rows', r.resp < s.resp
               PROVE  r.msg > s.msg
    BY DEF PagesInOrder
  <2>1. responses \in Nat /\ \A q \in rows : q.resp \in Nat
    BY Typed DEF Inv
  <2>2. r \in rows
    BY <1>5, <2>1
  <2>3. CASE s \in rows
    BY <2>2, <2>3 DEF Inv, PagesInOrder
  <2>4. CASE s.msg \in page
    BY <1>6, <2>2, <2>4
  <2> QED  BY <1>5, <2>3, <2>4
<1>10. NothingMissed'
  <2> SUFFICES ASSUME NEW m \in live, m <= first
               PROVE  m \in Listed' \/ (next # 0 /\ m < next)
    BY <1>1 DEF NothingMissed, Store, mail
  <2>1. Listed \subseteq Listed' /\ page \subseteq Listed'
    <3>1. rows \subseteq rows'
      BY DEF Store
    <3>2. \A k \in page : /\ [resp |-> responses + 1, msg |-> k] \in rows'
                         /\ [resp |-> responses + 1, msg |-> k].msg = k
      BY DEF Store
    <3> QED  BY <3>1, <3>2 DEF Listed
  <2>2. m \in Listed \/ token = 0 \/ m < token
    BY DEF Inv, OnTrack, NothingMissed, Store
  <2>3. m \in Listed \/ m \in page \/ (next # 0 /\ m < next)
    BY <2>2 DEF Inv, PageTrue, Store
  <2> QED  BY <2>1, <2>3
<1> QED  BY <1>2, <1>3, <1>4, <1>8, <1>9, <1>10 DEF Inv

LEMMA AbortInv == Inv /\ Abort => Inv'
<1> SUFFICES ASSUME Inv, Abort PROVE Inv'
  OBVIOUS
<1>1. TypeOK' /\ first' <= arrived'
  BY ListingAssumption DEF Inv, TypeOK, Abort, Stop, mail, db, Tokens
<1>2. ResumeToken' = ResumeToken /\ Listed' = Listed
  BY SameToken DEF Abort
<1> QED  BY <1>1, <1>2
         DEF Inv, Abort, Stop, OnTrack, PageTrue, RowsAbove, NothingMissed, PagesInOrder, mail, db

(* The mailbox: a message that arrives is newer than the first page.       *)
LEMMA MailInv == Inv /\ (Arrive \/ DeleteMessage) => Inv'
<1> SUFFICES ASSUME Inv, Arrive \/ DeleteMessage PROVE Inv'
  OBVIOUS
<1> USE ListingAssumption
<1>1. UNCHANGED <<db, proc, first>>
  BY DEF Arrive, DeleteMessage
<1>2. TypeOK' /\ first' <= arrived'
  <2>1. arrived' \in 0 .. MaxMsgs /\ live' \subseteq 1 .. arrived' /\ first <= arrived'
    <3>1. arrived \in 0 .. MaxMsgs /\ live \subseteq 1 .. arrived /\ first <= arrived
          /\ first \in 0 .. MaxMsgs
      BY DEF Inv, TypeOK
    <3>2. CASE Arrive
      BY <3>1, <3>2 DEF Arrive
    <3>3. CASE DeleteMessage
      BY <3>1, <3>3 DEF DeleteMessage
    <3> QED  BY <3>2, <3>3
  <2> QED  BY <1>1, <2>1 DEF Inv, TypeOK, db, proc
<1>3. \A m \in live' : m <= first => m \in live
  BY Typed DEF Inv, Arrive, DeleteMessage
<1>4. ResumeToken' = ResumeToken /\ Listed' = Listed
  BY <1>1, SameToken
<1>5. OnTrack' /\ RowsAbove' /\ PagesInOrder'
  BY <1>1, <1>4 DEF Inv, OnTrack, RowsAbove, PagesInOrder, db, proc
<1>6. PageTrue'
  BY <1>1, <1>3 DEF Inv, PageTrue, proc
<1>7. NothingMissed'
  BY <1>1, <1>3, <1>4 DEF Inv, NothingMissed
<1> QED  BY <1>2, <1>5, <1>6, <1>7 DEF Inv

(* Every step keeps the invariant.                                         *)
LEMMA NextInv == Inv /\ [Next]_vars => Inv'
<1> SUFFICES ASSUME Inv, [Next]_vars PROVE Inv'
  OBVIOUS
<1>1. CASE UNCHANGED vars
  <2>1. ResumeToken' = ResumeToken /\ Listed' = Listed
    BY <1>1, SameToken DEF vars
  <2> QED  BY <1>1, <2>1
           DEF Inv, vars, mail, db, proc, TypeOK, OnTrack, PageTrue, RowsAbove, NothingMissed,
               PagesInOrder
<1>2. CASE Next
  BY <1>2, StartInv, FetchInv, StoreInv, AbortInv, MailInv DEF Next, Run
<1> QED  BY <1>1, <1>2

LEMMA SpecInv == Spec => []Inv
  BY InitInv, NextInv, PTL DEF Spec

-----------------------------------------------------------------------------
(* Every behaviour of Listing is type correct, for every mailbox and page  *)
(* size.                                                                   *)
THEOREM TypeCorrect == Spec => []TypeOK
<1>1. Inv => TypeOK
  BY DEF Inv
<1> QED  BY <1>1, SpecInv, PTL

(* However often Listing is killed and whatever arrives and is deleted     *)
(* meanwhile, nothing that was there at the first page is left out         *)
(* (list_pages.go:93-108).                                                 *)
THEOREM NothingMissedTheorem == Spec => []NothingMissed
<1>1. Inv => NothingMissed
  BY DEF Inv
<1> QED  BY <1>1, SpecInv, PTL

(* Pages are stored from the newest messages to the oldest, and none twice *)
(* (list_pages.go:50-108).                                                 *)
THEOREM PagesInOrderTheorem == Spec => []PagesInOrder
<1>1. Inv => PagesInOrder
  BY DEF Inv
<1> QED  BY <1>1, SpecInv, PTL
=============================================================================
