--------------------------- MODULE ArchiveProofs ---------------------------
(***************************************************************************)
(* Theorems about Archive, for every list, any number of workers and any   *)
(* channel, batch and flush size.                                          *)
(***************************************************************************)
EXTENDS Archive, TLAPS

Elems(s) == {s[i] : i \in DOMAIN s}

Holding(w) == worker[w] \in {"check", "meta", "deliver", "put"}
Held == {item[w] : w \in {v \in Workers : Holding(v)}}

(* The items that have been sent and wait to be applied.                   *)
Underway == Elems(workCh) \union Held \union Elems(resultCh) \union pending

(* Between two runs nothing is left in memory.                             *)
Rest ==
    main = "idle" =>
        /\ prod = "done" /\ workCh = <<>> /\ resultCh = <<>> /\ pending = {}
        /\ nextToApply = 1 /\ latest = 0
        /\ \A w \in Workers : worker[w] = "exited"

(* The producer sends no row beyond its batch.                             *)
InBatch == cursor <= batchEnd /\ (prod = "send" => cursor < batchEnd)

TypeInv ==
    /\ TypeOK /\ InBatch
    /\ \A w \in Workers : Holding(w) => item[w] \in Item
    /\ Rest

(* Items keep the number and the row they were sent with.                  *)
Numbered ==
    Running =>
        /\ seq >= 1 /\ cursor = start + seq - 1 /\ nextToApply <= seq
        /\ \A x \in Underway : x.row = start + x.seq /\ x.seq >= 1 /\ x.seq < seq

(* A result is one of a row that has been gone through, and so is all that *)
(* lies behind the checkpoint or has been applied since.                   *)
GoneThrough ==
    /\ 1 .. ckpt \subseteq handled
    /\ \A w \in Workers : worker[w] = "put" => item[w].row \in handled
    /\ \A x \in Elems(resultCh) \union pending : x.row \in handled
    /\ Running =>
        /\ start <= ckpt /\ ckpt <= start + nextToApply - 1
        /\ start + 1 .. start + nextToApply - 1 \subseteq handled
        /\ latest = IF nextToApply = 1 THEN 0 ELSE start + nextToApply - 1

-----------------------------------------------------------------------------
(* A channel after a send holds one item more.                             *)
LEMMA SendElems ==
    ASSUME NEW S, NEW s \in Seq(S), NEW x \in S
    PROVE  /\ Append(s, x) \in Seq(S) /\ Len(Append(s, x)) = Len(s) + 1
           /\ Elems(Append(s, x)) = Elems(s) \union {x}
<1>1. Append(s, x) \in Seq(S) /\ Len(Append(s, x)) = Len(s) + 1
  OBVIOUS
<1>2. \A i \in 1 .. Len(s) : Append(s, x)[i] = s[i]
  OBVIOUS
<1>3. Append(s, x)[Len(s) + 1] = x
  OBVIOUS
<1>4. DOMAIN s = 1 .. Len(s) /\ DOMAIN Append(s, x) = 1 .. Len(s) + 1 /\ Len(s) \in Nat
  OBVIOUS
<1>5. Elems(s) \union {x} \subseteq Elems(Append(s, x))
  BY <1>2, <1>3, <1>4 DEF Elems
<1>6. Elems(Append(s, x)) \subseteq Elems(s) \union {x}
  BY <1>2, <1>3, <1>4 DEF Elems
<1> QED  BY <1>1, <1>5, <1>6

(* A receive takes the first item off a channel.                           *)
LEMMA ReceiveElems ==
    ASSUME NEW S, NEW s \in Seq(S), s # <<>>
    PROVE  /\ Head(s) \in S /\ Tail(s) \in Seq(S) /\ Len(Tail(s)) < Len(s)
           /\ Elems(s) = {Head(s)} \union Elems(Tail(s))
<1>1. Head(s) \in S /\ Tail(s) \in Seq(S) /\ Len(Tail(s)) = Len(s) - 1
  OBVIOUS
<1>2. Len(s) \in Nat \ {0} /\ Head(s) = s[1]
  OBVIOUS
<1>3. \A i \in 1 .. Len(s) - 1 : Tail(s)[i] = s[i + 1]
  OBVIOUS
<1>4. DOMAIN s = 1 .. Len(s) /\ DOMAIN Tail(s) = 1 .. Len(s) - 1
  BY <1>1
<1>5. {Head(s)} \union Elems(Tail(s)) \subseteq Elems(s)
  BY <1>2, <1>3, <1>4 DEF Elems
<1>6. ASSUME NEW i \in 1 .. Len(s), i # 1 PROVE s[i] = Tail(s)[i - 1] /\ i - 1 \in 1 .. Len(s) - 1
  BY <1>2, <1>3, <1>6
<1>7. ASSUME NEW i \in DOMAIN s PROVE s[i] \in {Head(s)} \union Elems(Tail(s))
  <2>1. CASE i = 1
    BY <2>1, <1>2
  <2>2. CASE i # 1
    BY <2>2, <1>4, <1>6 DEF Elems
  <2> QED  BY <2>1, <2>2
<1>8. Elems(s) \subseteq {Head(s)} \union Elems(Tail(s))
  BY <1>7 DEF Elems
<1> QED  BY <1>1, <1>2, <1>5, <1>8

(* An empty channel holds nothing.                                         *)
LEMMA NoElems == Elems(<<>>) = {}
  BY DEF Elems

-----------------------------------------------------------------------------
(* Type correctness                                                        *)

(* The initial states are well typed and at rest.                          *)
LEMMA TypeInit == Init => TypeInv
<1> SUFFICES ASSUME Init PROVE TypeInv
  OBVIOUS
<1>1. /\ workCh \in Seq(Item) /\ Len(workCh) <= BufferSize
      /\ resultCh \in Seq(Item) /\ Len(resultCh) <= BufferSize
  BY ArchiveAssumption DEF Init
<1>2. /\ worker \in [Workers -> {"idle", "check", "meta", "deliver", "put", "exited"}]
      /\ item \in [Workers -> Item \union {NoItem}]
  BY DEF Init
<1>3. /\ live \subseteq Msgs /\ file \subseteq Msgs /\ pending \subseteq Item
      /\ failed \subseteq 1 .. N /\ handled \subseteq 1 .. N
  BY DEF Init
<1>4. /\ ckpt \in 0 .. N /\ start \in 0 .. N /\ latest \in 0 .. N
      /\ cursor \in 0 .. N /\ batchEnd \in 0 .. N /\ seq \in Nat
      /\ nextToApply \in Nat \ {0} /\ unflushed \in Nat
  BY ArchiveAssumption DEF Init
<1>5. /\ main \in {"idle", "loop", "flush", "return"} /\ prod \in {"query", "send", "done"}
      /\ prodErr \in BOOLEAN /\ outcome \in {"none", "ok", "error"}
  BY DEF Init
<1>6. TypeOK
  BY <1>1, <1>2, <1>3, <1>4, <1>5 DEF TypeOK
<1>7. Rest /\ InBatch /\ \A w \in Workers : ~Holding(w)
  BY DEF Init, Rest, InBatch, Holding
<1> QED
  BY <1>6, <1>7 DEF TypeInv

(* A step of the producer keeps the invariant.                             *)
LEMMA TypeProduce ==
    ASSUME TypeInv, Produce
    PROVE  TypeInv'
<1> USE ArchiveAssumption DEF TypeInv, InBatch, Rest, Holding
<1>1. CASE Query
  <2>1. batchEnd' \in 0 .. N /\ cursor <= batchEnd'
    BY <1>1 DEF Query, LowerOf, TypeOK
  <2> QED  BY <1>1, <2>1 DEF Query, TypeOK, disk, apply, ghost
<1>2. CASE QueryFails
  BY <1>2 DEF QueryFails, TypeOK, disk, apply, ghost
<1>3. CASE Send
  <2>1. [seq |-> seq, row |-> cursor + 1] \in Item
    BY <1>3 DEF Send, TypeOK, Item
  <2>2. workCh' \in Seq(Item) /\ Len(workCh') <= BufferSize
    BY <1>3, <2>1, SendElems DEF Send, TypeOK
  <2>3. cursor' \in 0 .. N /\ seq' \in Nat /\ prod' \in {"query", "send", "done"}
    BY <1>3 DEF Send, TypeOK
  <2> QED  BY <1>3, <2>2, <2>3 DEF Send, TypeOK, disk, apply, ghost
<1> QED
  BY <1>1, <1>2, <1>3 DEF Produce

(* A step of a worker keeps the invariant.                                 *)
LEMMA TypeDownload ==
    ASSUME TypeInv, NEW w \in Workers, Download(w)
    PROVE  TypeInv'
<1> USE DEF TypeInv, InBatch, Rest, Holding
<1>1. CASE Take(w)
  <2>1. Head(workCh) \in Item /\ Tail(workCh) \in Seq(Item) /\ Len(Tail(workCh)) < Len(workCh)
    BY <1>1, ReceiveElems DEF Take, TypeOK
  <2>2. workCh' \in Seq(Item) /\ Len(workCh') <= BufferSize
    BY <1>1, <2>1, ArchiveAssumption DEF Take, TypeOK
  <2> QED  BY <1>1, <2>1, <2>2 DEF Take, TypeOK, disk, producer, apply, ghost
<1>2. CASE Present(w) \/ FetchBody(w) \/ BodyGone(w) \/ FetchMeta(w) \/ Deliver(w) \/ Fails(w)
  <2>1. item[w] \in Item /\ Mine(w) \in Msgs
    BY <1>2, ArchiveAssumption
    DEF Present, FetchBody, BodyGone, FetchMeta, Deliver, Fails, Work, Item, Mine, TypeOK
  <2>2. PICK from \in {"check", "meta", "deliver"}, to \in {"meta", "deliver", "put"} :
            Work(w, from, to)
    BY <1>2 DEF Present, FetchBody, BodyGone, FetchMeta, Deliver, Fails
  <2>3. file' \subseteq Msgs /\ failed' \subseteq 1 .. N /\ handled' \subseteq 1 .. N
    BY <1>2, <2>1
    DEF Present, FetchBody, BodyGone, FetchMeta, Deliver, Fails, Through, Item, TypeOK, ghost
  <2>4. worker' \in [Workers -> {"idle", "check", "meta", "deliver", "put", "exited"}]
    BY <2>2 DEF Work, TypeOK
  <2> QED  BY <2>1, <2>2, <2>3, <2>4 DEF Work, TypeOK, producer, apply
<1>3. CASE Put(w)
  <2>1. item[w] \in Item
    BY <1>3 DEF Put
  <2>2. resultCh' \in Seq(Item) /\ Len(resultCh') <= BufferSize
    BY <1>3, <2>1, SendElems, ArchiveAssumption DEF Put, TypeOK
  <2> QED  BY <1>3, <2>2 DEF Put, TypeOK, disk, producer, apply, ghost
<1>4. CASE Exit(w)
  BY <1>4 DEF Exit, TypeOK, disk, producer, apply, ghost
<1> QED
  BY <1>1, <1>2, <1>3, <1>4 DEF Download

(* What a stopped process leaves is well typed and at rest.                *)
LEMMA TypeStop ==
    ASSUME TypeInv, Stop, UNCHANGED <<live, disk, ghost>>, outcome' \in {"ok", "error"}
    PROVE  TypeInv'
<1>1. /\ workCh' \in Seq(Item) /\ Len(workCh') <= BufferSize
      /\ resultCh' \in Seq(Item) /\ Len(resultCh') <= BufferSize
  BY ArchiveAssumption DEF Stop
<1>2. /\ worker' \in [Workers -> {"idle", "check", "meta", "deliver", "put", "exited"}]
      /\ item' \in [Workers -> Item \union {NoItem}]
  BY DEF Stop
<1>3. /\ start' \in 0 .. N /\ latest' \in 0 .. N
      /\ cursor' \in 0 .. N /\ batchEnd' \in 0 .. N /\ seq' \in Nat
      /\ nextToApply' \in Nat \ {0} /\ unflushed' \in Nat /\ pending' \subseteq Item
  BY ArchiveAssumption DEF Stop
<1>4. /\ main' \in {"idle", "loop", "flush", "return"} /\ prod' \in {"query", "send", "done"}
      /\ prodErr' \in BOOLEAN /\ outcome' \in {"none", "ok", "error"}
  BY DEF Stop
<1>5. TypeOK'
  BY <1>1, <1>2, <1>3, <1>4 DEF TypeInv, TypeOK, disk, ghost
<1>6. Rest' /\ InBatch' /\ \A w \in Workers : ~Holding(w)'
  BY DEF Stop, Rest, InBatch, Holding
<1> QED
  BY <1>5, <1>6 DEF TypeInv

(* A step of the main loop keeps the invariant.                            *)
LEMMA TypeCollect ==
    ASSUME TypeInv, Collect
    PROVE  TypeInv'
<1> USE DEF TypeInv, InBatch, Rest, Holding
<1>1. CASE Receive
  <2>1. /\ Head(resultCh) \in Item
        /\ Tail(resultCh) \in Seq(Item) /\ Len(Tail(resultCh)) < Len(resultCh)
    BY <1>1, ReceiveElems DEF Receive, TypeOK
  <2>2. resultCh' \in Seq(Item) /\ Len(resultCh') <= BufferSize
    BY <1>1, <2>1, ArchiveAssumption DEF Receive, TypeOK
  <2> DEFINE P == pending \union {Head(resultCh)}
  <2>3. PICK n \in nextToApply .. nextToApply + N :
            /\ InOrder(P, n)
            /\ nextToApply' = n
            /\ pending' = Waiting(P, n)
            /\ latest' = IF n = nextToApply THEN latest
                         ELSE (CHOOSE r \in P : r.seq = n - 1).row
            /\ unflushed' = unflushed + (n - nextToApply)
    BY <1>1 DEF Receive
  <2>4. P \subseteq Item /\ pending' \subseteq Item
    BY <2>1, <2>3 DEF Waiting, TypeOK
  <2>5. nextToApply' \in Nat \ {0} /\ unflushed' \in Nat
    BY <2>3, ArchiveAssumption DEF TypeOK
  <2>6. latest' \in 0 .. N
    <3>1. CASE n = nextToApply
      BY <3>1, <2>3 DEF TypeOK
    <3>2. CASE n # nextToApply
      <4>1. n - 1 \in nextToApply .. n - 1
        BY <3>2, <2>3 DEF TypeOK
      <4>2. \E r \in P : r.seq = n - 1
        BY <4>1, <2>3 DEF InOrder
      <4>3. (CHOOSE r \in P : r.seq = n - 1) \in P
        BY <4>2
      <4>4. latest' = (CHOOSE r \in P : r.seq = n - 1).row
        BY <3>2, <2>3
      <4>5. \A r \in P : r.row \in 0 .. N
        BY <2>4, ArchiveAssumption DEF Item
      <4> QED  BY <4>3, <4>4, <4>5
    <3> QED  BY <3>1, <3>2
  <2>7. main' = "flush"
        /\ UNCHANGED <<live, disk, start, producer, workCh, worker, item, outcome, ghost>>
    BY <1>1 DEF Receive
  <2> HIDE DEF P
  <2> QED  BY <2>2, <2>4, <2>5, <2>6, <2>7 DEF TypeOK, disk, producer, ghost
<1>2. CASE Flush
  <2>1. ckpt' \in 0 .. N /\ unflushed' \in Nat
    BY <1>2 DEF Flush, Flushing, TypeOK
  <2> QED  BY <1>2, <2>1 DEF Flush, TypeOK, producer, ghost
<1>3. CASE FinalFlush
  <2>1. ckpt' \in 0 .. N /\ unflushed' \in Nat
    BY <1>3 DEF FinalFlush, Flushing, TypeOK
  <2> QED  BY <1>3, <2>1 DEF FinalFlush, TypeOK, producer, ghost
<1>4. CASE Return
  BY <1>4, TypeStop DEF Return
<1> QED
  BY <1>1, <1>2, <1>3, <1>4 DEF Collect

(* Every step of the specification keeps the invariant.                    *)
LEMMA TypeStep == TypeInv /\ [Next]_vars => TypeInv'
<1> SUFFICES ASSUME TypeInv, [Next]_vars PROVE TypeInv'
  OBVIOUS
<1>1. CASE Start
  <2>1. TypeOK'
    BY <1>1 DEF Start, TypeInv, TypeOK, disk, apply, ghost
  <2>2. Rest' /\ InBatch' /\ \A w \in Workers : ~Holding(w)'
    BY <1>1 DEF Start, TypeInv, TypeOK, Rest, InBatch, Holding
  <2> QED  BY <2>1, <2>2 DEF TypeInv
<1>2. CASE Abort
  BY <1>2, TypeStop DEF Abort
<1>3. CASE DeleteMessage
  BY <1>3 DEF DeleteMessage, TypeInv, TypeOK, Rest, InBatch, Holding, disk, producer, apply, ghost
<1>4. CASE UNCHANGED vars
  BY <1>4 DEF vars, TypeInv, TypeOK, Rest, InBatch, Holding, disk, producer, apply, ghost
<1> QED
  BY <1>1, <1>2, <1>3, <1>4, TypeProduce, TypeDownload, TypeCollect DEF Next

(* Type correctness, with both channels within their capacity.             *)
THEOREM ArchiveTypeCorrect == Spec => []TypeOK
<1>1. TypeInv => TypeOK
  BY DEF TypeInv
<1> QED
  BY <1>1, TypeInit, TypeStep, PTL DEF Spec

-----------------------------------------------------------------------------
(* The pipeline                                                            *)

(* A worker passes its item on from workCh to resultCh: none is lost and   *)
(* none comes from elsewhere.                                              *)
LEMMA UnderwayKept ==
    ASSUME TypeInv, NEW w \in Workers, Download(w)
    PROVE  Underway' = Underway
<1>1. CASE Take(w)
  <2>1. Elems(workCh) = {Head(workCh)} \union Elems(workCh')
    BY <1>1, ReceiveElems DEF Take, TypeInv, TypeOK
  <2>2. \A v \in Workers : Holding(v)' <=> Holding(v) \/ v = w
    BY <1>1 DEF Take, Holding, TypeInv, TypeOK
  <2>3. \A v \in Workers : item'[v] = IF v = w THEN Head(workCh) ELSE item[v]
    BY <1>1 DEF Take, TypeInv, TypeOK
  <2>4. ~Holding(w)
    BY <1>1 DEF Take, Holding
  <2>5. Held' = Held \union {Head(workCh)}
    BY <2>2, <2>3, <2>4 DEF Held
  <2> QED  BY <1>1, <2>1, <2>5 DEF Take, Underway, apply
<1>2. CASE Present(w) \/ FetchBody(w) \/ BodyGone(w) \/ FetchMeta(w) \/ Deliver(w) \/ Fails(w)
  <2>1. PICK from \in {"check", "meta", "deliver"}, to \in {"meta", "deliver", "put"} :
            Work(w, from, to)
    BY <1>2 DEF Present, FetchBody, BodyGone, FetchMeta, Deliver, Fails
  <2>2. \A v \in Workers : Holding(v)' <=> Holding(v)
    BY <2>1 DEF Work, Holding, TypeInv, TypeOK
  <2> QED  BY <2>1, <2>2 DEF Work, Held, Underway, apply
<1>3. CASE Put(w)
  <2>1. Elems(resultCh') = Elems(resultCh) \union {item[w]}
    BY <1>3, SendElems DEF Put, Holding, TypeInv, TypeOK
  <2>2. \A v \in Workers : Holding(v)' <=> Holding(v) /\ v # w
    BY <1>3 DEF Put, Holding, TypeInv, TypeOK
  <2>3. \A v \in Workers \ {w} : item'[v] = item[v]
    BY <1>3 DEF Put, TypeInv, TypeOK
  <2>4. Holding(w)
    BY <1>3 DEF Put, Holding
  <2>5. Held = Held' \union {item[w]}
    BY <2>2, <2>3, <2>4 DEF Held
  <2> QED  BY <1>3, <2>1, <2>5 DEF Put, Underway, apply
<1>4. CASE Exit(w)
  <2>1. \A v \in Workers : Holding(v)' <=> Holding(v)
    BY <1>4 DEF Exit, Holding, TypeInv, TypeOK
  <2> QED  BY <1>4, <2>1 DEF Exit, Held, Underway, apply
<1> QED
  BY <1>1, <1>2, <1>3, <1>4 DEF Download

(* What the process holds does not depend on the other variables.          *)
LEMMA UnderwaySame ==
    ASSUME UNCHANGED <<workCh, resultCh, worker, item, pending>>
    PROVE  Underway' = Underway
  BY DEF Underway, Held, Holding

(* Every item underway is an item.                                         *)
LEMMA UnderwayItems == TypeInv => Underway \subseteq Item
<1> SUFFICES ASSUME TypeInv PROVE Underway \subseteq Item
  OBVIOUS
<1>1. Elems(workCh) \subseteq Item /\ Elems(resultCh) \subseteq Item
  BY DEF TypeInv, TypeOK, Elems
<1>2. Held \subseteq Item
  BY DEF TypeInv, Held
<1> QED
  BY <1>1, <1>2 DEF Underway, TypeInv, TypeOK

(* What the main loop does with a result: it applies the results with      *)
(* numbers below n, all of which it has, and keeps the others.             *)
LEMMA Applies ==
    ASSUME TypeInv, Receive
    PROVE  \E n \in Nat :
             /\ nextToApply <= n /\ nextToApply' = n
             /\ Underway' \subseteq Underway
             /\ \A x \in Underway : x.seq >= n => x \in Underway'
             /\ \A x \in pending' : x.seq # n /\ x \in Elems(resultCh) \union pending
             /\ Elems(resultCh') \subseteq Elems(resultCh)
             /\ \A k \in nextToApply .. n - 1 :
                    \E x \in Elems(resultCh) \union pending : x.seq = k
             /\ n = nextToApply => latest' = latest
             /\ n # nextToApply => \E x \in Elems(resultCh) \union pending :
                                       x.seq = n - 1 /\ latest' = x.row
<1> DEFINE P == pending \union {Head(resultCh)}
<1>1. PICK n \in nextToApply .. nextToApply + N :
          /\ InOrder(P, n)
          /\ nextToApply' = n
          /\ pending' = Waiting(P, n)
          /\ latest' = IF n = nextToApply THEN latest
                       ELSE (CHOOSE r \in P : r.seq = n - 1).row
  BY DEF Receive
<1>2. n \in Nat /\ nextToApply \in Nat /\ nextToApply <= n
  BY <1>1, ArchiveAssumption DEF TypeInv, TypeOK
<1>3. Elems(resultCh) = {Head(resultCh)} \union Elems(resultCh') /\ Head(resultCh) \in Item
  BY ReceiveElems DEF Receive, TypeInv, TypeOK
<1>4. P \subseteq Elems(resultCh) \union pending /\ P \subseteq Item
  BY <1>3 DEF TypeInv, TypeOK
<1>5. Held' = Held /\ Elems(workCh') = Elems(workCh)
  BY DEF Receive, Held, Holding
<1> HIDE DEF P
<1>6. pending' \subseteq P
  BY <1>1 DEF Waiting
<1>7. \A x \in P : x.seq >= n => x \in pending'
  BY <1>1, <1>2, <1>4 DEF Waiting, Item
<1>8. pending \union {Head(resultCh)} = P
  BY DEF P
<1>9. Underway' \subseteq Underway
  BY <1>3, <1>4, <1>5, <1>6 DEF Underway
<1>10. \A x \in Underway : x.seq >= n => x \in Underway'
  BY <1>3, <1>5, <1>7, <1>8 DEF Underway
<1>11. \A x \in pending' : x.seq # n
  BY <1>1, <1>6 DEF InOrder
<1>12. \A k \in nextToApply .. n - 1 : \E x \in P : x.seq = k
  BY <1>1 DEF InOrder
<1>13. n # nextToApply => \E x \in P : x.seq = n - 1 /\ latest' = x.row
  <2> HAVE n # nextToApply
  <2>1. n - 1 \in nextToApply .. n - 1
    BY <1>2
  <2>2. \E x \in P : x.seq = n - 1
    BY <1>12, <2>1
  <2>3. latest' = (CHOOSE r \in P : r.seq = n - 1).row
    BY <1>1
  <2> QED  BY <2>2, <2>3
<1>14. n = nextToApply => latest' = latest
  BY <1>1
<1> QED
  BY <1>1, <1>2, <1>3, <1>4, <1>6, <1>9, <1>10, <1>11, <1>12, <1>13, <1>14

PipeInv == TypeInv /\ Numbered /\ GoneThrough

(* Nothing has been sent, gone through or saved at first.                  *)
LEMMA PipeInit == Init => PipeInv
  BY TypeInit, NoElems, ArchiveAssumption DEF Init, PipeInv, Numbered, GoneThrough, Running

(* A step of the producer sends the next row under the next number.        *)
LEMMA PipeProduce ==
    ASSUME PipeInv, Produce
    PROVE  PipeInv'
<1> USE DEF PipeInv
<1>1. TypeInv'
  BY TypeProduce
<1>2. /\ UNCHANGED <<main, start, ckpt, handled, worker, item, resultCh, pending,
                     nextToApply, latest>>
  BY DEF Produce, Query, QueryFails, Send, disk, apply, ghost
<1>3. GoneThrough'
  BY <1>2 DEF GoneThrough, Running
<1>4. CASE Query \/ QueryFails
  <2>1. UNCHANGED <<workCh, cursor, seq>>
    BY <1>4 DEF Query, QueryFails
  <2> QED  BY <1>1, <1>2, <1>3, <2>1, UnderwaySame DEF Numbered, Running
<1>5. CASE Send
  <2> DEFINE x == [seq |-> seq, row |-> cursor + 1]
  <2>1. x \in Item
    BY <1>5, ArchiveAssumption DEF Send, TypeInv, TypeOK, InBatch, Item
  <2>2. Elems(workCh') = Elems(workCh) \union {x}
    BY <1>5, <2>1, SendElems DEF Send, TypeInv, TypeOK
  <2>3. Underway' = Underway \union {x}
    BY <1>2, <2>2 DEF Underway, Held, Holding
  <2>4. Running
    BY <1>5 DEF Send, TypeInv, Rest, Running
  <2>5. x.row = start + x.seq /\ x.seq >= 1 /\ x.seq < seq'
    BY <1>5, <2>4 DEF Send, Numbered, TypeInv, TypeOK
  <2>6. seq' = seq + 1 /\ cursor' = cursor + 1 /\ nextToApply' <= seq'
    BY <1>2, <1>5, <2>4 DEF Send, Numbered, TypeInv, TypeOK
  <2>7. \A y \in Underway : y.seq \in Nat
    BY UnderwayItems DEF Item
  <2> HIDE DEF x
  <2>8. \A y \in Underway' : y.row = start' + y.seq /\ y.seq >= 1 /\ y.seq < seq'
    BY <1>2, <2>3, <2>4, <2>5, <2>6, <2>7 DEF Numbered, TypeInv, TypeOK
  <2>9. Numbered'
    BY <1>2, <2>4, <2>6, <2>8 DEF Numbered, TypeInv, TypeOK
  <2> QED  BY <1>1, <1>3, <2>9
<1> QED
  BY <1>4, <1>5 DEF Produce

(* A worker passes a result on when it has gone through the row.           *)
LEMMA PipeDownload ==
    ASSUME PipeInv, NEW w \in Workers, Download(w)
    PROVE  PipeInv'
<1> USE DEF PipeInv
<1>1. TypeInv' /\ Underway' = Underway
  BY TypeDownload, UnderwayKept
<1>2. UNCHANGED <<main, start, ckpt, prod, cursor, seq, pending, nextToApply, latest>>
  BY DEF Download, Take, Present, FetchBody, BodyGone, FetchMeta, Deliver, Fails, Put, Exit,
         Work, disk, producer, apply
<1>3. Numbered'
  BY <1>1, <1>2 DEF Numbered, Running
<1>4. handled \subseteq handled'
  BY DEF Download, Take, Present, FetchBody, BodyGone, FetchMeta, Deliver, Fails, Put, Exit,
         Through, ghost
<1>5. ASSUME NEW v \in Workers, worker'[v] = "put"
      PROVE  item'[v].row \in handled'
  <2>1. CASE Take(w) \/ Put(w) \/ Exit(w)
    <3>1. v # w /\ worker[v] = "put" /\ item'[v] = item[v]
      BY <1>5, <2>1 DEF Take, Put, Exit, TypeInv, TypeOK
    <3> QED  BY <1>4, <3>1 DEF GoneThrough
  <2>2. CASE Present(w) \/ FetchBody(w) \/ BodyGone(w) \/ FetchMeta(w) \/ Deliver(w) \/ Fails(w)
    <3>1. PICK from \in {"check", "meta", "deliver"}, to \in {"meta", "deliver", "put"} :
              Work(w, from, to) /\ (to = "put" => Through(w))
      BY <2>2 DEF Present, FetchBody, BodyGone, FetchMeta, Deliver, Fails
    <3>2. item'[v] = item[v]
      BY <3>1 DEF Work
    <3>3. CASE v = w
      BY <3>1, <3>2, <3>3, <1>5 DEF Work, Through, TypeInv, TypeOK
    <3>4. CASE v # w
      BY <3>1, <3>2, <3>4, <1>4, <1>5 DEF Work, GoneThrough, TypeInv, TypeOK
    <3> QED  BY <3>3, <3>4
  <2> QED  BY <2>1, <2>2 DEF Download
<1>6. \A x \in Elems(resultCh') : x.row \in handled'
  <2>1. CASE Put(w)
    <3>1. Elems(resultCh') = Elems(resultCh) \union {item[w]} /\ worker[w] = "put"
      BY <2>1, SendElems DEF Put, TypeInv, TypeOK, Holding
    <3> QED  BY <3>1, <1>4 DEF GoneThrough
  <2>2. CASE ~Put(w)
    <3>1. resultCh' = resultCh
      BY <2>2 DEF Download, Take, Present, FetchBody, BodyGone, FetchMeta, Deliver, Fails,
                  Exit, Work
    <3> QED  BY <3>1, <1>4 DEF GoneThrough
  <2> QED  BY <2>1, <2>2
<1>7. GoneThrough'
  BY <1>2, <1>4, <1>5, <1>6 DEF GoneThrough, Running
<1> QED
  BY <1>1, <1>3, <1>7

(* The main loop applies results in the order of their numbers, and the    *)
(* checkpoint follows.                                                     *)
LEMMA PipeCollect ==
    ASSUME PipeInv, Collect
    PROVE  PipeInv'
<1> USE DEF PipeInv
<1>1. TypeInv'
  BY TypeCollect
<1>2. handled' = handled
  BY DEF Collect, Receive, Flush, FinalFlush, Return, ghost
<1>3. CASE Receive
  <2>1. PICK n \in Nat :
             /\ nextToApply <= n /\ nextToApply' = n
             /\ Underway' \subseteq Underway
             /\ \A x \in pending' : x \in Elems(resultCh) \union pending
             /\ Elems(resultCh') \subseteq Elems(resultCh)
             /\ \A k \in nextToApply .. n - 1 :
                    \E x \in Elems(resultCh) \union pending : x.seq = k
             /\ n = nextToApply => latest' = latest
             /\ n # nextToApply => \E x \in Elems(resultCh) \union pending :
                                       x.seq = n - 1 /\ latest' = x.row
    BY <1>3, Applies
  <2>2. /\ Running /\ Running' /\ UNCHANGED <<start, ckpt, prod, cursor, batchEnd, seq, worker, item>>
    BY <1>3 DEF Receive, Running, producer, disk
  <2>3. \A x \in Elems(resultCh) \union pending :
            /\ x.row = start + x.seq /\ x.seq >= 1 /\ x.seq < seq
            /\ x.row \in handled /\ x.seq \in Nat
    BY <2>2, UnderwayItems DEF Numbered, GoneThrough, Underway, Item
  <2>4. n <= seq
    <3>1. CASE n = nextToApply
      BY <3>1, <2>2 DEF Numbered
    <3>2. CASE n # nextToApply
      BY <3>2, <2>1, <2>3 DEF TypeInv, TypeOK
    <3> QED  BY <3>1, <3>2
  <2>5. Numbered'
    BY <2>1, <2>2, <2>4 DEF Numbered
  <2>6. start + 1 .. start + n - 1 \subseteq handled
    <3> SUFFICES ASSUME NEW r \in start + 1 .. start + n - 1 PROVE r \in handled
      OBVIOUS
    <3>1. CASE r <= start + nextToApply - 1
      BY <3>1, <2>2 DEF GoneThrough, TypeInv, TypeOK
    <3>2. CASE r > start + nextToApply - 1
      <4>1. r - start \in nextToApply .. n - 1
        BY <3>2 DEF TypeInv, TypeOK
      <4>2. PICK x \in Elems(resultCh) \union pending : x.seq = r - start
        BY <4>1, <2>1
      <4> QED  BY <4>2, <2>3 DEF TypeInv, TypeOK
    <3> QED  BY <3>1, <3>2 DEF TypeInv, TypeOK
  <2>7. latest' = IF n = 1 THEN 0 ELSE start + n - 1
    <3>1. CASE n = nextToApply
      BY <3>1, <2>1, <2>2 DEF GoneThrough
    <3>2. CASE n # nextToApply
      <4>1. PICK x \in Elems(resultCh) \union pending : x.seq = n - 1 /\ latest' = x.row
        BY <3>2, <2>1
      <4>2. n # 1
        BY <3>2, <2>1 DEF TypeInv, TypeOK
      <4> QED  BY <4>1, <4>2, <2>3 DEF TypeInv, TypeOK
    <3> QED  BY <3>1, <3>2
  <2>8. start <= ckpt /\ ckpt <= start + n - 1
    BY <2>1, <2>2 DEF GoneThrough, TypeInv, TypeOK
  <2>9. \A x \in Elems(resultCh') \union pending' : x.row \in handled
    BY <2>1, <2>3
  <2>10. GoneThrough'
    BY <1>2, <2>1, <2>2, <2>6, <2>7, <2>8, <2>9 DEF GoneThrough
  <2> QED  BY <1>1, <2>5, <2>10
<1>4. CASE Flush \/ FinalFlush
  <2>1. UNCHANGED <<start, producer, workCh, resultCh, worker, item, pending, nextToApply, latest>>
    BY <1>4 DEF Flush, FinalFlush
  <2>2. Running /\ Running'
    BY <1>4 DEF Flush, FinalFlush, Running
  <2>3. Numbered'
    BY <2>1, <2>2, UnderwaySame DEF Numbered, producer
  <2>4. ckpt' = ckpt \/ (latest # 0 /\ ckpt' = latest)
    BY <1>4 DEF Flush, FinalFlush, Flushing
  <2>5. ckpt' \in Nat /\ start <= ckpt' /\ ckpt' <= start + nextToApply - 1
    BY <2>2, <2>4 DEF GoneThrough, TypeInv, TypeOK
  <2>6. ASSUME NEW r \in 1 .. ckpt' PROVE r \in handled
    <3>1. r \in 1 .. ckpt \/ r \in start + 1 .. start + nextToApply - 1
      BY <2>2, <2>5 DEF GoneThrough, TypeInv, TypeOK
    <3> QED  BY <2>2, <3>1 DEF GoneThrough
  <2>7. GoneThrough'
    BY <1>2, <2>1, <2>2, <2>5, <2>6 DEF GoneThrough
  <2> QED  BY <1>1, <2>3, <2>7
<1>5. CASE Return
  <2>1. Stop /\ ckpt' = ckpt
    BY <1>5 DEF Return, disk
  <2> QED  BY <1>1, <1>2, <2>1, NoElems DEF Stop, Numbered, GoneThrough, Running
<1> QED
  BY <1>3, <1>4, <1>5 DEF Collect

(* Every step of the specification keeps the invariant; a kill loses only  *)
(* what is not behind the checkpoint.                                      *)
LEMMA PipeStep == PipeInv /\ [Next]_vars => PipeInv'
<1> SUFFICES ASSUME PipeInv, [Next]_vars PROVE PipeInv'
  OBVIOUS
<1> USE DEF PipeInv
<1>0. TypeInv'
  BY TypeStep
<1>1. CASE Start
  <2>1. Running' /\ start' = ckpt /\ cursor' = ckpt /\ seq' = 1
        /\ UNCHANGED <<ckpt, handled, workCh, resultCh, item, pending, nextToApply, latest>>
    BY <1>1 DEF Start, Running, disk, apply, ghost
  <2>2. workCh = <<>> /\ resultCh = <<>> /\ pending = {} /\ nextToApply = 1 /\ latest = 0
    BY <1>1 DEF Start, TypeInv, Rest
  <2>3. \A w \in Workers : worker'[w] = "idle"
    BY <1>1 DEF Start
  <2>4. Underway' = {}
    BY <2>1, <2>2, <2>3, NoElems DEF Underway, Held, Holding
  <2>5. Numbered'
    BY <2>1, <2>2, <2>4 DEF Numbered, TypeInv, TypeOK
  <2>6. GoneThrough'
    BY <2>1, <2>2, <2>3, NoElems DEF GoneThrough, TypeInv, TypeOK
  <2> QED  BY <1>0, <2>5, <2>6
<1>2. CASE Abort
  <2>1. Stop /\ UNCHANGED <<ckpt, handled>>
    BY <1>2 DEF Abort, disk, ghost
  <2> QED  BY <1>0, <2>1, NoElems DEF Stop, Numbered, GoneThrough, Running
<1>3. CASE DeleteMessage \/ UNCHANGED vars
  <2>1. UNCHANGED <<disk, main, start, producer, workCh, resultCh, worker, item, apply, ghost>>
    BY <1>3 DEF DeleteMessage, vars
  <2>2. Numbered'
    BY <2>1, UnderwaySame DEF Numbered, Running, producer, apply
  <2>3. GoneThrough'
    BY <2>1 DEF GoneThrough, Running, disk, apply, ghost
  <2> QED  BY <1>0, <2>2, <2>3
<1> QED
  BY <1>1, <1>2, <1>3, PipeProduce, PipeDownload, PipeCollect DEF Next

(* The pipeline implements the ordered checkpoint, with any number of      *)
(* workers: what is saved is never beyond a row that was not gone through. *)
THEOREM ImplementsCheckpointTheorem == Spec => ImplementsCheckpoint
<1>1. Init => Abstract!Init
  BY DEF Init, Abstract!Init
<1>2. PipeInv /\ [Next]_vars => [Abstract!Next]_<<handled, ckpt>>
  <2> SUFFICES ASSUME PipeInv, [Next]_vars
               PROVE  Abstract!Next \/ UNCHANGED <<handled, ckpt>>
    OBVIOUS
  <2> USE DEF PipeInv
  <2>1. ASSUME NEW w \in Workers, Download(w)
        PROVE  Abstract!Next \/ UNCHANGED <<handled, ckpt>>
    <3>1. CASE Take(w) \/ Put(w) \/ Exit(w)
      BY <3>1 DEF Take, Put, Exit, disk, ghost
    <3>2. CASE Present(w) \/ FetchBody(w) \/ BodyGone(w) \/ FetchMeta(w) \/ Deliver(w) \/ Fails(w)
      <4>1. item[w].row \in 1 .. N
        BY <3>2 DEF Present, FetchBody, BodyGone, FetchMeta, Deliver, Fails, Work,
                    TypeInv, Holding, Item
      <4>2. ckpt' = ckpt /\ (handled' = handled \/ Through(w))
        BY <3>2 DEF Present, FetchBody, BodyGone, FetchMeta, Deliver, Fails, Work, ghost
      <4> QED  BY <4>1, <4>2 DEF Through, Abstract!Next, Abstract!Handle
    <3> QED  BY <2>1, <3>1, <3>2 DEF Download
  <2>2. CASE Flush \/ FinalFlush
    <3>1. handled' = handled /\ (ckpt' = ckpt \/ (latest # 0 /\ ckpt' = latest))
      BY <2>2 DEF Flush, FinalFlush, Flushing, ghost
    <3>2. Running
      BY <2>2 DEF Flush, FinalFlush, Running
    <3>3. ASSUME latest # 0 PROVE latest >= ckpt /\ latest \in 1 .. N
      BY <3>2, <3>3, ArchiveAssumption DEF GoneThrough, TypeInv, TypeOK
    <3>4. ASSUME latest # 0 PROVE 1 .. latest \subseteq handled
      BY <3>2, <3>4 DEF GoneThrough, TypeInv, TypeOK
    <3> QED  BY <3>1, <3>3, <3>4 DEF Abstract!Next, Abstract!Save
  <2>3. CASE Start \/ Produce \/ Receive \/ Return \/ Abort \/ DeleteMessage \/ UNCHANGED vars
    BY <2>3 DEF Start, Produce, Query, QueryFails, Send, Receive, Return, Abort, DeleteMessage,
                vars, disk, ghost
  <2> QED  BY <2>1, <2>2, <2>3 DEF Next, Collect
<1> QED
  BY <1>1, <1>2, PipeInit, PipeStep, PTL DEF Spec, ImplementsCheckpoint, Abstract!Spec

-----------------------------------------------------------------------------
(* What has been gone through needs no download any more.                  *)
Settled == \A r \in handled : Archived(r) \/ r \in failed

(* The end of a download settles its row, and the mailbox only loses       *)
(* messages.                                                               *)
LEMMA SettledStep ==
    ASSUME TypeInv, Settled, [Next]_vars
    PROVE  Settled'
<1>1. CASE \E w \in Workers : Download(w)
  <2>1. PICK w \in Workers : Download(w)
    BY <1>1
  <2>2. file \subseteq file' /\ failed \subseteq failed' /\ live' = live
    BY <2>1 DEF Download, Take, Present, FetchBody, BodyGone, FetchMeta, Deliver, Fails, Put,
                Exit, Work, disk, ghost
  <2>3. \A r \in handled : Archived(r)' \/ r \in failed'
    BY <2>2 DEF Settled, Archived
  <2>4. PICK r : r = item[w].row
    OBVIOUS
  <2>5. \/ handled' = handled
        \/ handled' = handled \union {r} /\ (Archived(r)' \/ r \in failed')
    <3>1. CASE Take(w) \/ FetchBody(w) \/ FetchMeta(w) \/ Put(w) \/ Exit(w)
      BY <3>1 DEF Take, FetchBody, FetchMeta, Put, Exit, ghost
    <3>2. CASE Present(w) \/ BodyGone(w) \/ Deliver(w)
      BY <2>2, <2>4, <3>2 DEF Present, BodyGone, Deliver, Through, Mine, Archived
    <3>3. CASE Fails(w)
      BY <2>4, <3>3 DEF Fails, Through
    <3> QED  BY <2>1, <3>1, <3>2, <3>3 DEF Download
  <2> QED  BY <2>3, <2>5 DEF Settled
<1>2. CASE ~\E w \in Workers : Download(w)
  <2>1. UNCHANGED <<file, ghost>> /\ live' \subseteq live
    BY <1>2 DEF Next, Start, Produce, Query, QueryFails, Send, Collect, Receive, Flush,
                FinalFlush, Return, Abort, DeleteMessage, vars, disk
  <2> QED  BY <2>1 DEF Settled, Archived, ghost
<1> QED
  BY <1>1, <1>2

(* A row behind the checkpoint has its file, needs none, or failed.        *)
THEOREM CheckpointCoversTheorem == Spec => []CheckpointCovers
<1>1. Init => Settled
  BY DEF Init, Settled
<1>2. PipeInv /\ Settled => CheckpointCovers
  BY DEF PipeInv, GoneThrough, Settled, CheckpointCovers
<1>3. PipeInv /\ Settled /\ [Next]_vars => PipeInv' /\ Settled'
  BY PipeStep, SettledStep DEF PipeInv
<1> QED
  BY <1>1, <1>2, <1>3, PipeInit, PTL DEF Spec

-----------------------------------------------------------------------------
(* Every number below that of the next item is applied or underway, and a  *)
(* result that could be applied is not kept waiting.                       *)
NoGap ==
    Running =>
        /\ \A k \in nextToApply .. seq - 1 : \E x \in Underway : x.seq = k
        /\ \A x \in pending : x.seq # nextToApply

(* A worker exits when workCh is closed and empty; a producer that is done *)
(* has come to the end of the list, or leaves its error.                   *)
AtEnd ==
    /\ Running => /\ \A w \in Workers : worker[w] = "exited" => prod = "done" /\ workCh = <<>>
                  /\ prod = "done" /\ ~prodErr => cursor = N
    /\ main = "return" => /\ resultCh = <<>> /\ \A w \in Workers : worker[w] = "exited"
                          /\ latest = 0 \/ ckpt = latest
    /\ outcome = "ok" => main = "idle" /\ ckpt = N

EndInv == PipeInv /\ NoGap /\ AtEnd

(* At the end of the pipeline nothing is underway.                         *)
LEMMA NothingLeft ==
    ASSUME EndInv, main = "return"
    PROVE  ~prodErr => ckpt = N
<1> USE DEF EndInv, PipeInv
<1>1. Running /\ prod = "done" /\ workCh = <<>> /\ resultCh = <<>>
  BY ArchiveAssumption DEF AtEnd, Running
<1>2. Held = {}
  BY DEF AtEnd, Held, Holding
<1>3. Underway = pending
  BY <1>1, <1>2, NoElems DEF Underway
<1>4. nextToApply = seq
  <2>1. ASSUME nextToApply # seq PROVE FALSE
    <3>1. nextToApply \in nextToApply .. seq - 1
      BY <1>1, <2>1 DEF Numbered, TypeInv, TypeOK
    <3> QED  BY <1>1, <1>3, <3>1 DEF NoGap
  <2> QED  BY <2>1
<1>5. ASSUME ~prodErr PROVE ckpt = N
  <2>1. start + seq - 1 = N /\ start <= ckpt /\ ckpt \in 0 .. N /\ seq \in Nat /\ start \in Nat
    BY <1>1, <1>5 DEF AtEnd, Numbered, GoneThrough, TypeInv, TypeOK
  <2>2. CASE latest = 0
    <3>1. nextToApply = 1
      BY <1>1, <2>2, ArchiveAssumption DEF GoneThrough, TypeInv, TypeOK
    <3> QED  BY <1>4, <2>1, <3>1, ArchiveAssumption
  <2>3. CASE latest # 0
    <3>1. latest = start + nextToApply - 1 /\ ckpt = latest
      BY <1>1, <2>3 DEF GoneThrough, AtEnd
    <3> QED  BY <1>4, <2>1, <3>1
  <2> QED  BY <2>2, <2>3
<1> QED
  BY <1>5

(* A step of the producer leaves no gap, and ends it only at the end of    *)
(* the list or with an error.                                              *)
LEMMA EndProduce ==
    ASSUME EndInv, Produce
    PROVE  NoGap' /\ AtEnd'
<1> USE DEF EndInv, PipeInv
<1>1. UNCHANGED <<main, start, ckpt, worker, item, resultCh, pending, nextToApply, latest, outcome>>
  BY DEF Produce, Query, QueryFails, Send, disk, apply
<1>2. prod # "done" /\ Running
  BY DEF Produce, Query, QueryFails, Send, TypeInv, Rest, Running
<1>3. \A w \in Workers : worker[w] # "exited"
  BY <1>2 DEF AtEnd
<1>4. main # "return" /\ outcome # "ok"
  BY <1>2, <1>3, ArchiveAssumption DEF AtEnd, Running
<1>5. prod' = "done" /\ ~prodErr' => cursor' = N
  <2>1. CASE Query
    BY <2>1, ArchiveAssumption DEF Query, LowerOf, TypeInv, TypeOK
  <2>2. CASE QueryFails
    BY <2>2 DEF QueryFails
  <2>3. CASE Send
    BY <2>3 DEF Send
  <2> QED  BY <2>1, <2>2, <2>3 DEF Produce
<1>6. AtEnd'
  BY <1>1, <1>3, <1>4, <1>5 DEF AtEnd
<1>7. NoGap'
  <2>1. CASE Query \/ QueryFails
    BY <2>1, <1>1, UnderwaySame DEF NoGap, Running, Query, QueryFails
  <2>2. CASE Send
    <3> DEFINE x == [seq |-> seq, row |-> cursor + 1]
    <3>1. x \in Item
      BY <2>2, ArchiveAssumption DEF Send, TypeInv, TypeOK, InBatch, Item
    <3>2. Elems(workCh') = Elems(workCh) \union {x}
      BY <2>2, <3>1, SendElems DEF Send, TypeInv, TypeOK
    <3>3. Underway' = Underway \union {x} /\ x.seq = seq
      BY <1>1, <3>2 DEF Underway, Held, Holding
    <3> HIDE DEF x
    <3>4. seq' = seq + 1
      BY <2>2 DEF Send
    <3>5. ASSUME NEW k \in nextToApply .. seq PROVE \E y \in Underway' : y.seq = k
      <4>1. CASE k = seq
        BY <4>1, <3>3
      <4>2. CASE k # seq
        <5>1. k \in nextToApply .. seq - 1
          BY <4>2 DEF TypeInv, TypeOK
        <5> QED  BY <5>1, <1>2, <3>3 DEF NoGap
      <4> QED  BY <4>1, <4>2
    <3>6. seq' - 1 = seq
      BY <3>4 DEF TypeInv, TypeOK
    <3>7. \A k \in nextToApply' .. seq' - 1 : \E y \in Underway' : y.seq = k
      BY <1>1, <3>5, <3>6
    <3> QED  BY <1>1, <1>2, <3>7 DEF NoGap
  <2> QED  BY <2>1, <2>2 DEF Produce
<1> QED
  BY <1>6, <1>7

(* A step of a worker loses no number.                                     *)
LEMMA EndDownload ==
    ASSUME EndInv, NEW w \in Workers, Download(w)
    PROVE  NoGap' /\ AtEnd'
<1> USE DEF EndInv, PipeInv
<1>1. UNCHANGED <<main, start, ckpt, producer, pending, nextToApply, latest, outcome>>
  BY DEF Download, Take, Present, FetchBody, BodyGone, FetchMeta, Deliver, Fails, Put, Exit,
         Work, disk, apply
<1>2. Underway' = Underway
  BY UnderwayKept
<1>3. NoGap'
  BY <1>1, <1>2 DEF NoGap, Running, producer
<1>4. worker[w] # "exited"
  BY DEF Download, Take, Present, FetchBody, BodyGone, FetchMeta, Deliver, Fails, Put, Exit, Work
<1>5. Running
  BY <1>4 DEF TypeInv, Rest, Running
<1>6. main # "return" /\ outcome # "ok"
  BY <1>4, <1>5 DEF AtEnd, Running
<1>7. ASSUME NEW v \in Workers, worker'[v] = "exited"
      PROVE  prod = "done" /\ workCh' = <<>>
  <2>1. CASE Exit(w)
    BY <2>1 DEF Exit
  <2>2. CASE ~Exit(w)
    <3>1. worker[v] = "exited"
      BY <2>2, <1>7 DEF Download, Take, Present, FetchBody, BodyGone, FetchMeta, Deliver, Fails,
                        Put, Work, TypeInv, TypeOK
    <3>2. prod = "done" /\ workCh = <<>>
      BY <3>1, <1>5 DEF AtEnd
    <3> QED  BY <3>2, <2>2 DEF Download, Take, Present, FetchBody, BodyGone, FetchMeta, Deliver,
                               Fails, Put, Work
  <2> QED  BY <2>1, <2>2
<1>8. AtEnd'
  BY <1>1, <1>5, <1>6, <1>7 DEF AtEnd, Running, producer
<1> QED
  BY <1>3, <1>8

(* The main loop applies what it has in order, forces the last checkpoint  *)
(* out, and reports success only then.                                     *)
LEMMA EndCollect ==
    ASSUME EndInv, Collect
    PROVE  NoGap' /\ AtEnd'
<1> USE DEF EndInv, PipeInv
<1>1. CASE Receive
  <2>1. PICK n \in Nat :
             /\ nextToApply <= n /\ nextToApply' = n
             /\ \A x \in Underway : x.seq >= n => x \in Underway'
             /\ \A x \in pending' : x.seq # n
    BY <1>1, Applies
  <2>2. /\ main = "loop" /\ main' = "flush"
        /\ UNCHANGED <<start, ckpt, prod, cursor, seq, prodErr, workCh, worker, outcome>>
    BY <1>1 DEF Receive, producer, disk
  <2>3. Running /\ Running' /\ outcome # "ok"
    BY <2>2 DEF AtEnd, Running
  <2>4. ASSUME NEW k \in n .. seq - 1 PROVE \E x \in Underway' : x.seq = k
    <3>1. k \in nextToApply .. seq - 1
      BY <2>1 DEF TypeInv, TypeOK
    <3> QED  BY <2>1, <2>3, <3>1 DEF NoGap
  <2>5. NoGap'
    BY <2>1, <2>2, <2>4 DEF NoGap
  <2>6. AtEnd'
    BY <2>2, <2>3 DEF AtEnd
  <2> QED  BY <2>5, <2>6
<1>2. CASE Flush \/ FinalFlush
  <2>1. UNCHANGED <<start, producer, workCh, resultCh, worker, item, pending, nextToApply,
                    latest, outcome>>
    BY <1>2 DEF Flush, FinalFlush
  <2>2. Running /\ Running' /\ outcome # "ok"
    BY <1>2 DEF Flush, FinalFlush, Running, AtEnd
  <2>3. NoGap'
    BY <2>1, <2>2, UnderwaySame DEF NoGap, producer
  <2>4. main' = "return" => /\ resultCh' = <<>> /\ \A w \in Workers : worker'[w] = "exited"
                            /\ latest' = 0 \/ ckpt' = latest'
    BY <1>2, <2>1 DEF Flush, FinalFlush, Flushing
  <2>5. AtEnd'
    BY <2>1, <2>2, <2>4 DEF AtEnd, producer
  <2> QED  BY <2>3, <2>5
<1>3. CASE Return
  <2>1. main' = "idle" /\ ckpt' = ckpt /\ (outcome' = "ok" => ~prodErr)
    BY <1>3 DEF Return, Stop, disk
  <2>2. outcome' = "ok" => ckpt' = N
    BY <2>1, <1>3, NothingLeft DEF Return
  <2> QED  BY <2>1, <2>2 DEF NoGap, AtEnd, Running
<1> QED
  BY <1>1, <1>2, <1>3 DEF Collect

(* Every step keeps the invariant.                                         *)
LEMMA EndStep == EndInv /\ [Next]_vars => EndInv'
<1> SUFFICES ASSUME EndInv, [Next]_vars PROVE NoGap' /\ AtEnd'
  BY PipeStep DEF EndInv
<1> USE DEF EndInv, PipeInv
<1>1. CASE Start
  <2>1. /\ Running' /\ main' # "return" /\ outcome' # "ok" /\ prod' = "query" /\ seq' = 1
        /\ nextToApply' = 1 /\ pending' = {} /\ \A w \in Workers : worker'[w] = "idle"
    BY <1>1 DEF Start, Running, TypeInv, Rest, apply
  <2> QED  BY <2>1 DEF NoGap, AtEnd
<1>2. CASE Abort
  BY <1>2 DEF Abort, Stop, NoGap, AtEnd, Running
<1>3. CASE DeleteMessage \/ UNCHANGED vars
  <2>1. UNCHANGED <<disk, main, start, producer, workCh, resultCh, worker, item, apply, outcome>>
    BY <1>3 DEF DeleteMessage, vars
  <2>2. NoGap'
    BY <2>1, UnderwaySame DEF NoGap, Running, producer, apply
  <2>3. AtEnd'
    BY <2>1 DEF AtEnd, Running, producer, apply, disk
  <2> QED  BY <2>2, <2>3
<1> QED
  BY <1>1, <1>2, <1>3, EndProduce, EndDownload, EndCollect DEF Next

(* At first nothing is underway and nothing has been returned.             *)
LEMMA EndInit == Init => EndInv
  BY PipeInit DEF Init, EndInv, NoGap, AtEnd, Running

(* A run that reports success has gone through the whole list.             *)
THEOREM CompleteWhenOkTheorem == Spec => []CompleteWhenOk
<1>1. EndInv => CompleteWhenOk
  BY DEF EndInv, AtEnd, CompleteWhenOk
<1> QED
  BY <1>1, EndInit, EndStep, PTL DEF Spec

-----------------------------------------------------------------------------
Once(s) == \A i, j \in DOMAIN s : s[i] = s[j] => i = j

(* The places an item can be in have none in common, and no item is in one *)
(* of them twice or waits there after it was applied.                      *)
Apart ==
    /\ \A w \in Workers : ~Holding(w) => item[w] = NoItem
    /\ Once(workCh) /\ Once(resultCh)
    /\ \A v, w \in Workers : Holding(v) /\ Holding(w) /\ item[v] = item[w] => v = w
    /\ Elems(workCh) \intersect (Held \union Elems(resultCh) \union pending) = {}
    /\ Held \intersect (Elems(resultCh) \union pending) = {}
    /\ Elems(resultCh) \intersect pending = {}
    /\ Running => \A x \in Underway : x.seq >= nextToApply

(* A new item keeps a channel free of repetitions.                         *)
LEMMA OnceSent ==
    ASSUME NEW S, NEW s \in Seq(S), NEW x \in S, Once(s), x \notin Elems(s)
    PROVE  Once(Append(s, x))
<1>1. DOMAIN s = 1 .. Len(s) /\ DOMAIN Append(s, x) = 1 .. Len(s) + 1 /\ Len(s) \in Nat
  OBVIOUS
<1>2. \A i \in 1 .. Len(s) : Append(s, x)[i] = s[i] /\ s[i] # x
  BY <1>1 DEF Elems
<1>3. Append(s, x)[Len(s) + 1] = x
  OBVIOUS
<1> SUFFICES ASSUME NEW i \in 1 .. Len(s) + 1, NEW j \in 1 .. Len(s) + 1,
                    Append(s, x)[i] = Append(s, x)[j]
             PROVE  i = j
  BY <1>1 DEF Once
<1>4. CASE i = Len(s) + 1
  BY <1>1, <1>2, <1>3, <1>4
<1>5. CASE j = Len(s) + 1
  BY <1>1, <1>2, <1>3, <1>5
<1>6. CASE i # Len(s) + 1 /\ j # Len(s) + 1
  <2>1. i \in DOMAIN s /\ j \in DOMAIN s
    BY <1>1, <1>6
  <2> QED  BY <1>1, <1>2, <2>1 DEF Once
<1> QED
  BY <1>4, <1>5, <1>6

(* The item that is received is not in the channel any more.               *)
LEMMA OnceReceived ==
    ASSUME NEW S, NEW s \in Seq(S), s # <<>>, Once(s)
    PROVE  Once(Tail(s)) /\ Head(s) \notin Elems(Tail(s))
<1>1. DOMAIN s = 1 .. Len(s) /\ DOMAIN Tail(s) = 1 .. Len(s) - 1 /\ Len(s) \in Nat \ {0}
  OBVIOUS
<1>2. Head(s) = s[1] /\ \A i \in 1 .. Len(s) - 1 : Tail(s)[i] = s[i + 1]
  OBVIOUS
<1>3. \A i \in 1 .. Len(s) - 1 : i + 1 \in DOMAIN s /\ i + 1 # 1
  BY <1>1
<1>4. 1 \in DOMAIN s
  BY <1>1
<1>5. Head(s) \notin Elems(Tail(s))
  BY <1>1, <1>2, <1>3, <1>4 DEF Once, Elems
<1>6. Once(Tail(s))
  <2> SUFFICES ASSUME NEW i \in 1 .. Len(s) - 1, NEW j \in 1 .. Len(s) - 1,
                      Tail(s)[i] = Tail(s)[j]
               PROVE  i = j
    BY <1>1 DEF Once
  <2>1. s[i + 1] = s[j + 1]
    BY <1>2
  <2>2. i + 1 = j + 1
    BY <1>3, <2>1 DEF Once
  <2> QED  BY <2>2
<1> QED
  BY <1>5, <1>6

(* Two items underway with the same number are the same.                   *)
LEMMA SameNumber ==
    ASSUME PipeInv, Running, NEW x \in Underway, NEW y \in Underway,
           x.seq = y.seq \/ x.row = y.row
    PROVE  x = y
<1>1. x \in Item /\ y \in Item
  BY UnderwayItems DEF PipeInv
<1>2. x.row = start + x.seq /\ y.row = start + y.seq
  BY DEF PipeInv, Numbered
<1>3. start \in Nat
  BY DEF PipeInv, TypeInv, TypeOK
<1>4. x.seq = y.seq /\ x.row = y.row
  BY <1>1, <1>2, <1>3 DEF Item
<1> QED
  BY <1>1, <1>4 DEF Item

(* Nothing is apart from nothing.                                          *)
LEMMA ApartEmpty ==
    ASSUME workCh = <<>>, resultCh = <<>>, pending = {}, \A w \in Workers : ~Holding(w),
           \A w \in Workers : item[w] = NoItem
    PROVE  Apart
<1>1. Held = {} /\ Elems(workCh) = {} /\ Elems(resultCh) = {}
  BY NoElems DEF Held
<1>2. Once(workCh) /\ Once(resultCh)
  BY DEF Once
<1> QED
  BY <1>1, <1>2 DEF Apart, Underway

(* The producer sends an item with a new number.                           *)
LEMMA ApartProduce ==
    ASSUME PipeInv, Apart, Produce
    PROVE  Apart'
<1>1. UNCHANGED <<main, worker, item, resultCh, pending, nextToApply>>
  BY DEF Produce, Query, QueryFails, Send, apply
<1>2. Held' = Held /\ \A w \in Workers : Holding(w)' <=> Holding(w)
  BY <1>1 DEF Held, Holding
<1>3. CASE Query \/ QueryFails
  <2>1. workCh' = workCh
    BY <1>3 DEF Query, QueryFails
  <2> QED  BY <1>1, <1>2, <2>1 DEF Apart, Underway, Running
<1>4. CASE Send
  <2> DEFINE x == [seq |-> seq, row |-> cursor + 1]
  <2>1. x \in Item
    BY <1>4, ArchiveAssumption DEF Send, PipeInv, TypeInv, TypeOK, InBatch, Item
  <2>2. Running
    BY <1>4 DEF Send, PipeInv, TypeInv, Rest, Running
  <2>3. x.seq = seq /\ seq \in Nat /\ nextToApply \in Nat /\ nextToApply <= seq
    BY <2>2 DEF PipeInv, TypeInv, TypeOK, Numbered
  <2>4. workCh' = Append(workCh, x) /\ workCh \in Seq(Item)
    BY <1>4 DEF Send, PipeInv, TypeInv, TypeOK
  <2> HIDE DEF x
  <2>5. x \notin Underway
    BY <2>2, <2>3 DEF PipeInv, Numbered
  <2>6. Elems(workCh') = Elems(workCh) \union {x}
    BY <2>1, <2>4, SendElems
  <2>7. Once(workCh')
    BY <2>1, <2>4, <2>5, OnceSent DEF Apart, Underway
  <2>8. Underway' = Underway \union {x}
    BY <1>1, <1>2, <2>6 DEF Underway
  <2>9. \A y \in Underway' : y.seq >= nextToApply
    BY <2>2, <2>3, <2>8 DEF Apart
  <2> QED  BY <1>1, <1>2, <2>5, <2>6, <2>7, <2>9 DEF Apart, Underway, Running
<1> QED
  BY <1>3, <1>4 DEF Produce

(* A worker moves the item it works on, and has only one.                  *)
LEMMA ApartDownload ==
    ASSUME PipeInv, Apart, NEW w \in Workers, Download(w)
    PROVE  Apart'
<1> USE DEF PipeInv
<1>1. Underway' = Underway
  BY UnderwayKept
<1>2. UNCHANGED <<main, pending, nextToApply>>
  BY DEF Download, Take, Present, FetchBody, BodyGone, FetchMeta, Deliver, Fails, Put, Exit,
         Work, apply
<1>3. Running' => \A x \in Underway' : x.seq >= nextToApply'
  BY <1>1, <1>2 DEF Apart, Running
<1>4. CASE Take(w)
  <2> DEFINE h == Head(workCh)
  <2>1. workCh \in Seq(Item) /\ workCh # <<>> /\ workCh' = Tail(workCh) /\ resultCh' = resultCh
    BY <1>4 DEF Take, TypeInv, TypeOK
  <2>2. h \in Item /\ Elems(workCh) = {h} \union Elems(workCh')
    BY <2>1, ReceiveElems
  <2>3. Once(workCh') /\ h \notin Elems(workCh')
    BY <2>1, OnceReceived DEF Apart
  <2>4. ~Holding(w) /\ Holding(w)' /\ item'[w] = h
    BY <1>4 DEF Take, Holding, TypeInv, TypeOK
  <2>5. \A v \in Workers \ {w} : (Holding(v)' <=> Holding(v)) /\ item'[v] = item[v]
    BY <1>4 DEF Take, Holding, TypeInv, TypeOK
  <2> HIDE DEF h
  <2>6. Held' = Held \union {h}
    BY <2>4, <2>5 DEF Held
  <2>7. h \notin Held
    BY <2>2 DEF Apart
  <2>8. \A u, v \in Workers : Holding(u)' /\ Holding(v)' /\ item'[u] = item'[v] => u = v
    <3>1. \A v \in Workers \ {w} : Holding(v) => item[v] # h
      BY <2>7 DEF Held
    <3> QED  BY <2>4, <2>5, <3>1 DEF Apart
  <2>9. \A v \in Workers : ~Holding(v)' => item'[v] = NoItem
    BY <2>4, <2>5 DEF Apart
  <2> QED  BY <1>2, <1>3, <2>1, <2>2, <2>3, <2>6, <2>8, <2>9 DEF Apart
<1>5. CASE Present(w) \/ FetchBody(w) \/ BodyGone(w) \/ FetchMeta(w) \/ Deliver(w) \/ Fails(w)
  <2>1. PICK from \in {"check", "meta", "deliver"}, to \in {"meta", "deliver", "put"} :
            Work(w, from, to)
    BY <1>5 DEF Present, FetchBody, BodyGone, FetchMeta, Deliver, Fails
  <2>2. UNCHANGED <<workCh, resultCh, item>>
    BY <2>1 DEF Work
  <2>3. \A v \in Workers : Holding(v)' <=> Holding(v)
    BY <2>1 DEF Work, Holding, TypeInv, TypeOK
  <2>4. Held' = Held
    BY <2>2, <2>3 DEF Held
  <2> QED  BY <1>2, <1>3, <2>2, <2>3, <2>4 DEF Apart
<1>6. CASE Put(w)
  <2>1. resultCh \in Seq(Item) /\ resultCh' = Append(resultCh, item[w]) /\ workCh' = workCh
    BY <1>6 DEF Put, TypeInv, TypeOK
  <2>2. Holding(w) /\ ~Holding(w)' /\ item'[w] = NoItem /\ item[w] \in Item
    BY <1>6 DEF Put, Holding, TypeInv, TypeOK
  <2>3. \A v \in Workers \ {w} : (Holding(v)' <=> Holding(v)) /\ item'[v] = item[v]
    BY <1>6 DEF Put, Holding, TypeInv, TypeOK
  <2>4. Held = Held' \union {item[w]}
    BY <2>2, <2>3 DEF Held
  <2>5. item[w] \notin Held'
    BY <2>2, <2>3 DEF Held, Apart
  <2>6. Elems(resultCh') = Elems(resultCh) \union {item[w]}
    BY <2>1, <2>2, SendElems
  <2>7. Once(resultCh')
    <3>1. item[w] \notin Elems(resultCh)
      BY <2>4 DEF Apart
    <3> QED  BY <2>1, <2>2, <3>1, OnceSent DEF Apart
  <2>8. \A u, v \in Workers : Holding(u)' /\ Holding(v)' /\ item'[u] = item'[v] => u = v
    BY <2>2, <2>3 DEF Apart
  <2>9. \A v \in Workers : ~Holding(v)' => item'[v] = NoItem
    BY <2>2, <2>3 DEF Apart
  <2> QED  BY <1>2, <1>3, <2>1, <2>4, <2>5, <2>6, <2>7, <2>8, <2>9 DEF Apart
<1>7. CASE Exit(w)
  <2>1. UNCHANGED <<workCh, resultCh, item>>
    BY <1>7 DEF Exit
  <2>2. \A v \in Workers : Holding(v)' <=> Holding(v)
    BY <1>7 DEF Exit, Holding, TypeInv, TypeOK
  <2>3. Held' = Held
    BY <2>1, <2>2 DEF Held
  <2> QED  BY <1>2, <1>3, <2>1, <2>2, <2>3 DEF Apart
<1> QED
  BY <1>4, <1>5, <1>6, <1>7 DEF Download

(* The main loop applies what is in the reorder buffer and nowhere else.   *)
LEMMA ApartReceive ==
    ASSUME PipeInv, Apart, Receive
    PROVE  Apart'
<1> USE DEF PipeInv
<1> DEFINE P == pending \union {Head(resultCh)}
<1>1. PICK n \in nextToApply .. nextToApply + N :
          InOrder(P, n) /\ nextToApply' = n /\ pending' = Waiting(P, n)
  BY DEF Receive
<1>2. n \in Nat /\ nextToApply \in Nat /\ nextToApply <= n
  BY <1>1, ArchiveAssumption DEF TypeInv, TypeOK
<1>3. /\ resultCh \in Seq(Item) /\ resultCh # <<>> /\ resultCh' = Tail(resultCh)
      /\ UNCHANGED <<workCh, worker, item>> /\ Running /\ Running'
  BY DEF Receive, TypeInv, TypeOK, Running
<1>4. Elems(resultCh) = {Head(resultCh)} \union Elems(resultCh')
  BY <1>3, ReceiveElems
<1>5. Once(resultCh') /\ Head(resultCh) \notin Elems(resultCh')
  BY <1>3, OnceReceived DEF Apart
<1>6. Held' = Held /\ \A v \in Workers : Holding(v)' <=> Holding(v)
  BY <1>3 DEF Held, Holding
<1>7. P \subseteq Underway /\ Underway \subseteq Item
  BY <1>4, UnderwayItems DEF Underway
<1>8. P \intersect (Elems(workCh) \union Held \union Elems(resultCh')) = {}
  BY <1>4, <1>5 DEF Apart
<1> HIDE DEF P
<1>9. pending' \subseteq P
  BY <1>1 DEF Waiting
<1>10. ASSUME NEW x \in Underway'
       PROVE  x.seq >= n
  <2>1. x \in Underway /\ x \in Item /\ x.seq >= nextToApply
    BY <1>3, <1>4, <1>6, <1>7, <1>9 DEF Underway, Apart
  <2>2. CASE x \in pending'
    <3>1. x.seq \notin nextToApply .. n - 1
      BY <1>1, <2>2 DEF Waiting
    <3> QED  BY <1>2, <2>1, <3>1 DEF Item
  <2>3. CASE x \notin pending'
    <3>1. x \notin P
      BY <1>3, <1>6, <1>8, <2>3 DEF Underway
    <3>2. ASSUME x.seq < n PROVE FALSE
      <4>1. x.seq \in nextToApply .. n - 1
        BY <1>2, <2>1, <3>2 DEF Item
      <4>2. PICK y \in P : y.seq = x.seq
        BY <1>1, <4>1 DEF InOrder
      <4> QED  BY <1>3, <1>7, <2>1, <3>1, <4>2, SameNumber
    <3> QED  BY <1>2, <2>1, <3>2 DEF Item
  <2> QED  BY <2>2, <2>3
<1> QED
  BY <1>1, <1>3, <1>4, <1>5, <1>6, <1>8, <1>9, <1>10 DEF Apart

(* Every step keeps the places apart; a new run begins with nothing.       *)
LEMMA ApartStep ==
    ASSUME PipeInv, Apart, [Next]_vars
    PROVE  Apart'
<1>1. CASE Start
  <2>1. /\ workCh' = <<>> /\ resultCh' = <<>> /\ pending' = {} /\ item' = item
        /\ \A w \in Workers : worker[w] = "exited" /\ worker'[w] = "idle"
    BY <1>1 DEF Start, PipeInv, TypeInv, Rest, apply
  <2>2. \A w \in Workers : ~Holding(w) /\ ~Holding(w)'
    BY <2>1 DEF Holding
  <2>3. \A w \in Workers : item'[w] = NoItem
    BY <2>1, <2>2 DEF Apart
  <2>4. Held' = {} /\ Elems(workCh') = {} /\ Elems(resultCh') = {}
    BY <2>1, <2>2, NoElems DEF Held
  <2>5. Once(workCh') /\ Once(resultCh')
    BY <2>1 DEF Once
  <2> QED  BY <2>1, <2>2, <2>3, <2>4, <2>5 DEF Apart, Underway
<1>2. CASE Abort \/ Return
  <2>1. Stop
    BY <1>2 DEF Abort, Return
  <2>2. /\ workCh' = <<>> /\ resultCh' = <<>> /\ pending' = {}
        /\ \A w \in Workers : ~Holding(w)' /\ item'[w] = NoItem
    BY <2>1 DEF Stop, Holding
  <2>3. Held' = {} /\ Elems(workCh') = {} /\ Elems(resultCh') = {}
    BY <2>2, NoElems DEF Held
  <2>4. Once(workCh') /\ Once(resultCh')
    BY <2>2 DEF Once
  <2> QED  BY <2>2, <2>3, <2>4 DEF Apart, Underway
<1>3. CASE Flush \/ FinalFlush \/ DeleteMessage \/ UNCHANGED vars
  <2>1. UNCHANGED <<workCh, resultCh, worker, item, pending, nextToApply>>
    BY <1>3 DEF Flush, FinalFlush, DeleteMessage, vars, apply
  <2>2. Running' => Running
    BY <1>3 DEF Flush, FinalFlush, DeleteMessage, vars, Running
  <2>3. Underway' = Underway /\ Held' = Held /\ \A w \in Workers : Holding(w)' <=> Holding(w)
    BY <2>1, UnderwaySame DEF Held, Holding
  <2> QED  BY <2>1, <2>2, <2>3 DEF Apart
<1> QED
  BY <1>1, <1>2, <1>3, ApartProduce, ApartDownload, ApartReceive DEF Next, Collect

(* The places of a row, one by one.                                        *)
LEMMA PlacesAre ==
    ASSUME NEW r
    PROVE  /\ Places(r)[1] = {i \in DOMAIN workCh : workCh[i].row = r}
           /\ Places(r)[2] = {i \in DOMAIN resultCh : resultCh[i].row = r}
           /\ Places(r)[3] = {w \in Workers : item[w].row = r}
           /\ Places(r)[4] = {x \in pending : x.row = r}
           /\ Places(r)[5] = {p \in {start + nextToApply - 1} : r <= p}
  BY DEF Places

(* A row is in a channel once if an item of the channel has it, and not at *)
(* all if none has.                                                        *)
LEMMA InChannel ==
    ASSUME NEW s, Once(s), NEW r, \A x, y \in Elems(s) : x.row = r /\ y.row = r => x = y
    PROVE  LET In == {i \in DOMAIN s : s[i].row = r}
           IN  /\ (\E x \in Elems(s) : x.row = r) => \E i \in In : In = {i}
               /\ (\A x \in Elems(s) : x.row # r) => In = {}
<1> DEFINE In == {i \in DOMAIN s : s[i].row = r}
<1>1. ASSUME NEW i \in In, NEW j \in In PROVE i = j
  BY <1>1 DEF Elems, Once
<1>2. ASSUME NEW x \in Elems(s), x.row = r PROVE \E i \in In : In = {i}
  <2>1. PICK i \in In : s[i] = x
    BY <1>2 DEF Elems
  <2> QED  BY <1>1, <2>1
<1>3. (\A x \in Elems(s) : x.row # r) => In = {}
  BY DEF Elems
<1> QED
  BY <1>2, <1>3

(* No item is lost or taken twice, with any number of workers.             *)
THEOREM OnePlaceTheorem == Spec => []OnePlace
<1>1. EndInv /\ Apart => OnePlace
  <2> SUFFICES ASSUME EndInv, Apart, Running, NEW r \in start + 1 .. cursor
               PROVE  \E k \in 1 .. 5 : /\ \E x \in Places(r)[k] : Places(r)[k] = {x}
                                         /\ \A j \in 1 .. 5 \ {k} : Places(r)[j] = {}
    BY DEF OnePlace
  <2> USE DEF EndInv, PipeInv
  <2>1. start \in Nat /\ cursor \in Nat /\ seq \in Nat /\ nextToApply \in Nat \ {0} /\ r \in Nat
    BY ArchiveAssumption DEF TypeInv, TypeOK
  <2>2. r - start \in 1 .. seq - 1 /\ r # 0
    BY <2>1 DEF Numbered
  <2> DEFINE On(S) == \E x \in S : x.row = r
  <2>3. \A x, y \in Underway : x.row = r /\ y.row = r => x = y
    BY SameNumber
  <2>4. Elems(workCh) \subseteq Underway /\ Elems(resultCh) \subseteq Underway
        /\ pending \subseteq Underway /\ Held \subseteq Underway
    BY DEF Underway
  <2>5. (On(Elems(workCh)) => \E x \in Places(r)[1] : Places(r)[1] = {x})
        /\ (~On(Elems(workCh)) => Places(r)[1] = {})
    BY <2>3, <2>4, InChannel, PlacesAre DEF Apart
  <2>6. (On(Elems(resultCh)) => \E x \in Places(r)[2] : Places(r)[2] = {x})
        /\ (~On(Elems(resultCh)) => Places(r)[2] = {})
    BY <2>3, <2>4, InChannel, PlacesAre DEF Apart
  <2>7. \A w \in Workers : item[w].row = r => Holding(w) /\ item[w] \in Held
    BY <2>2 DEF Apart, NoItem, Held
  <2>8. (On(Held) => \E x \in Places(r)[3] : Places(r)[3] = {x})
        /\ (~On(Held) => Places(r)[3] = {})
    <3>1. ASSUME NEW v \in Places(r)[3], NEW w \in Places(r)[3] PROVE v = w
      BY <2>3, <2>4, <2>7, PlacesAre DEF Apart
    <3>2. ASSUME On(Held) PROVE \E w \in Workers : w \in Places(r)[3]
      BY <3>2, PlacesAre DEF Held
    <3>3. ASSUME ~On(Held) PROVE Places(r)[3] = {}
      BY <2>7, <3>3, PlacesAre
    <3> QED  BY <3>1, <3>2, <3>3
  <2>9. (On(pending) => \E x \in Places(r)[4] : Places(r)[4] = {x})
        /\ (~On(pending) => Places(r)[4] = {})
    BY <2>3, <2>4, PlacesAre
  <2>10. CASE r - start < nextToApply
    <3>1. \A x \in Underway : x.row # r
      <4> SUFFICES ASSUME NEW x \in Underway, x.row = r PROVE FALSE
        OBVIOUS
      <4>1. x.row = start + x.seq /\ x.seq >= nextToApply /\ x.seq \in Nat
        BY UnderwayItems DEF Numbered, Apart, Item
      <4> QED  BY <2>1, <2>10, <4>1
    <3>2. ~On(Elems(workCh)) /\ ~On(Elems(resultCh)) /\ ~On(Held) /\ ~On(pending)
      BY <2>4, <3>1
    <3>3. r <= start + nextToApply - 1
      BY <2>1, <2>10
    <3>4. Places(r)[5] = {start + nextToApply - 1}
      BY <3>3, PlacesAre
    <3>5. \A j \in 1 .. 5 \ {5} : j = 1 \/ j = 2 \/ j = 3 \/ j = 4
      OBVIOUS
    <3> QED  BY <2>5, <2>6, <2>8, <2>9, <3>2, <3>4, <3>5
  <2>11. CASE ~(r - start < nextToApply)
    <3>1. r - start \in nextToApply .. seq - 1
      BY <2>1, <2>2, <2>11
    <3>2. PICK x \in Underway : x.seq = r - start
      BY <3>1 DEF NoGap
    <3>3. x.row = r
      BY <2>1, <3>2 DEF Numbered
    <3>4. Places(r)[5] = {}
      BY <2>1, <2>11, PlacesAre
    <3>5. \A S \in SUBSET Underway : On(S) <=> x \in S
      BY <2>3, <3>3
    <3>6. /\ On(Elems(workCh)) <=> x \in Elems(workCh)
          /\ On(Elems(resultCh)) <=> x \in Elems(resultCh)
          /\ On(Held) <=> x \in Held
          /\ On(pending) <=> x \in pending
      BY <2>4, <3>5
    <3> HIDE DEF On
    <3>7. CASE x \in Elems(workCh)
      <4>1. ~On(Held) /\ ~On(Elems(resultCh)) /\ ~On(pending)
        BY <3>6, <3>7 DEF Apart
      <4>2. \A j \in 1 .. 5 \ {1} : j = 2 \/ j = 3 \/ j = 4 \/ j = 5
        OBVIOUS
      <4> QED  BY <2>5, <2>6, <2>8, <2>9, <3>4, <3>6, <3>7, <4>1, <4>2
    <3>8. CASE x \in Elems(resultCh)
      <4>1. ~On(Held) /\ ~On(Elems(workCh)) /\ ~On(pending)
        BY <3>6, <3>8 DEF Apart
      <4>2. \A j \in 1 .. 5 \ {2} : j = 1 \/ j = 3 \/ j = 4 \/ j = 5
        OBVIOUS
      <4> QED  BY <2>5, <2>6, <2>8, <2>9, <3>4, <3>6, <3>8, <4>1, <4>2
    <3>9. CASE x \in Held
      <4>1. ~On(Elems(resultCh)) /\ ~On(Elems(workCh)) /\ ~On(pending)
        BY <3>6, <3>9 DEF Apart
      <4>2. \A j \in 1 .. 5 \ {3} : j = 1 \/ j = 2 \/ j = 4 \/ j = 5
        OBVIOUS
      <4> QED  BY <2>5, <2>6, <2>8, <2>9, <3>4, <3>6, <3>9, <4>1, <4>2
    <3>10. CASE x \in pending
      <4>1. ~On(Elems(resultCh)) /\ ~On(Elems(workCh)) /\ ~On(Held)
        BY <3>6, <3>10 DEF Apart
      <4>2. \A j \in 1 .. 5 \ {4} : j = 1 \/ j = 2 \/ j = 3 \/ j = 5
        OBVIOUS
      <4> QED  BY <2>5, <2>6, <2>8, <2>9, <3>4, <3>6, <3>10, <4>1, <4>2
    <3> QED  BY <3>7, <3>8, <3>9, <3>10 DEF Underway
  <2> QED  BY <2>10, <2>11
<1>2. Init => Apart
  <2> SUFFICES ASSUME Init PROVE Apart
    OBVIOUS
  <2>1. /\ workCh = <<>> /\ resultCh = <<>> /\ pending = {}
        /\ \A w \in Workers : ~Holding(w) /\ item[w] = NoItem
    BY DEF Init, Holding
  <2> QED  BY <2>1, ApartEmpty
<1>3. EndInv /\ Apart /\ [Next]_vars => EndInv' /\ Apart'
  BY EndStep, ApartStep DEF EndInv
<1> QED
  BY <1>1, <1>2, <1>3, EndInit, PTL DEF Spec
=============================================================================
