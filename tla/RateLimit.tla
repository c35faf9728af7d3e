----------------------------- MODULE RateLimit -----------------------------
(***************************************************************************)
(* The limiter every Gmail call goes through (lib/ratelimit.go, service.go *)
(* newRestGmailService, isRateLimited): a goroutine puts Rate tokens into  *)
(* a channel and sleeps, a caller takes a token for each attempt, and      *)
(* sleeps longer after each attempt that Gmail has refused.  Durations are *)
(* ticks of a clock; a sleeper may be late.                                *)
(***************************************************************************)
EXTENDS Integers, Sequences

CONSTANTS
    Callers,        \* goroutines that call Gmail
    Period, Rate, BackoffLimit, BackoffStart, BackoffMax,
    HalfWord,       \* durations are signed integers below this: 2^63
    Periods         \* bound: periods of calls that are remembered

ASSUME RateLimitAssumption ==
    /\ {Period, Rate, BackoffLimit} \subseteq Nat \ {0}
    /\ {BackoffStart, HalfWord, Periods} \subseteq Nat \ {0}
    /\ BackoffMax \in Nat
    /\ BackoffStart < HalfWord

VARIABLES
    toks,       \* tokens in the channel
    owed,       \* tokens of the batch still to be put, 0 while asleep
    rest,       \* ticks the refilling goroutine sleeps on
    at,         \* of each caller
    attempt,    \* its attempts that have ended
    wait,       \* ticks it sleeps on
    slept,      \* ghost: its last two sleeps of this call
    recent      \* ghost: the ages in ticks of the last calls, the newest first

refill == <<toks, owed, rest>>
callers == <<at, attempt, wait, slept>>
limitVars == <<refill, callers, recent>>

Ages == 0 .. Periods * Period
Memory == (Periods + 1) * Rate + 1

LimitTypeOK ==
    /\ toks \in 0 .. Rate /\ owed \in 0 .. Rate /\ rest \in 0 .. Period
    /\ at \in [Callers -> {"idle", "get", "call", "sleep"}]
    /\ attempt \in [Callers -> 0 .. BackoffLimit]
    /\ wait \in [Callers -> Nat]
    /\ slept \in [Callers -> Int \X Int]
    /\ recent \in Seq(Ages)

-----------------------------------------------------------------------------
LimitInit ==
    /\ toks = 0 /\ owed = Rate /\ rest = 0
    /\ at = [c \in Callers |-> "idle"]
    /\ attempt = [c \in Callers |-> 0] /\ wait = [c \in Callers |-> 0]
    /\ slept = [c \in Callers |-> <<0, 0>>]
    /\ recent = <<>>

(* Mutant: the goroutine does not sleep after a batch.                     *)
PutAgain ==
    /\ owed > 0 /\ toks < Rate
    /\ toks' = toks + 1
    /\ owed' = IF owed = 1 THEN Rate ELSE owed - 1
    /\ UNCHANGED <<rest, callers, recent>>

(* Start: the channel holds one batch; the goroutine blocks when it is     *)
(* full, and sleeps after the last token of a batch.                       *)
Put ==
    /\ owed > 0 /\ toks < Rate
    /\ toks' = toks + 1
    /\ owed' = owed - 1
    /\ rest' = IF owed = 1 THEN Period ELSE 0
    /\ UNCHANGED <<callers, recent>>

Wake ==
    /\ owed = 0 /\ rest = 0
    /\ owed' = Rate
    /\ UNCHANGED <<toks, rest, callers, recent>>

-----------------------------------------------------------------------------
(* DoWithBackoff                                                           *)

Goto(c, p) == at' = [at EXCEPT ![c] = p]

BeginCall(c) ==
    /\ at[c] = "idle"
    /\ Goto(c, "get")
    /\ UNCHANGED <<refill, attempt, wait, slept, recent>>

(* As many calls are remembered, and as old ones, as bear upon Periods.    *)
Older(a) == IF a < Periods * Period THEN a + 1 ELSE a

Remembered(s) == SubSeq(s, 1, IF Len(s) < Memory THEN Len(s) ELSE Memory)

(* The token is taken and f runs.                                          *)
Get(c) ==
    /\ at[c] = "get" /\ toks > 0
    /\ toks' = toks - 1
    /\ recent' = Remembered(<<0>> \o recent)
    /\ Goto(c, "call")
    /\ UNCHANGED <<owed, rest, attempt, wait, slept>>

Return(c) ==
    /\ Goto(c, "idle")
    /\ attempt' = [attempt EXCEPT ![c] = 0]
    /\ slept' = [slept EXCEPT ![c] = <<0, 0>>]
    /\ UNCHANGED wait

(* What Gmail answers: an HTTP status, 0 for another error, and whether    *)
(* the message is about a rate limit or a quota.                           *)
Answers == [code : {0, 200, 403, 404, 429, 500}, quota : BOOLEAN]

(* isRateLimited: the error is not fatal.                                  *)
Limited(e) == e.code = 429 \/ (e.code = 403 /\ e.quota)

(* Signed integers wrap around.                                            *)
Wrap(x) == ((x + HalfWord) % (2 * HalfWord)) - HalfWord

(* Mutant: the first sleep of a call is the longest.                       *)
BackoffDown(start, i, max) ==
    LET d == Wrap(start * Wrap(2 ^ (BackoffLimit - i))) IN IF max > 0 /\ d > max THEN max ELSE d

BackoffDuration(start, i, max) ==
    LET d == Wrap(start * Wrap(2 ^ i)) IN IF max > 0 /\ d > max THEN max ELSE d

(* Mutant: a call that is refused is repeated as long as it takes.         *)
RefusedForever(c) ==
    LET d == BackoffDuration(BackoffStart, attempt[c], BackoffMax) IN
      /\ Goto(c, "sleep")
      /\ attempt' = attempt
      /\ wait' = [wait EXCEPT ![c] = IF d > 0 THEN d ELSE 0]
      /\ slept' = [slept EXCEPT ![c] = <<@[2], d>>]

(* A sleep that is not positive is none.                                   *)
Refused(c) ==
    LET d == BackoffDuration(BackoffStart, attempt[c], BackoffMax) IN
      /\ Goto(c, "sleep")
      /\ attempt' = [attempt EXCEPT ![c] = @ + 1]
      /\ wait' = [wait EXCEPT ![c] = IF d > 0 THEN d ELSE 0]
      /\ slept' = [slept EXCEPT ![c] = <<@[2], d>>]

Attempt(c) ==
    /\ at[c] = "call"
    /\ \E e \in Answers : IF Limited(e) THEN Refused(c) ELSE Return(c)
    /\ UNCHANGED <<refill, recent>>

(* It sleeps after the last attempt, too.                                  *)
Again(c) ==
    /\ at[c] = "sleep" /\ wait[c] = 0
    /\ IF attempt[c] < BackoffLimit THEN Goto(c, "get") /\ UNCHANGED <<attempt, wait, slept>>
       ELSE Return(c)
    /\ UNCHANGED <<refill, recent>>

-----------------------------------------------------------------------------
Less(n) == IF n > 0 THEN n - 1 ELSE 0

Tick ==
    /\ rest' = Less(rest)
    /\ wait' = [c \in Callers |-> Less(wait[c])]
    /\ recent' = [i \in DOMAIN recent |-> Older(recent[i])]
    /\ UNCHANGED <<toks, owed, at, attempt, slept>>

DoWithBackoff(c) == BeginCall(c) \/ Get(c) \/ Attempt(c) \/ Again(c)

LimitNext == Put \/ Wake \/ Tick \/ \E c \in Callers : DoWithBackoff(c)

LimitSpec == LimitInit /\ [][LimitNext]_limitVars

(* Receivers of a channel are served in their order.                       *)
FairSpec ==
    /\ LimitSpec
    /\ WF_limitVars(Put) /\ WF_limitVars(Wake) /\ WF_limitVars(Tick)
    /\ \A c \in Callers : SF_limitVars(Get(c)) /\ WF_limitVars(Attempt(c)) /\ WF_limitVars(Again(c))

-----------------------------------------------------------------------------
(* Properties                                                              *)

(* In any n periods one batch more than n are called for: what waits in    *)
(* the channel, and the batch that was held up by it.  Of one call more    *)
(* the first is n periods old (ratelimit.go:19-35).                        *)
BurstBound ==
    \A n \in 1 .. Periods, i \in DOMAIN recent :
        i > (n + 1) * Rate => recent[i] >= n * Period

(* A caller never sleeps for less than it did before, and never beyond     *)
(* BackoffMax, if there is one and the longest sleep fits in a word        *)
(* (ratelimit.go:51-57), as with the constants of service.go:38-42.        *)
BackoffGrows ==
    \A c \in Callers : slept[c][1] <= slept[c][2] /\ slept[c][2] <= BackoffMax

(* Every call comes to an end, whatever Gmail answers and however many     *)
(* others wait for a token (ratelimit.go:59-77).                           *)
CallsReturn == \A c \in Callers : at[c] = "get" ~> at[c] = "idle"
=============================================================================
