------------------------------ MODULE Backoff ------------------------------
(***************************************************************************)
(* The retry delays of pkg/util/wait/backoff.go, as keepControllerWorking  *)
(* uses them: BackoffUntil calls f, asks fastBackoffImpl for the delay and *)
(* waits for it.  Times are multiples of a small unit; ages count from     *)
(* now, so that the states repeat.                                         *)
(***************************************************************************)
EXTENDS Integers, FiniteSets

CONSTANTS Duration, Factor, MaxDuration, FastRetryCount, FastRetryDelay, FastRetryWindow,
          Spread,   \* what a jitter may add to a delay, in tenths
          Lasts     \* how long a call of f may last

Times(d, x) == d + (d * x) \div 10

(* The options of keepControllerWorking: a fast retry waits less than the  *)
(* longest delay, jitter included.                                         *)
ASSUME BackoffAssumption ==
  /\ {Duration, Factor, FastRetryCount, FastRetryDelay, FastRetryWindow} \subseteq Nat \ {0}
  /\ MaxDuration \in Nat /\ MaxDuration >= Duration
  /\ Spread \subseteq Nat /\ Lasts \subseteq Nat
  /\ \A x \in Spread : Times(FastRetryDelay, x) <= MaxDuration

VARIABLES
  delay,       \* the delay BackoffUntil waits for
  fastCount,   \* countsInFastRetryWindow, counted up to FastRetryCount + 1
  cutoff,      \* the time left to fastRetryCutoffTime; negative when past
  shorts       \* the ages of the fast retries of the last window: no two
               \* are the same, as every delay lasts

backoffVars == <<delay, fastCount, cutoff, shorts>>

BackoffTypeOK ==
  /\ delay \in Nat /\ fastCount \in 0 .. FastRetryCount + 1
  /\ cutoff \in -1 .. FastRetryWindow
  /\ shorts \in SUBSET (0 .. FastRetryWindow - 1)

(* The first call only starts the ticker.                                  *)
BackoffInit ==
  /\ delay = 0 /\ fastCount = 1 /\ cutoff = -1 /\ shorts = {}

Uncapped(d) == d
Capped(d) == IF d > MaxDuration THEN MaxDuration ELSE d
Longer(x) ==
  LET d == IF delay = 0 THEN Duration ELSE delay
  IN  Capped(Times(d * Factor, x))

AlwaysOver(left) == TRUE
WindowOver(left) == left < 0
Later(s, t) == {a \in t .. FastRetryWindow - 1 : a - t \in s}
Left(c, t) == IF c < t THEN -1 ELSE c - t

(* One round of the loop: f lasts t and fails or not.                      *)
RoundFails(t, x) ==
  LET n == fastCount + 1
      left == Left(cutoff, t)
      fast == n <= FastRetryCount
      d == IF fast THEN Times(FastRetryDelay, x) ELSE Longer(x)
      opens == ~fast /\ WindowOver(left)
      seen == Later(shorts, t)
  IN  /\ fastCount' = IF opens THEN 0 ELSE IF fast THEN n ELSE FastRetryCount
      /\ cutoff' = Left(IF opens THEN FastRetryWindow ELSE left, d)
      /\ delay' = d
      /\ shorts' = Later(IF fast THEN seen \cup {0} ELSE seen, d)

Succeeds(t) ==
  /\ delay' = Duration
  /\ cutoff' = Left(Left(cutoff, t), Duration) /\ shorts' = Later(Later(shorts, t), Duration)
  /\ UNCHANGED fastCount

BackoffNext == \E t \in Lasts : Succeeds(t) \/ \E x \in Spread : RoundFails(t, x)
BackoffSpec == BackoffInit /\ [][BackoffNext]_backoffVars
-----------------------------------------------------------------------------
(* The maximum interval keepControllerWorking names: no delay is longer    *)
(* than MaxDuration, although each failure multiplies the one before.      *)
NeverLonger == delay <= MaxDuration

(* A control that exits at once does not make the client hammer the        *)
(* server: in any window of FastRetryWindow there are at most twice        *)
(* FastRetryCount short retries.                                           *)
FewShortRetries == Cardinality(shorts) <= 2 * FastRetryCount

(* The comment of keepControllerWorking: "The interval for the first three *)
(* retries in 1 minute will be very short".                                *)
ThreeShortRetries == Cardinality(shorts) <= FastRetryCount

(* The delays stay within their bound and, but for the first few in a      *)
(* window, do not fall short of it (fastBackoffImpl.Backoff).              *)
RetriesPaced ==
  NeverLonger /\ FewShortRetries
=============================================================================
