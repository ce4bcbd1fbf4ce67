---------------------------- MODULE RateLimiter -----------------------------
(***************************************************************************)
(* FixedWindowLimiter (skill_vault/auth.py), as AuthService.resolve asks   *)
(* it for one API key in one process.  Its state is in memory and ends     *)
(* with the process; the calls of other keys do not touch it, and db_lock  *)
(* makes its calls one after the other.                                    *)
(***************************************************************************)
EXTENDS Naturals, Sequences

CONSTANTS
    Limit,       \* calls admitted per window
    WindowSecs,  \* length of a window, in ticks of the clock
    MaxTime      \* bound on the clock

ASSUME LimiterAssumption ==
    /\ Limit \in Nat \ {0}          \* else __init__ raises
    /\ WindowSecs \in Nat \ {0}
    /\ MaxTime \in Nat

VARIABLES
    now,          \* time.monotonic(), whose zero is any time before the process
    windowStart,  \* self._windows[key], 0 and 0 when there is none
    count,
    verdict,      \* the last answer of allow
    admitted      \* when the calls so far were admitted (no state of the code)

limiterVars == <<now, windowStart, count, verdict, admitted>>

-----------------------------------------------------------------------------

LimiterInit ==
    /\ now \in 0..MaxTime
    /\ windowStart = 0
    /\ count = 0
    /\ verdict = "none"
    /\ admitted = <<>>

Tick ==
    /\ now < MaxTime
    /\ now' = now + 1
    /\ verdict' = "none"
    /\ UNCHANGED <<windowStart, count, admitted>>

\* Mutant: the window is over one tick early.
ExpiredEarly == now - windowStart >= WindowSecs - 1

Expired == now - windowStart >= WindowSecs

Admit ==
    /\ \/ Expired /\ windowStart' = now /\ count' = 1
       \/ ~Expired /\ count < Limit /\ count' = count + 1 /\ UNCHANGED windowStart
    /\ verdict' = "admitted"
    /\ admitted' = Append(admitted, now)
    /\ UNCHANGED now

\* Mutant: every call moves the window.
RefuseAndExtend ==
    /\ ~Expired /\ count >= Limit
    /\ windowStart' = now
    /\ verdict' = "refused"
    /\ UNCHANGED <<now, count, admitted>>

Refuse ==
    /\ ~Expired /\ count >= Limit
    /\ verdict' = "refused"
    /\ UNCHANGED <<now, windowStart, count, admitted>>

LimiterNext == Tick \/ Admit \/ Refuse

LimiterSpec == LimiterInit /\ [][LimiterNext]_limiterVars

-----------------------------------------------------------------------------

\* The counter stays within the limit, and calls are admitted in the past.
LimiterTypeOK ==
    /\ now \in Nat
    /\ windowStart \in 0..now
    /\ count \in 0..Limit
    /\ verdict \in {"none", "admitted", "refused"}
    /\ admitted \in Seq(0..now)

\* However the calls fall around the edges of windows, no stretch of time as long
\* as a window admits more than twice the limit: a call and the one that is
\* 2 * Limit calls older are more than a window apart.
AtMostTwiceTheLimit ==
    \A i \in 1..Len(admitted) :
        i > 2 * Limit => admitted[i] - admitted[i - 2 * Limit] > WindowSecs

\* A call is refused only if the full limit has been admitted within the last
\* window, however often the key was refused since.
RefusedOnlyWhenUsedUp ==
    verdict = "refused" =>
        /\ Len(admitted) >= Limit
        /\ now - admitted[Len(admitted) - Limit + 1] < WindowSecs
=============================================================================
