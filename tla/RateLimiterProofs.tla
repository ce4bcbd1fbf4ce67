------------------------- MODULE RateLimiterProofs --------------------------
(***************************************************************************)
(* The bounds of the limiter for every limit and window.                   *)
(***************************************************************************)
EXTENDS RateLimiter, TLAPS

USE LimiterAssumption

\* The calls of the present window are the last ones; every earlier call was
\* admitted before it began, and the ones that are more than a full window's calls
\* further back, more than a window before it began.
Windows ==
    /\ count <= Len(admitted)
    /\ \A i \in 1..Len(admitted) :
          /\ admitted[i] < windowStart + WindowSecs
          /\ i > Len(admitted) - count => admitted[i] >= windowStart
          /\ i <= Len(admitted) - count => admitted[i] < windowStart
          /\ i + Limit <= Len(admitted) - count => admitted[i] + WindowSecs < windowStart

LimiterInv ==
    /\ LimiterTypeOK
    /\ Windows
    /\ AtMostTwiceTheLimit
    /\ RefusedOnlyWhenUsedUp

LEMMA LimiterInitInv == LimiterInit => LimiterInv
BY DEF LimiterInit, LimiterInv, LimiterTypeOK, Windows, AtMostTwiceTheLimit,
       RefusedOnlyWhenUsedUp

\* The facts on which both cases of Admit rest
LEMMA AppendFacts ==
    ASSUME NEW n \in Nat, NEW s \in Seq(0..n)
    PROVE  /\ Append(s, n) \in Seq(0..n)
           /\ Len(s) \in Nat
           /\ Len(Append(s, n)) = Len(s) + 1
           /\ \A i \in 1..Len(s) : Append(s, n)[i] = s[i] /\ s[i] \in 0..n
           /\ Append(s, n)[Len(s) + 1] = n
OBVIOUS

LEMMA LimiterStepInv == LimiterInv /\ [LimiterNext]_limiterVars => LimiterInv'
<1> SUFFICES ASSUME LimiterInv, [LimiterNext]_limiterVars PROVE LimiterInv'
  OBVIOUS
<1>0. /\ now \in Nat /\ windowStart \in 0..now /\ count \in 0..Limit
      /\ admitted \in Seq(0..now)
  BY DEF LimiterInv, LimiterTypeOK
<1>1. CASE UNCHANGED limiterVars
  BY <1>1 DEF limiterVars, LimiterInv, LimiterTypeOK, Windows, AtMostTwiceTheLimit,
     RefusedOnlyWhenUsedUp
<1>2. CASE Tick
  <2>1. admitted \in Seq(0..(now + 1))
    BY <1>0
  <2> QED BY <1>0, <1>2, <2>1 DEF Tick, LimiterInv, LimiterTypeOK, Windows,
          AtMostTwiceTheLimit, RefusedOnlyWhenUsedUp
<1>3. CASE Admit
  <2> DEFINE n == Len(admitted)
  <2>1. /\ admitted' \in Seq(0..now) /\ n \in Nat /\ Len(admitted') = n + 1
        /\ \A i \in 1..n : admitted'[i] = admitted[i] /\ admitted[i] \in 0..now
        /\ admitted'[n + 1] = now
        /\ now' = now /\ verdict' = "admitted"
    BY <1>0, <1>3, AppendFacts DEF Admit
  <2>2. /\ count <= n
        /\ \A i \in 1..n :
              /\ admitted[i] < windowStart + WindowSecs
              /\ i > n - count => admitted[i] >= windowStart
              /\ i <= n - count => admitted[i] < windowStart
              /\ i + Limit <= n - count => admitted[i] + WindowSecs < windowStart
    BY DEF LimiterInv, Windows
  <2>3. \A i \in 1..n : i > 2 * Limit => admitted[i] - admitted[i - 2 * Limit] > WindowSecs
    BY DEF LimiterInv, AtMostTwiceTheLimit
  <2> HIDE DEF n
  \* Whatever the window, the calls a limit further back than the others are old.
  <2>4. \A i \in 1..n : i + 2 * Limit <= n + 1 => admitted[i] + WindowSecs < now
    <3> SUFFICES ASSUME NEW i \in 1..n, i + 2 * Limit <= n + 1
                 PROVE  admitted[i] + WindowSecs < now
      OBVIOUS
    <3>1. CASE Expired
      <4>1. windowStart + WindowSecs <= now
        BY <1>0, <3>1 DEF Expired
      <4>2. i <= n - count
        BY <1>0, <2>1
      <4> QED BY <1>0, <2>1, <2>2, <4>1, <4>2
    <3>2. CASE ~Expired
      <4>1. count < Limit
        BY <1>3, <3>2 DEF Admit
      <4> QED BY <1>0, <2>1, <2>2, <4>1
    <3> QED BY <3>1, <3>2
  <2>5. AtMostTwiceTheLimit'
    <3> SUFFICES ASSUME NEW i \in 1..(n + 1), i > 2 * Limit
                 PROVE  admitted'[i] - admitted'[i - 2 * Limit] > WindowSecs
      BY <2>1 DEF AtMostTwiceTheLimit
    <3>1. i - 2 * Limit \in 1..n
      BY <2>1
    <3>2. CASE i <= n
      BY <2>1, <2>3, <3>1, <3>2
    <3>3. CASE i = n + 1
      BY <1>0, <2>1, <2>4, <3>1, <3>3
    <3> QED BY <2>1, <3>2, <3>3
  <2>6. LimiterTypeOK' /\ Windows'
    <3>1. CASE Expired /\ windowStart' = now /\ count' = 1
      <4>1. windowStart + WindowSecs <= now
        BY <1>0, <3>1 DEF Expired
      <4>2. LimiterTypeOK'
        BY <1>0, <2>1, <3>1 DEF LimiterTypeOK
      <4>3. \A i \in 1..n : admitted[i] < now
        BY <1>0, <2>1, <2>2, <4>1
      <4>4. ASSUME NEW i \in 1..n, i + Limit <= n PROVE admitted[i] + WindowSecs < now
        <5>1. i <= n - count
          BY <1>0, <2>1, <4>4
        <5>2. admitted[i] < windowStart /\ admitted[i] \in Nat
          BY <1>0, <2>1, <2>2, <5>1
        <5> QED BY <1>0, <4>1, <5>2
      <4>5. count' <= Len(admitted')
        BY <2>1, <3>1
      <4>6. ASSUME NEW i \in 1..(n + 1)
            PROVE  /\ admitted'[i] < now + WindowSecs
                   /\ i > n => admitted'[i] >= now
                   /\ i <= n => admitted'[i] < now
                   /\ i + Limit <= n => admitted'[i] + WindowSecs < now
        <5>1. CASE i \in 1..n
          <6>1. admitted'[i] = admitted[i] /\ admitted[i] \in Nat /\ admitted[i] < now
            BY <2>1, <4>3, <5>1
          <6> QED BY <1>0, <2>1, <4>4, <5>1, <6>1
        <5>2. CASE i = n + 1
          BY <1>0, <2>1, <5>2
        <5> QED BY <2>1, <5>1, <5>2
      <4>7. Windows'
        BY <2>1, <3>1, <4>5, <4>6 DEF Windows
      <4> QED BY <4>2, <4>7
    <3>2. CASE ~Expired /\ count < Limit /\ count' = count + 1 /\ UNCHANGED windowStart
      <4>1. now < windowStart + WindowSecs
        BY <1>0, <3>2 DEF Expired
      <4>2. LimiterTypeOK'
        BY <1>0, <2>1, <3>2 DEF LimiterTypeOK
      <4>3. ASSUME NEW i \in 1..(n + 1)
            PROVE  /\ admitted'[i] < windowStart + WindowSecs
                   /\ i > n - count => admitted'[i] >= windowStart
                   /\ i <= n - count => admitted'[i] < windowStart
                   /\ i + Limit <= n - count => admitted'[i] + WindowSecs < windowStart
        <5>1. CASE i \in 1..n
          BY <1>0, <2>1, <2>2, <5>1
        <5>2. CASE i = n + 1
          BY <1>0, <2>1, <4>1, <5>2
        <5> QED BY <2>1, <5>1, <5>2
      <4>4. (n + 1) - (count + 1) = n - count /\ count + 1 <= n + 1
        BY <1>0, <2>1, <2>2
      <4>5. Windows'
        BY <2>1, <3>2, <4>3, <4>4 DEF Windows
      <4> QED BY <4>2, <4>5
    <3> QED BY <1>3, <3>1, <3>2 DEF Admit
  <2>7. RefusedOnlyWhenUsedUp'
    BY <2>1 DEF RefusedOnlyWhenUsedUp
  <2> QED BY <2>5, <2>6, <2>7 DEF LimiterInv
\* A refused call finds the window's calls at the end of the history.
<1>4. CASE Refuse
  <2>1. count = Limit /\ now - windowStart < WindowSecs
    BY <1>0, <1>4 DEF Refuse, Expired
  <2>2. Len(admitted) \in Nat /\ \A i \in 1..Len(admitted) : admitted[i] \in 0..now
    BY <1>0
  <2>3. Limit <= Len(admitted) /\ Len(admitted) - Limit + 1 \in 1..Len(admitted)
    BY <2>1, <2>2 DEF LimiterInv, Windows
  <2>4. admitted[Len(admitted) - Limit + 1] >= windowStart
    BY <2>1, <2>2, <2>3 DEF LimiterInv, Windows
  <2>5. now - admitted[Len(admitted) - Limit + 1] < WindowSecs
    BY <1>0, <2>1, <2>2, <2>3, <2>4
  <2>6. RefusedOnlyWhenUsedUp'
    BY <1>4, <2>3, <2>5 DEF Refuse, RefusedOnlyWhenUsedUp
  <2> QED BY <1>0, <1>4, <2>6 DEF Refuse, LimiterInv, LimiterTypeOK, Windows,
          AtMostTwiceTheLimit
<1> QED BY <1>1, <1>2, <1>3, <1>4 DEF LimiterNext

LEMMA LimiterInvHolds == LimiterSpec => []LimiterInv
BY LimiterInitInv, LimiterStepInv, PTL DEF LimiterSpec

\* The window starts in the past and its count never exceeds the limit, whatever both are.
THEOREM LimiterTypes == LimiterSpec => []LimiterTypeOK
<1>1. LimiterInv => LimiterTypeOK
  BY DEF LimiterInv
<1> QED BY <1>1, LimiterInvHolds, PTL

\* Two windows that meet let through at most twice the limit: 2 * Limit + 1
\* admitted calls take more than a window, for every limit and window length.
THEOREM TwiceTheLimit == LimiterSpec => []AtMostTwiceTheLimit
<1>1. LimiterInv => AtMostTwiceTheLimit
  BY DEF LimiterInv
<1> QED BY <1>1, LimiterInvHolds, PTL

\* No key is refused that has not used up its limit within the last window, so
\* calling while refused never postpones the next admission.
THEOREM NoEarlyRefusal == LimiterSpec => []RefusedOnlyWhenUsedUp
<1>1. LimiterInv => RefusedOnlyWhenUsedUp
  BY DEF LimiterInv
<1> QED BY <1>1, LimiterInvHolds, PTL
=============================================================================
