---------------------------- MODULE TimersProofs ----------------------------
(***************************************************************************)
(* Every timer is called as often as its period has elapsed, for any       *)
(* periods, any number of timers and any moduli, if the clock is read      *)
(* often enough for an elapsed time to fit in Width.                       *)
(***************************************************************************)
EXTENDS Timers, SequenceTheorems, TLAPS

\* Two times that the clock does not tell apart.
Cong(a, b) == \E k \in Int : a = b + ClockMod * k

\* The invariant: the place of each timer on the clock is where elapsed says,
\* the timers of the list that were looked at have been caught up with, and
\* the others are late by one gap at most.
LastMatches(i) == Cong(now - elapsed[i], all_timers[i].last_time_millis)
CaughtUp(i) == elapsed[i] - since <= all_timers[i].period_millis
Late(i) == /\ elapsed[i] - since >= 0
           /\ elapsed[i] - since <= all_timers[i].period_millis + MaxGap

IInv ==
  /\ TypeOK
  /\ Cong(now - since, curr_time_millis)
  /\ \A i \in 1 .. Len(all_timers) :
       /\ elapsed[i] >= 0
       /\ LastMatches(i)
       /\ curr_timer = 0 \/ i < curr_timer => CaughtUp(i)
       /\ curr_timer # 0 /\ i >= curr_timer => Late(i)

\* A timer that was caught up with is late by less than Width when the clock
\* is read again: the elapsed time of 16 bits is the elapsed time.
GapsFit == \A period \in Periods : period + MaxGap < Width

----------------------------------------------------------------------------
Timer == [period_millis : Periods, last_time_millis : 0 .. ClockMod - 1]

\* The clock.

LEMMA ClockType == ClockMod \in Nat \ {0} /\ Width <= ClockMod /\ Width \in Nat \ {0}
<1>1. PICK k \in 1 .. ClockMod : ClockMod = k * Width
  BY TimersAssumption
<1>2. ClockMod \in Nat \ {0}
  <2>1. CASE ClockMod \in Int
    BY <1>1, <2>1
  <2>2. k \in Int /\ Width \in Int
    BY <1>1, TimersAssumption
  <2> QED
    BY <1>1, <2>2, <2>1
<1>3. Width <= k * Width
  BY <1>1, <1>2, TimersAssumption
<1> QED
  BY <1>1, <1>2, <1>3, TimersAssumption

\* A time and its remainder are the same to the clock.
LEMMA ModCong ==
  ASSUME NEW a \in Int
  PROVE  a % ClockMod \in 0 .. ClockMod - 1 /\ Cong(a % ClockMod, a)
<1>1. /\ a % ClockMod \in 0 .. ClockMod - 1
      /\ a \div ClockMod \in Int
      /\ a = (ClockMod * (a \div ClockMod)) + (a % ClockMod)
  BY ClockType
<1>2. a % ClockMod = a + ClockMod * (-(a \div ClockMod))
  BY <1>1, ClockType
<1>3. -(a \div ClockMod) \in Int
  BY <1>1
<1> QED
  BY <1>1, <1>2, <1>3 DEF Cong

LEMMA CongRefl == ASSUME NEW a \in Int PROVE Cong(a, a)
<1>1. a = a + ClockMod * 0
  BY ClockType
<1> QED
  BY <1>1 DEF Cong

LEMMA CongSub ==
  ASSUME NEW a \in Int, NEW b \in Int, NEW c \in Int, NEW d \in Int, Cong(a, b), Cong(c, d)
  PROVE  Cong(a - c, b - d)
<1>1. PICK k \in Int : a = b + ClockMod * k
  BY DEF Cong
<1>2. PICK l \in Int : c = d + ClockMod * l
  BY DEF Cong
<1>3. a - c = (b - d) + ClockMod * (k - l)
  BY <1>1, <1>2, ClockType
<1> QED
  BY <1>3 DEF Cong

LEMMA CongSym ==
  ASSUME NEW a \in Int, NEW b \in Int, Cong(a, b)
  PROVE  Cong(b, a)
<1>1. PICK k \in Int : a = b + ClockMod * k
  BY DEF Cong
<1>2. b = a + ClockMod * (-k)
  BY <1>1, ClockType
<1> QED
  BY <1>2 DEF Cong

LEMMA CongTrans ==
  ASSUME NEW a \in Int, NEW b \in Int, NEW c \in Int, Cong(a, b), Cong(b, c)
  PROVE  Cong(a, c)
<1>1. PICK k \in Int : a = b + ClockMod * k
  BY DEF Cong
<1>2. PICK l \in Int : b = c + ClockMod * l
  BY DEF Cong
<1>3. a = c + ClockMod * (k + l)
  BY <1>1, <1>2, ClockType
<1> QED
  BY <1>3 DEF Cong

\* A time that is less than the modulus is read exactly.
LEMMA CongExact ==
  ASSUME NEW a \in Int, NEW b \in 0 .. ClockMod - 1, Cong(a, b)
  PROVE  a % ClockMod = b
<1> DEFINE r == a % ClockMod
<1>1. r \in 0 .. ClockMod - 1 /\ Cong(r, a)
  BY ModCong
<1> HIDE DEF r
<1> r \in Int /\ b \in Int
  BY <1>1, ClockType
<1>2. PICK k \in Int : r = b + ClockMod * k
  <2>1. Cong(r, b)
    BY <1>1, CongTrans
  <2> QED
    BY <2>1 DEF Cong
<1>3. ASSUME k >= 1 PROVE r = b
  <2>1. ClockMod * k >= ClockMod
    BY <1>3, ClockType
  <2> QED
    BY <1>1, <1>2, <2>1, ClockType
<1>4. ASSUME k <= -1 PROVE r = b
  <2>1. ClockMod * k <= -ClockMod
    BY <1>4, ClockType
  <2> QED
    BY <1>1, <1>2, <2>1, ClockType
<1>5. ASSUME k = 0 PROVE r = b
  BY <1>1, <1>2, <1>5, ClockType
<1>6. r = b
  BY <1>2, <1>3, <1>4, <1>5
<1> QED
  BY <1>6 DEF r

\* What TypeOK says of the numbers.
LEMMA NumberTypes ==
  ASSUME TypeOK
  PROVE  /\ now \in Int /\ curr_time_millis \in Int
         /\ since \in 0 .. MaxGap /\ since \in Int /\ MaxGap \in Nat
         /\ Len(all_timers) \in Nat /\ Len(elapsed) = Len(all_timers)
         /\ curr_timer \in 0 .. Len(all_timers)
         /\ elapsed \in Seq(Int)
         /\ all_timers \in Seq(Timer)
         /\ \A i \in 1 .. Len(all_timers) :
              /\ elapsed[i] \in Int
              /\ all_timers[i].period_millis \in Periods
              /\ all_timers[i].period_millis \in Nat
              /\ all_timers[i].last_time_millis \in Int
<1>1. Periods \subseteq Nat /\ 0 .. ClockMod - 1 \subseteq Int /\ MaxGap \in Nat
  BY TimersAssumption, ClockType
<1>2. /\ all_timers \in Seq(Timer) /\ elapsed \in Seq(Int)
      /\ Len(elapsed) = Len(all_timers)
  BY DEF TypeOK, Timer
<1>3. ASSUME NEW i \in 1 .. Len(all_timers)
      PROVE  all_timers[i] \in Timer /\ elapsed[i] \in Int
  BY <1>2, ElementOfSeq
<1>4. ASSUME NEW t \in Timer
      PROVE  /\ t.period_millis \in Periods /\ t.period_millis \in Nat
             /\ t.last_time_millis \in Int
  BY <1>1 DEF Timer
<1> QED
  BY <1>1, <1>2, <1>3, <1>4 DEF TypeOK

\* The elapsed time that smews_timers computes for a timer not looked at yet
\* is the time since it was due last.
LEMMA DueExact ==
  ASSUME IInv, GapsFit, curr_timer # 0
  PROVE  /\ curr_timer \in 1 .. Len(all_timers)
         /\ Due(all_timers[curr_timer])
              <=> elapsed[curr_timer] - since > all_timers[curr_timer].period_millis
<1> DEFINE t == all_timers[curr_timer]
           x == elapsed[curr_timer] - since
<1>1. /\ curr_timer \in 1 .. Len(all_timers)
      /\ t.period_millis \in Periods /\ t.last_time_millis \in Int
      /\ elapsed[curr_timer] \in Int /\ now \in Int /\ since \in Int
      /\ curr_time_millis \in Int
  BY NumberTypes DEF IInv
<1>2. t.period_millis \in Int /\ MaxGap \in Int
  BY <1>1, NumberTypes DEF IInv
<1>3. x >= 0 /\ x <= t.period_millis + MaxGap
  BY <1>1 DEF IInv, Late
<1>4. x \in 0 .. Width - 1
  BY <1>1, <1>2, <1>3, ClockType DEF GapsFit
<1>5. Cong(curr_time_millis - t.last_time_millis, x)
  <2>1. Cong(now - elapsed[curr_timer], t.last_time_millis)
    BY <1>1 DEF IInv, LastMatches
  <2>2. Cong((now - since) - (now - elapsed[curr_timer]), curr_time_millis - t.last_time_millis)
    <3>1. Cong(now - since, curr_time_millis)
      BY DEF IInv
    <3>2. now - since \in Int /\ now - elapsed[curr_timer] \in Int
      BY <1>1
    <3> QED
      BY <1>1, <2>1, <3>1, <3>2, CongSub
  <2>3. (now - since) - (now - elapsed[curr_timer]) = x
    BY <1>1
  <2> QED
    BY <1>1, <2>2, <2>3, CongSym
<1>6. (curr_time_millis - t.last_time_millis) % ClockMod = x
  <2>1. x \in 0 .. ClockMod - 1
    BY <1>4, ClockType
  <2> QED
    BY <1>1, <1>5, <2>1, CongExact
<1>7. x % Width = x
  BY <1>4, ClockType
<1> QED
  BY <1>1, <1>6, <1>7 DEF Due

----------------------------------------------------------------------------
\* The steps.

LEMMA InitInv == Init => IInv
<1> SUFFICES ASSUME Init PROVE IInv
  OBVIOUS
<1>1. TypeOK
  BY ClockType, TimersAssumption DEF Init, TypeOK
<1>2. Cong(now - since, curr_time_millis)
  BY CongRefl DEF Init
<1> QED
  BY <1>1, <1>2 DEF Init, IInv

LEMMA SetTimerInv ==
  ASSUME IInv, NEW period \in Periods, set_timer(period)
  PROVE  IInv'
<1> DEFINE t == [period_millis |-> period, last_time_millis |-> now]
<1>1. /\ Len(all_timers) \in Nat /\ Len(elapsed) = Len(all_timers)
      /\ all_timers \in Seq(Timer)
      /\ elapsed \in Seq(Int)
      /\ t \in Timer
      /\ now \in Int /\ since \in 0 .. MaxGap /\ period \in Nat
      /\ curr_timer \in 0 .. Len(all_timers)
  BY NumberTypes, TimersAssumption DEF IInv, TypeOK, Timer
<1>2. /\ all_timers' = <<t>> \o all_timers
      /\ elapsed' = <<0>> \o elapsed
      /\ curr_timer' = IF curr_timer = 0 THEN 0 ELSE curr_timer + 1
      /\ curr_time_millis' = curr_time_millis /\ now' = now /\ since' = since
  BY DEF set_timer
<1>3. /\ all_timers' \in Seq(Timer)
      /\ elapsed' \in Seq(Int)
      /\ Len(all_timers') = Len(all_timers) + 1 /\ Len(elapsed') = Len(all_timers')
      /\ all_timers'[1] = t /\ elapsed'[1] = 0
      /\ \A i \in 1 .. Len(all_timers) :
           all_timers'[i + 1] = all_timers[i] /\ elapsed'[i + 1] = elapsed[i]
  <2>1. <<t>> \in Seq(Timer) /\ <<0>> \in Seq(Int)
        /\ Len(<<t>>) = 1 /\ Len(<<0>>) = 1 /\ <<t>>[1] = t /\ <<0>>[1] = 0
    BY <1>1
  <2> HIDE DEF t
  <2>2. /\ <<t>> \o all_timers \in Seq(Timer)
        /\ Len(<<t>> \o all_timers) = 1 + Len(all_timers)
        /\ \A i \in 1 .. 1 + Len(all_timers) :
             (<<t>> \o all_timers)[i] = IF i <= 1 THEN <<t>>[i] ELSE all_timers[i - 1]
    BY <1>1, <2>1, ConcatProperties
  <2>3. /\ <<0>> \o elapsed \in Seq(Int)
        /\ Len(<<0>> \o elapsed) = 1 + Len(elapsed)
        /\ \A i \in 1 .. 1 + Len(elapsed) :
             (<<0>> \o elapsed)[i] = IF i <= 1 THEN <<0>>[i] ELSE elapsed[i - 1]
    BY <1>1, <2>1, ConcatProperties
  <2>4. ASSUME NEW i \in 1 .. Len(all_timers)
        PROVE  all_timers'[i + 1] = all_timers[i] /\ elapsed'[i + 1] = elapsed[i]
    <3>1. /\ i + 1 \in 1 .. 1 + Len(all_timers) /\ ~ (i + 1 <= 1) /\ (i + 1) - 1 = i
          /\ i + 1 \in 1 .. 1 + Len(elapsed)
      BY <1>1
    <3> QED
      BY <1>2, <2>2, <2>3, <3>1
  <2>5. 1 \in 1 .. 1 + Len(all_timers) /\ 1 \in 1 .. 1 + Len(elapsed)
    BY <1>1
  <2>6. all_timers'[1] = t /\ elapsed'[1] = 0
    BY <1>2, <2>1, <2>2, <2>3, <2>5
  <2>7. all_timers' \in Seq(Timer) /\ elapsed' \in Seq(Int)
    BY <1>2, <2>2, <2>3
  <2>8. Len(all_timers') = Len(all_timers) + 1 /\ Len(elapsed') = Len(all_timers')
    BY <1>1, <1>2, <2>2, <2>3
  <2> QED
    BY <2>4, <2>6, <2>7, <2>8
<1>4. TypeOK'
  BY <1>1, <1>2, <1>3 DEF IInv, TypeOK
<1>5. ASSUME NEW i \in 1 .. Len(all_timers')
      PROVE  /\ elapsed'[i] >= 0
             /\ LastMatches(i)'
             /\ curr_timer' = 0 \/ i < curr_timer' => CaughtUp(i)'
             /\ curr_timer' # 0 /\ i >= curr_timer' => Late(i)'
  <2>1. CASE i = 1
    <3>1. LastMatches(i)'
      BY <1>1, <1>2, <1>3, <2>1, CongRefl DEF LastMatches
    <3>2. CaughtUp(i)'
      BY <1>1, <1>2, <1>3, <2>1, TimersAssumption DEF CaughtUp
    <3>3. ~ (curr_timer' # 0 /\ i >= curr_timer')
      BY <1>1, <1>2, <2>1
    <3> QED
      BY <1>3, <2>1, <3>1, <3>2, <3>3
  <2>2. CASE i # 1
    <3> DEFINE j == i - 1
    <3>1. j \in 1 .. Len(all_timers) /\ i = j + 1
      BY <1>1, <1>3, <2>2
    <3>2. all_timers'[i] = all_timers[j] /\ elapsed'[i] = elapsed[j]
      BY <1>3, <3>1
    <3>3. (curr_timer' = 0 <=> curr_timer = 0) /\ (i < curr_timer' => j < curr_timer)
          /\ (curr_timer' # 0 /\ i >= curr_timer' => j >= curr_timer)
      BY <1>1, <1>2, <3>1
    <3> HIDE DEF j
    <3> QED
      BY <1>2, <3>1, <3>2, <3>3 DEF IInv, LastMatches, CaughtUp, Late
  <2> QED
    BY <2>1, <2>2
<1>6. Cong(now' - since', curr_time_millis')
  BY <1>2 DEF IInv
<1> QED
  BY <1>4, <1>5, <1>6 DEF IInv

LEMMA ReadClockInv == ASSUME IInv, smews_timers PROVE IInv'
<1>1. /\ curr_timer = 0 /\ curr_time_millis' = now /\ since' = 0
      /\ curr_timer' = IF all_timers = << >> THEN 0 ELSE 1
      /\ all_timers' = all_timers /\ now' = now /\ elapsed' = elapsed
  BY DEF smews_timers
<1>2. /\ now \in Int /\ since \in 0 .. MaxGap /\ MaxGap \in Nat
      /\ \A i \in 1 .. Len(all_timers) :
           elapsed[i] \in Int /\ all_timers[i].period_millis \in Nat
  BY NumberTypes DEF IInv
<1>3. TypeOK'
  BY <1>1, TimersAssumption DEF IInv, TypeOK
<1>4. Cong(now' - since', curr_time_millis')
  BY <1>1, <1>2, CongRefl
<1>5. ASSUME NEW i \in 1 .. Len(all_timers)
      PROVE  Late(i)' /\ i >= 1 /\ all_timers # << >>
  BY <1>1, <1>2 DEF IInv, CaughtUp, Late
<1>6. ASSUME NEW i \in 1 .. Len(all_timers')
      PROVE  /\ elapsed'[i] >= 0
             /\ LastMatches(i)'
             /\ curr_timer' = 0 \/ i < curr_timer' => CaughtUp(i)'
             /\ curr_timer' # 0 /\ i >= curr_timer' => Late(i)'
  <2>1. curr_timer' = 1 /\ Late(i)' /\ ~ (i < 1)
    BY <1>1, <1>5
  <2> QED
    BY <1>1, <2>1 DEF IInv, LastMatches
<1> QED
  BY <1>3, <1>4, <1>6 DEF IInv

LEMMA CallBackInv == ASSUME IInv, GapsFit, CallBack PROVE IInv'
<1> DEFINE c == curr_timer
           p == all_timers[c].period_millis
           l == all_timers[c].last_time_millis
<1>1. /\ all_timers' = [all_timers EXCEPT ![c].last_time_millis = (l + p) % ClockMod]
      /\ elapsed' = [elapsed EXCEPT ![c] = elapsed[c] - p]
      /\ curr_timer' = curr_timer /\ curr_time_millis' = curr_time_millis
      /\ now' = now /\ since' = since
  BY DEF CallBack
<1>2. c \in 1 .. Len(all_timers) /\ elapsed[c] - since > p
  BY DueExact DEF CallBack
<1>3. /\ all_timers \in Seq(Timer)
      /\ elapsed \in Seq(Int) /\ Len(elapsed) = Len(all_timers)
      /\ p \in Periods /\ p \in Nat /\ l \in Int /\ elapsed[c] \in Int
      /\ now \in Int /\ since \in Int /\ since >= 0 /\ MaxGap \in Nat
  BY <1>2, NumberTypes DEF IInv
<1>4. (l + p) % ClockMod \in 0 .. ClockMod - 1 /\ Cong((l + p) % ClockMod, l + p)
  <2>1. l + p \in Int
    BY <1>3
  <2> QED
    BY <2>1, ModCong
<1>5. /\ all_timers' \in Seq(Timer)
      /\ Len(all_timers') = Len(all_timers)
      /\ elapsed' \in Seq(Int) /\ Len(elapsed') = Len(elapsed)
      /\ all_timers'[c].period_millis = p
      /\ all_timers'[c].last_time_millis = (l + p) % ClockMod
      /\ elapsed'[c] = elapsed[c] - p
      /\ \A i \in 1 .. Len(all_timers) :
           i # c => all_timers'[i] = all_timers[i] /\ elapsed'[i] = elapsed[i]
  <2> DEFINE new == [all_timers[c] EXCEPT !.last_time_millis = (l + p) % ClockMod]
  <2>1. all_timers' = [all_timers EXCEPT ![c] = new]
    BY <1>1
  <2>2. all_timers[c] \in Timer
    BY <1>2, <1>3
  <2>3. /\ new \in Timer
        /\ new.period_millis = p /\ new.last_time_millis = (l + p) % ClockMod
    BY <1>4, <2>2 DEF Timer
  <2>4. elapsed[c] - p \in Int
    BY <1>3
  <2> HIDE DEF new
  <2>5. /\ all_timers' \in Seq(Timer) /\ Len(all_timers') = Len(all_timers)
        /\ \A i \in 1 .. Len(all_timers) :
             all_timers'[i] = IF i = c THEN new ELSE all_timers[i]
    BY <1>2, <1>3, <2>1, <2>3, ExceptSeq
  <2>6. /\ elapsed' \in Seq(Int) /\ Len(elapsed') = Len(elapsed)
        /\ \A i \in 1 .. Len(elapsed) :
             elapsed'[i] = IF i = c THEN elapsed[c] - p ELSE elapsed[i]
    <3>1. PICK e : e = elapsed[c] - p
      OBVIOUS
    <3>2. e \in Int /\ elapsed' = [elapsed EXCEPT ![c] = e] /\ c \in 1 .. Len(elapsed)
      BY <1>1, <1>2, <1>3, <2>4, <3>1
    <3> HIDE DEF c, p
    <3>3. /\ elapsed' \in Seq(Int) /\ Len(elapsed') = Len(elapsed)
          /\ \A i \in 1 .. Len(elapsed) : elapsed'[i] = IF i = c THEN e ELSE elapsed[i]
      BY <1>3, <3>2, ExceptSeq
    <3> QED
      BY <3>1, <3>3
  <2>7. c \in 1 .. Len(all_timers) /\ c \in 1 .. Len(elapsed)
    BY <1>2, <1>3
  <2>8. all_timers'[c] = new /\ elapsed'[c] = elapsed[c] - p
    BY <2>5, <2>6, <2>7
  <2>9. ASSUME NEW i \in 1 .. Len(all_timers), i # c
        PROVE  all_timers'[i] = all_timers[i] /\ elapsed'[i] = elapsed[i]
    <3>1. i \in 1 .. Len(elapsed)
      BY <1>3
    <3> QED
      BY <2>5, <2>6, <2>9, <3>1
  <2> QED
    BY <2>3, <2>5, <2>6, <2>8, <2>9
<1>6. TypeOK'
  BY <1>1, <1>5 DEF IInv, TypeOK, Timer
<1>7. ASSUME NEW i \in 1 .. Len(all_timers')
      PROVE  /\ elapsed'[i] >= 0
             /\ LastMatches(i)'
             /\ curr_timer' = 0 \/ i < curr_timer' => CaughtUp(i)'
             /\ curr_timer' # 0 /\ i >= curr_timer' => Late(i)'
  <2>1. CASE i = c
    <3>1. Cong(now - elapsed[c], l)
      BY <1>2 DEF IInv, LastMatches
    <3> DEFINE e == now - elapsed[c]
               n == -p
               m == (l + p) % ClockMod
    <3>2. /\ e \in Int /\ n \in Int /\ l \in Int /\ l + p \in Int /\ m \in Int
          /\ e - n = now - (elapsed[c] - p) /\ l - n = l + p
      <4>1. m \in Int
        BY <1>4, ClockType
      <4>2. now \in Int /\ elapsed[c] \in Int /\ p \in Int /\ l \in Int
        BY <1>3
      <4> HIDE DEF c, p, l, m
      <4> QED
        BY <4>1, <4>2
    <3>3. Cong(e - n, l - n)
      BY <1>3, <3>1, <3>2, CongRefl, CongSub
    <3>4. Cong(now - (elapsed[c] - p), m)
      <4>1. Cong(m, l + p)
        BY <1>4
      <4>2. now - (elapsed[c] - p) \in Int
        BY <1>3
      <4> HIDE DEF e, n, m
      <4>3. Cong(l + p, m)
        BY <3>2, <4>1, CongSym
      <4> QED
        BY <3>2, <3>3, <4>2, <4>3, CongTrans
    <3>5. LastMatches(i)'
      BY <1>1, <1>5, <2>1, <3>4 DEF LastMatches
    <3>6. elapsed[c] - since <= p + MaxGap
      BY <1>2 DEF IInv, Late, CallBack
    <3>7. elapsed'[i] >= 0 /\ Late(i)'
      <4>1. /\ elapsed'[i] = elapsed[c] - p /\ all_timers'[i].period_millis = p
            /\ since' = since
        BY <1>1, <1>5, <2>1
      <4>2. /\ elapsed[c] - p >= 0 /\ (elapsed[c] - p) - since >= 0
            /\ (elapsed[c] - p) - since <= p + MaxGap
        <5> DEFINE g == elapsed[c]
        <5>1. g \in Int /\ p \in Nat /\ since \in Nat /\ MaxGap \in Nat
              /\ g - since > p /\ g - since <= p + MaxGap
          BY <1>2, <1>3, <3>6
        <5> HIDE DEF g, p
        <5>2. /\ g - p >= 0 /\ (g - p) - since >= 0
              /\ (g - p) - since <= p + MaxGap
          BY <5>1
        <5> QED
          BY <5>2 DEF g
      <4> QED
        BY <4>1, <4>2 DEF Late
    <3> QED
      BY <1>1, <1>2, <2>1, <3>5, <3>7
  <2>2. CASE i # c
    BY <1>1, <1>5, <2>2 DEF IInv, LastMatches, CaughtUp, Late
  <2> QED
    BY <2>1, <2>2
<1>8. Cong(now' - since', curr_time_millis')
  BY <1>1 DEF IInv
<1> QED
  BY <1>6, <1>7, <1>8 DEF IInv

LEMMA NextTimerInv == ASSUME IInv, GapsFit, NextTimer PROVE IInv'
<1>1. /\ curr_timer' = IF curr_timer = Len(all_timers) THEN 0 ELSE curr_timer + 1
      /\ all_timers' = all_timers /\ curr_time_millis' = curr_time_millis
      /\ now' = now /\ since' = since /\ elapsed' = elapsed
  BY DEF NextTimer
<1>2. curr_timer \in 1 .. Len(all_timers)
  BY DueExact DEF NextTimer
<1>3. CaughtUp(curr_timer)
  <2>1. /\ elapsed[curr_timer] \in Int /\ since \in Int
        /\ all_timers[curr_timer].period_millis \in Int
    BY <1>2, NumberTypes DEF IInv
  <2> QED
    BY <2>1, DueExact DEF NextTimer, CaughtUp
<1>4. TypeOK'
  BY <1>1, <1>2 DEF IInv, TypeOK
<1>5. ASSUME NEW i \in 1 .. Len(all_timers')
      PROVE  /\ elapsed'[i] >= 0
             /\ LastMatches(i)'
             /\ curr_timer' = 0 \/ i < curr_timer' => CaughtUp(i)'
             /\ curr_timer' # 0 /\ i >= curr_timer' => Late(i)'
  <2>1. curr_timer' = 0 \/ i < curr_timer' => i < curr_timer \/ i = curr_timer
    BY <1>1, <1>2
  <2>2. curr_timer' # 0 /\ i >= curr_timer' => i >= curr_timer
    BY <1>1, <1>2
  <2> QED
    BY <1>1, <1>2, <1>3, <2>1, <2>2 DEF IInv, LastMatches, CaughtUp, Late
<1>6. Cong(now' - since', curr_time_millis')
  BY <1>1 DEF IInv
<1> QED
  BY <1>4, <1>5, <1>6 DEF IInv

LEMMA TimePassesInv == ASSUME IInv, TimePasses PROVE IInv'
<1>1. /\ since < MaxGap /\ now' = (now + 1) % ClockMod /\ since' = since + 1
      /\ elapsed' = [i \in 1 .. Len(elapsed) |-> elapsed[i] + 1]
      /\ all_timers' = all_timers /\ curr_timer' = curr_timer
      /\ curr_time_millis' = curr_time_millis
  BY DEF TimePasses
<1>2. /\ now \in Int /\ since \in 0 .. MaxGap /\ MaxGap \in Nat /\ curr_time_millis \in Int
      /\ elapsed \in Seq(Int) /\ Len(elapsed) = Len(all_timers) /\ Len(elapsed) \in Nat
      /\ \A i \in 1 .. Len(all_timers) :
           /\ elapsed[i] \in Int /\ all_timers[i].last_time_millis \in Int
           /\ all_timers[i].period_millis \in Int
  BY NumberTypes DEF IInv
<1>3. /\ elapsed' \in Seq(Int) /\ Len(elapsed') = Len(elapsed)
      /\ \A i \in 1 .. Len(all_timers) : elapsed'[i] = elapsed[i] + 1
  BY <1>1, <1>2
<1>4. now' \in 0 .. ClockMod - 1 /\ Cong(now', now + 1)
  BY <1>1, <1>2, ModCong
<1>5. TypeOK'
  BY <1>1, <1>2, <1>3, <1>4 DEF IInv, TypeOK
<1>6. ASSUME NEW x \in Int, NEW y \in Int, Cong(now - x, y)
      PROVE  Cong(now' - (x + 1), y)
  <2>1. now' \in Int /\ now + 1 \in Int /\ x + 1 \in Int
    BY <1>2, <1>4, ClockType
  <2>2. Cong(now' - (x + 1), (now + 1) - (x + 1))
    BY <1>4, <2>1, CongRefl, CongSub
  <2>3. (now + 1) - (x + 1) = now - x /\ now - x \in Int /\ now' - (x + 1) \in Int
    BY <1>2, <2>1
  <2> QED
    BY <1>6, <2>2, <2>3, CongTrans
<1>7. Cong(now' - since', curr_time_millis')
  BY <1>1, <1>2, <1>6 DEF IInv
<1>8. ASSUME NEW i \in 1 .. Len(all_timers')
      PROVE  /\ elapsed'[i] >= 0
             /\ LastMatches(i)'
             /\ curr_timer' = 0 \/ i < curr_timer' => CaughtUp(i)'
             /\ curr_timer' # 0 /\ i >= curr_timer' => Late(i)'
  <2>1. /\ all_timers'[i] = all_timers[i] /\ curr_timer' = curr_timer
        /\ i \in 1 .. Len(all_timers) /\ elapsed[i] \in Int
    BY <1>1, <1>2
  <2>2. since \in Int /\ since' = since + 1 /\ elapsed'[i] = elapsed[i] + 1
    BY <1>1, <1>2, <1>3, <2>1
  <2>3. elapsed'[i] = elapsed[i] + 1 /\ elapsed'[i] - since' = elapsed[i] - since
    BY <2>1, <2>2
  <2>4. LastMatches(i)'
    BY <1>1, <1>2, <1>6, <2>3 DEF IInv, LastMatches
  <2>5. elapsed'[i] >= 0
    BY <2>3, <2>1 DEF IInv
  <2>6. curr_timer' = 0 \/ i < curr_timer' => CaughtUp(i)'
    BY <2>3, <2>1 DEF IInv, CaughtUp
  <2>7. curr_timer' # 0 /\ i >= curr_timer' => Late(i)'
    BY <2>3, <2>1 DEF IInv, Late
  <2> QED
    BY <2>4, <2>5, <2>6, <2>7
<1> QED
  BY <1>5, <1>7, <1>8 DEF IInv

LEMMA NextInv == ASSUME GapsFit, IInv, [Next]_vars PROVE IInv'
<1>1. CASE UNCHANGED vars
  BY <1>1 DEF vars, IInv, TypeOK, Cong, LastMatches, CaughtUp, Late
<1>2. ASSUME NEW period \in Periods, set_timer(period) PROVE IInv'
  BY <1>2, SetTimerInv
<1>3. CASE smews_timers
  BY <1>3, ReadClockInv
<1>4. CASE CallBack
  BY <1>4, CallBackInv
<1>5. CASE NextTimer
  BY <1>5, NextTimerInv
<1>6. CASE TimePasses
  BY <1>6, TimePassesInv
<1> QED
  BY <1>1, <1>2, <1>3, <1>4, <1>5, <1>6 DEF Next

----------------------------------------------------------------------------
\* smews_timers calls each timer as often as its period has elapsed, not more
\* often and not less, for any list of timers, if between two readings of the
\* clock less time passes than 16 bits hold beyond the longest period.
THEOREM TimersMatchTime == GapsFit => (Spec => []CallsMatchTime)
<1> SUFFICES ASSUME GapsFit PROVE Spec => []CallsMatchTime
  OBVIOUS
<1>1. Init => IInv
  BY InitInv
<1>2. IInv /\ [Next]_vars => IInv'
  BY NextInv
<1>3. IInv => CallsMatchTime
  BY DEF IInv, CallsMatchTime, CaughtUp
<1> QED
  BY <1>1, <1>2, <1>3, PTL DEF Spec
=============================================================================
