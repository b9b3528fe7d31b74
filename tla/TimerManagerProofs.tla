------------------------- MODULE TimerManagerProofs -------------------------
(* Theorems about TimerManager, for any timers, addresses and regimes: a timer  *)
(* is in one place and is not slept through, is not called more often than its  *)
(* period allows, and not after stop() has returned.                            *)
(*                                                                              *)
(* What makes them inductive: no two timers that are in use share an address    *)
(* (AddressesOK), though one of them and a removal that has not ended may; the  *)
(* callback queue knows the address of what it holds, or is just being told     *)
(* (Entered); and wherever a timer is, the next time it is expected at is as    *)
(* many periods away as it has been called and one more (Paced).                *)
EXTENDS TimerManager, FilterProofs

Has(s, h) == \E i \in DOMAIN s : s[i] = h
Once(s) == \A i, j \in DOMAIN s : s[i] = s[j] => i = j
Ascending(s, known) ==
    \A i, j \in DOMAIN s : i < j => known[s[i]].next_expected <= known[s[j]].next_expected

-----------------------------------------------------------------------------
Types == TypeOK /\ regime \in Regime

OnePlace ==
    /\ Once(waiting_) /\ Once(callbacks)
    /\ \A h \in TimerHandle : Has(waiting_, h) => h \in timers_ /\ ~Has(callbacks, h) /\ calling.handle # h
    /\ \A h \in TimerHandle : Has(callbacks, h) => h <= starts /\ calling.handle # h
    /\ calling.handle <= starts
    /\ \A h \in timers_ : Has(waiting_, h) \/ Has(callbacks, h) \/ calling.handle = h \/ h \in lost \/ ObjectGone(h)

HandlesOK ==
    /\ \A t \in Timer : timer_handle_[t] # None => timer_handle_[t] \in timers_
    /\ \A t, u \in Timer : timer_handle_[t] = timer_handle_[u] /\ timer_handle_[t] # None => t = u
    /\ \A c \in Caller : removing[c] # None => removing[c] \notin timers_ /\ removing[c] <= starts
    /\ removing["user"] = removing["callback"] => removing["user"] = None
    /\ thread.at = "enter" => thread.last \in timers_

AddressesOK ==
    /\ \A h \in 1 .. starts : info[h].address \in Address
    /\ \A g, h \in TimerHandle : InUse(g) /\ InUse(h) /\ info[g].address = info[h].address => g = h

\* A removal by a callback does not take the address of the timer that is being called,
\* unless it is the one removed.
Entered ==
    /\ \A h \in TimerHandle : Has(callbacks, h) =>
          info[h].address \in id_info \/ (thread.at = "enter" /\ thread.last = h)
    /\ \A h \in TimerHandle : calling.handle = h /\ (h \in timers_ \/ removing["user"] = h)
          => info[h].address \in id_info
    /\ \A h \in TimerHandle : removing["callback"] = h =>
          /\ calling.handle # None
          /\ calling.handle = h \/ info[h].address # info[calling.handle].address

\* A oneshot timer that has been called waits for ever.
Paced(h) ==
    LET i == info[h] IN
    /\ fired[h] * i.period <= now
    /\ i.oneshot => fired[h] <= 1
    /\ Has(waiting_, h) => \/ i.next_expected = Never /\ i.oneshot
                           \/ (fired[h] + 1) * i.period <= i.next_expected /\ (i.oneshot => fired[h] = 0)
    /\ Has(callbacks, h) => /\ (fired[h] + 1) * i.period <= i.next_expected /\ i.next_expected <= now
                            /\ i.oneshot => fired[h] = 0
    /\ calling.handle = h => fired[h] * i.period <= i.next_expected /\ i.next_expected <= now

Pace ==
    /\ setbacks = 0 => thread.current <= now
    /\ \A h \in TimerHandle : h > starts => fired[h] = 0
    /\ setbacks = 0 /\ changes = 0 => \A h \in 1 .. starts : Paced(h)

IInv == Types /\ OnePlace /\ HandlesOK /\ AddressesOK /\ Entered /\ SleepsNoLonger /\ Pace

-----------------------------------------------------------------------------
(* The lists: what an element is erased from, added to or sorted.               *)

\* What is erased from a list leaves the rest as it was.
LEMMA Erased ==
    ASSUME NEW T, NEW s \in Seq(T), NEW S, Once(s), NEW f, f = Filter(s, S)
    PROVE  /\ f \in Seq(T) /\ Once(f)
           /\ \A h : Has(f, h) <=> Has(s, h) /\ h \in S
           /\ \A known : Ascending(s, known) => Ascending(f, known)
<1>1. f \in Seq(T) /\ Embeds(f, s, S, Len(s))
  BY FilterKeepsOrder
<1>2. DOMAIN f = 1 .. Len(f) /\ DOMAIN s = 1 .. Len(s)
  BY <1>1
<1>3. PICK pos \in [1 .. Len(f) -> 1 .. Len(s)] :
        /\ \A i, j \in 1 .. Len(f) : i < j => pos[i] < pos[j]
        /\ \A i \in 1 .. Len(f) : f[i] = s[pos[i]] /\ s[pos[i]] \in S
        /\ \A k \in 1 .. Len(s) : s[k] \in S => \E i \in 1 .. Len(f) : pos[i] = k
  BY <1>1 DEF Embeds
<1>4. Once(f)
  <2> SUFFICES ASSUME NEW i \in 1 .. Len(f), NEW j \in 1 .. Len(f), f[i] = f[j] PROVE i = j
    BY <1>2 DEF Once
  <2>1. pos[i] \in 1 .. Len(s) /\ pos[j] \in 1 .. Len(s) /\ s[pos[i]] = s[pos[j]]
    BY <1>3
  <2>2. pos[i] = pos[j]
    BY <2>1, <1>2 DEF Once
  <2> QED BY <2>1, <2>2, <1>1, <1>3
<1>5. ASSUME NEW h PROVE Has(f, h) <=> Has(s, h) /\ h \in S
  <2>1. ASSUME NEW i \in 1 .. Len(f), f[i] = h PROVE Has(s, h) /\ h \in S
    BY <2>1, <1>2, <1>3 DEF Has
  <2>2. ASSUME NEW k \in 1 .. Len(s), s[k] = h, h \in S PROVE Has(f, h)
    BY <2>2, <1>2, <1>3 DEF Has
  <2> QED BY <2>1, <2>2, <1>2 DEF Has
<1>6. ASSUME NEW known, Ascending(s, known) PROVE Ascending(f, known)
  <2> SUFFICES ASSUME NEW i \in 1 .. Len(f), NEW j \in 1 .. Len(f), i < j
               PROVE  known[f[i]].next_expected <= known[f[j]].next_expected
    BY <1>2 DEF Ascending
  <2>1. pos[i] \in 1 .. Len(s) /\ pos[j] \in 1 .. Len(s) /\ pos[i] < pos[j] /\ f[i] = s[pos[i]] /\ f[j] = s[pos[j]]
    BY <1>3
  <2> QED BY <2>1, <1>2, <1>6 DEF Ascending
<1> QED BY <1>1, <1>4, <1>5, <1>6

\* The first element taken, the rest is as it was.
LEMMA Taken ==
    ASSUME NEW T, NEW s \in Seq(T), s # <<>>, Once(s)
    PROVE  /\ Head(s) \in T /\ Has(s, Head(s))
           /\ Tail(s) \in Seq(T) /\ Once(Tail(s))
           /\ \A h : Has(Tail(s), h) <=> Has(s, h) /\ h # Head(s)
           /\ \A known : Ascending(s, known) => Ascending(Tail(s), known)
<1>1. PICK n \in Nat : n = Len(s) /\ n >= 1 /\ DOMAIN s = 1 .. n
  <2>1. Len(s) \in Nat /\ DOMAIN s = 1 .. Len(s) /\ Len(s) >= 1
    BY EmptySeq
  <2> QED BY <2>1
<1>2. PICK t \in Seq(T) : t = Tail(s) /\ DOMAIN t = 1 .. n - 1 /\ \A i \in 1 .. n - 1 : t[i] = s[i + 1]
  <2>1. Tail(s) \in Seq(T) /\ Len(Tail(s)) = n - 1 /\ \A i \in 1 .. Len(Tail(s)) : Tail(s)[i] = s[i + 1]
    BY <1>1, HeadTailProperties
  <2>2. DOMAIN Tail(s) = 1 .. n - 1
    BY <2>1, LenProperties
  <2> QED BY <2>1, <2>2
<1>3. PICK x \in T : x = Head(s) /\ x = s[1] /\ 1 \in DOMAIN s
  BY <1>1, HeadTailProperties
<1>4. Once(t)
  <2> SUFFICES ASSUME NEW i \in 1 .. n - 1, NEW j \in 1 .. n - 1, t[i] = t[j] PROVE i = j
    BY <1>2 DEF Once
  <2>1. i + 1 \in DOMAIN s /\ j + 1 \in DOMAIN s /\ s[i + 1] = s[j + 1]
    BY <1>1, <1>2
  <2>2. i + 1 = j + 1
    BY <2>1 DEF Once
  <2> QED BY <2>2
<1>5. ASSUME NEW h PROVE Has(t, h) <=> Has(s, h) /\ h # x
  <2>1. ASSUME NEW i \in 1 .. n - 1, t[i] = h PROVE Has(s, h) /\ h # x
    <3>1. i + 1 \in DOMAIN s /\ s[i + 1] = h /\ i + 1 # 1
      BY <1>1, <1>2, <2>1
    <3> QED BY <3>1, <1>3 DEF Has, Once
  <2>2. ASSUME NEW k \in 1 .. n, s[k] = h, h # x PROVE Has(t, h)
    <3>1. k - 1 \in 1 .. n - 1 /\ k - 1 + 1 = k
      BY <1>1, <1>3, <2>2
    <3>2. t[k - 1] = h
      BY <3>1, <1>2, <2>2
    <3> QED BY <3>1, <3>2, <1>2 DEF Has
  <2> QED BY <2>1, <2>2, <1>1, <1>2 DEF Has
<1>6. ASSUME NEW known, Ascending(s, known) PROVE Ascending(t, known)
  <2> SUFFICES ASSUME NEW i \in 1 .. n - 1, NEW j \in 1 .. n - 1, i < j
               PROVE  known[t[i]].next_expected <= known[t[j]].next_expected
    BY <1>2 DEF Ascending
  <2>1. i + 1 \in DOMAIN s /\ j + 1 \in DOMAIN s /\ i + 1 < j + 1 /\ t[i] = s[i + 1] /\ t[j] = s[j + 1]
    BY <1>1, <1>2
  <2> QED BY <2>1, <1>6 DEF Ascending
<1>7. Has(s, x)
  BY <1>3 DEF Has
<1> QED BY <1>2, <1>3, <1>4, <1>5, <1>6, <1>7

\* An element that is not in a list and added to it is in it once.
LEMMA Added ==
    ASSUME NEW T, NEW s \in Seq(T), NEW x \in T, Once(s), ~Has(s, x)
    PROVE  /\ Append(s, x) \in Seq(T) /\ Once(Append(s, x))
           /\ \A h : Has(Append(s, x), h) <=> Has(s, h) \/ h = x
<1>1. PICK n \in Nat : n = Len(s) /\ DOMAIN s = 1 .. n
  BY LenProperties
<1>2. PICK t \in Seq(T) : t = Append(s, x) /\ DOMAIN t = 1 .. n + 1 /\ t[n + 1] = x /\ \A i \in 1 .. n : t[i] = s[i]
  <2>1. Append(s, x) \in Seq(T) /\ Len(Append(s, x)) = n + 1 /\ Append(s, x)[n + 1] = x
        /\ \A i \in 1 .. n : Append(s, x)[i] = s[i]
    BY <1>1, AppendProperties
  <2>2. DOMAIN Append(s, x) = 1 .. n + 1
    BY <2>1, LenProperties
  <2> QED BY <2>1, <2>2
<1>3. ASSUME NEW h PROVE Has(t, h) <=> Has(s, h) \/ h = x
  <2>1. ASSUME NEW i \in 1 .. n + 1, t[i] = h PROVE Has(s, h) \/ h = x
    <3>1. i = n + 1 \/ i \in 1 .. n
      OBVIOUS
    <3> QED BY <3>1, <2>1, <1>1, <1>2 DEF Has
  <2>2. ASSUME NEW i \in 1 .. n, s[i] = h PROVE Has(t, h)
    <3>1. i \in 1 .. n + 1
      OBVIOUS
    <3> QED BY <3>1, <2>2, <1>2 DEF Has
  <2>3. Has(t, x)
    <3>1. n + 1 \in 1 .. n + 1
      OBVIOUS
    <3> QED BY <3>1, <1>2 DEF Has
  <2> QED BY <2>1, <2>2, <2>3, <1>1, <1>2 DEF Has
<1>4. Once(t)
  <2> SUFFICES ASSUME NEW i \in 1 .. n + 1, NEW j \in 1 .. n + 1, t[i] = t[j] PROVE i = j
    BY <1>2 DEF Once
  <2>1. (i = n + 1 \/ i \in 1 .. n) /\ (j = n + 1 \/ j \in 1 .. n)
    OBVIOUS
  <2>2. \A k \in 1 .. n : t[k] # x
    BY <1>1, <1>2 DEF Has
  <2> QED BY <2>1, <2>2, <1>1, <1>2 DEF Once
<1> QED BY <1>2, <1>3, <1>4

-----------------------------------------------------------------------------
(* A stable sort exists: of any timers one goes before all others.              *)

\* By the time that is expected, and by the position.
Earlier(g, h, e, p) == e[g] < e[h] \/ (e[g] = e[h] /\ p[g] < p[h])

\* Of any timers one is expected before all others, or with them and in front of them.
LEMMA First ==
    ASSUME NEW S, S # {}, NEW e \in [S -> Nat], NEW p \in [S -> Nat],
           \A g, h \in S : p[g] = p[h] => g = h
    PROVE  \E m \in S : \A h \in S : h # m => Earlier(m, h, e, p)
<1>1. PICK x \in {e[h] : h \in S} : \A y \in {e[h] : h \in S} : x <= y
  <2>1. {e[h] : h \in S} \subseteq Nat /\ {e[h] : h \in S} # {}
    OBVIOUS
  <2> QED BY <2>1, LeastNatural
<1>2. PICK g \in S : e[g] = x
  OBVIOUS
<1>3. PICK E : E = {h \in S : e[h] = x} /\ E # {} /\ E \subseteq S
  BY <1>2
<1>4. PICK q \in {p[h] : h \in E} : \A y \in {p[h] : h \in E} : q <= y
  <2>1. {p[h] : h \in E} \subseteq Nat /\ {p[h] : h \in E} # {}
    BY <1>3
  <2> QED BY <2>1, LeastNatural
<1>5. PICK m \in E : p[m] = q
  OBVIOUS
<1>6. m \in S /\ e[m] = x
  BY <1>3, <1>5
<1>7. ASSUME NEW h \in S, h # m PROVE Earlier(m, h, e, p)
  <2>1. x <= e[h] /\ e[h] \in Nat /\ x \in Nat
    BY <1>1, <1>2
  <2>2. CASE e[h] = x
    <3>1. h \in E /\ q <= p[h] /\ p[h] # p[m] /\ p[h] \in Nat /\ p[m] \in Nat
      BY <1>3, <1>4, <1>5, <1>6, <1>7, <2>2
    <3> QED BY <3>1, <2>2, <1>5, <1>6 DEF Earlier
  <2>3. CASE e[h] # x
    BY <2>1, <2>3, <1>6 DEF Earlier
  <2> QED BY <2>2, <2>3
<1> QED BY <1>6, <1>7

\* b names the elements of S, each once; s names them in their order.
Names(b, n, S) ==
    /\ b \in [1 .. n -> S]
    /\ \A h \in S : \E i \in 1 .. n : b[i] = h
    /\ \A i, j \in 1 .. n : b[i] = b[j] => i = j
InOrder(s, n, e, p) == \A i, j \in 1 .. n : i < j => Earlier(s[i], s[j], e, p)

\* Elements that can be named can be named in their order, by induction over how many
\* they are: the first, and the others in their order.
LEMMA SortExists ==
    ASSUME NEW U, NEW e \in [U -> Nat], NEW p \in [U -> Nat], \A g, h \in U : p[g] = p[h] => g = h,
           NEW n \in Nat, NEW b, Names(b, n, U)
    PROVE  \E s : Names(s, n, U) /\ InOrder(s, n, e, p)
<1> DEFINE P == {k \in Nat : \A S \in SUBSET U :
                    (\E c : Names(c, k, S)) => \E s : Names(s, k, S) /\ InOrder(s, k, e, p)}
<1>1. 0 \in P
  <2> SUFFICES ASSUME NEW S \in SUBSET U, NEW c, Names(c, 0, S)
               PROVE  \E s : Names(s, 0, S) /\ InOrder(s, 0, e, p)
    OBVIOUS
  <2>1. 1 .. 0 = {}
    OBVIOUS
  <2>2. InOrder(c, 0, e, p)
    BY <2>1 DEF InOrder
  <2> QED BY <2>2
<1>2. ASSUME NEW k \in Nat, k \in P PROVE k + 1 \in P
  <2> SUFFICES ASSUME NEW S \in SUBSET U, NEW c, Names(c, k + 1, S)
               PROVE  \E s : Names(s, k + 1, S) /\ InOrder(s, k + 1, e, p)
    OBVIOUS
  <2>1. PICK m \in S : \A h \in S : h # m => Earlier(m, h, e, p)
    <3>1. PICK f \in [S -> Nat] : f = [h \in S |-> e[h]]
      OBVIOUS
    <3>2. PICK q \in [S -> Nat] : q = [h \in S |-> p[h]]
      OBVIOUS
    <3>3. S # {}
      <4>1. 1 \in 1 .. k + 1
        OBVIOUS
      <4> QED BY <4>1 DEF Names
    <3>4. \E m \in S : \A h \in S : h # m => Earlier(m, h, f, q)
      <4>1. \A g, h \in S : q[g] = q[h] => g = h
        BY <3>2
      <4> QED BY <3>3, <4>1, First
    <3> QED BY <3>1, <3>2, <3>4 DEF Earlier
  <2>2. PICK a \in 1 .. k + 1 : c[a] = m
    BY DEF Names
  <2> DEFINE d == [i \in 1 .. k |-> IF i < a THEN c[i] ELSE c[i + 1]]
  <2>3. Names(d, k, S \ {m})
    <3>1. ASSUME NEW i \in 1 .. k
          PROVE  \E j \in 1 .. k + 1 : j = (IF i < a THEN i ELSE i + 1) /\ d[i] = c[j] /\ j # a
      <4>1. i \in 1 .. k + 1 /\ i + 1 \in 1 .. k + 1
        OBVIOUS
      <4> QED BY <4>1
    <3>2. d \in [1 .. k -> S \ {m}]
      <4> SUFFICES ASSUME NEW i \in 1 .. k PROVE d[i] \in S \ {m}
        OBVIOUS
      <4> HIDE DEF d
      <4>1. PICK j \in 1 .. k + 1 : d[i] = c[j] /\ j # a
        BY <3>1
      <4>2. c[j] \in S
        BY <4>1 DEF Names
      <4>3. c[j] # m
        BY <4>1, <2>2 DEF Names
      <4> QED BY <4>1, <4>2, <4>3
    <3>3. ASSUME NEW h \in S \ {m} PROVE \E i \in 1 .. k : d[i] = h
      <4>1. PICK j \in 1 .. k + 1 : c[j] = h
        BY DEF Names
      <4>2. j # a
        BY <4>1, <2>2
      <4>3. CASE j < a
        <5>1. j \in 1 .. k /\ d[j] = c[j]
          BY <4>3
        <5> QED BY <5>1, <4>1
      <4>4. CASE j > a
        <5>1. j - 1 \in 1 .. k /\ ~(j - 1 < a) /\ j - 1 + 1 = j
          BY <4>4
        <5>2. d[j - 1] = c[j]
          BY <5>1
        <5> QED BY <5>1, <5>2, <4>1
      <4> QED BY <4>2, <4>3, <4>4
    <3>4. ASSUME NEW i \in 1 .. k, NEW j \in 1 .. k, d[i] = d[j] PROVE i = j
      <4> HIDE DEF d
      <4>1. PICK x \in 1 .. k + 1 : x = (IF i < a THEN i ELSE i + 1) /\ d[i] = c[x]
        BY <3>1
      <4>2. PICK y \in 1 .. k + 1 : y = (IF j < a THEN j ELSE j + 1) /\ d[j] = c[y]
        BY <3>1
      <4>3. c[x] = c[y]
        BY <4>1, <4>2, <3>4
      <4>4. x = y
        BY <4>3 DEF Names
      <4> QED BY <4>1, <4>2, <4>4
    <3> HIDE DEF d
    <3> QED BY <3>2, <3>3, <3>4 DEF Names
  <2> HIDE DEF d
  <2>4. PICK t : Names(t, k, S \ {m}) /\ InOrder(t, k, e, p)
    <3>1. S \ {m} \in SUBSET U
      OBVIOUS
    <3> QED BY <3>1, <2>3, <1>2
  <2>5. PICK s \in [1 .. k + 1 -> S] : s = [i \in 1 .. k + 1 |-> IF i = 1 THEN m ELSE t[i - 1]]
    <3> SUFFICES ASSUME NEW i \in 1 .. k + 1, i # 1 PROVE t[i - 1] \in S
      OBVIOUS
    <3>1. i - 1 \in 1 .. k
      OBVIOUS
    <3> QED BY <3>1, <2>4 DEF Names
  <2>6. s[1] = m /\ 1 \in 1 .. k + 1
    BY <2>5
  <2>7. ASSUME NEW i \in 1 .. k + 1, i # 1
        PROVE  i - 1 \in 1 .. k /\ s[i] = t[i - 1] /\ s[i] \in S \ {m}
    <3>1. i - 1 \in 1 .. k
      BY <2>7
    <3> QED BY <3>1, <2>5, <2>7, <2>4 DEF Names
  <2>8. ASSUME NEW h \in S PROVE \E i \in 1 .. k + 1 : s[i] = h
    <3>1. CASE h = m
      BY <3>1, <2>6
    <3>2. CASE h # m
      <4>1. PICK i \in 1 .. k : t[i] = h
        BY <3>2, <2>4 DEF Names
      <4>2. i + 1 \in 1 .. k + 1 /\ i + 1 # 1 /\ i + 1 - 1 = i
        OBVIOUS
      <4>3. s[i + 1] = t[i + 1 - 1]
        BY <4>2, <2>5
      <4> QED BY <4>1, <4>2, <4>3
    <3> QED BY <3>1, <3>2
  <2>9. ASSUME NEW i \in 1 .. k + 1, NEW j \in 1 .. k + 1, i < j PROVE Earlier(s[i], s[j], e, p)
    <3>1. j # 1
      BY <2>9
    <3>2. CASE i = 1
      BY <3>1, <3>2, <2>1, <2>6, <2>7
    <3>3. CASE i # 1
      <4>1. i - 1 \in 1 .. k /\ j - 1 \in 1 .. k /\ s[i] = t[i - 1] /\ s[j] = t[j - 1]
        BY <3>1, <3>3, <2>7
      <4>2. i - 1 < j - 1
        BY <2>9
      <4> QED BY <4>1, <4>2, <2>4 DEF InOrder
    <3> QED BY <3>2, <3>3
  <2>10. ASSUME NEW i \in 1 .. k + 1, NEW j \in 1 .. k + 1, s[i] = s[j] PROVE i = j
    <3>1. \A g \in U : ~Earlier(g, g, e, p)
      BY DEF Earlier
    <3>2. s[i] \in U
      BY <2>5
    <3>3. ~(i < j) /\ ~(j < i)
      BY <3>1, <3>2, <2>9, <2>10
    <3> QED BY <3>3
  <2>11. Names(s, k + 1, S)
    BY <2>8, <2>10 DEF Names
  <2>12. InOrder(s, k + 1, e, p)
    BY <2>9 DEF InOrder
  <2> QED BY <2>11, <2>12
<1>3. n \in P
  <2> HIDE DEF P
  <2>1. Nat \subseteq P
    BY <1>1, <1>2, Induction
  <2> QED BY <2>1
<1> QED BY <1>3

\* waiting_.sort() keeps what is in the list and puts it in order.
LEMMA SortedList ==
    ASSUME NEW s \in Seq(TimerHandle), Once(s), NEW known \in [TimerHandle -> TimerInfo]
    PROVE  /\ Sorted(s, known) \in Seq(TimerHandle) /\ Once(Sorted(s, known))
           /\ \A h : Has(Sorted(s, known), h) <=> Has(s, h)
           /\ Ascending(Sorted(s, known), known)
<1>1. PICK n \in Nat : n = Len(s) /\ DOMAIN s = 1 .. n
  BY LenProperties
<1>2. PICK U : U = ToSet(s) /\ U \subseteq TimerHandle /\ \A h : h \in U <=> Has(s, h)
  <2>1. \A h : h \in ToSet(s) <=> Has(s, h)
    BY DEF ToSet, Has
  <2>2. \A i \in DOMAIN s : s[i] \in TimerHandle
    BY <1>1
  <2>3. ToSet(s) \subseteq TimerHandle
    BY <2>1, <2>2 DEF Has
  <2> QED BY <2>1, <2>3
<1>3. PICK e \in [U -> Nat] : \A h \in U : e[h] = known[h].next_expected
  <2>1. \A h \in U : known[h].next_expected \in Nat
    BY <1>2 DEF TimerInfo
  <2>2. [h \in U |-> known[h].next_expected] \in [U -> Nat]
    BY <2>1
  <2> QED BY <2>2
<1>4. PICK p \in [U -> Nat] : \A h \in U : p[h] = (CHOOSE i \in DOMAIN s : s[i] = h) /\ p[h] \in DOMAIN s /\ s[p[h]] = h
  <2>1. ASSUME NEW h \in U
        PROVE  /\ (CHOOSE i \in DOMAIN s : s[i] = h) \in DOMAIN s
               /\ s[CHOOSE i \in DOMAIN s : s[i] = h] = h
    <3>1. \E i \in DOMAIN s : s[i] = h
      BY <1>2 DEF Has
    <3> QED BY <3>1
  <2>2. [h \in U |-> CHOOSE i \in DOMAIN s : s[i] = h] \in [U -> Nat]
    <3>1. \A i \in DOMAIN s : i \in Nat
      BY <1>1
    <3> QED BY <2>1, <3>1
  <2> QED BY <2>1, <2>2
<1>5. \A g, h \in U : p[g] = p[h] => g = h
  BY <1>4
<1>6. \A g, h \in U : Before(g, h, s, known) <=> Earlier(g, h, e, p)
  BY <1>3, <1>4 DEF Before, Earlier
<1>7. Names(s, n, U)
  <2>1. s \in [1 .. n -> U]
    <3>1. s = [i \in 1 .. n |-> s[i]]
      BY <1>1
    <3>2. \A i \in 1 .. n : s[i] \in U
      BY <1>1, <1>2 DEF Has
    <3> QED BY <3>1, <3>2
  <2>2. \A h \in U : \E i \in 1 .. n : s[i] = h
    BY <1>1, <1>2 DEF Has
  <2> QED BY <2>1, <2>2, <1>1 DEF Names, Once
<1> DEFINE Good(t) == /\ \A h \in U : \E i \in 1 .. n : t[i] = h
                      /\ \A i, j \in 1 .. n : i < j => Before(t[i], t[j], s, known)
<1>8. \E t \in [1 .. n -> U] : Good(t)
  <2>1. PICK t : Names(t, n, U) /\ InOrder(t, n, e, p)
    BY <1>5, <1>7, SortExists
  <2>2. \A i, j \in 1 .. n : i < j => Before(t[i], t[j], s, known)
    BY <2>1, <1>6 DEF Names, InOrder
  <2> QED BY <2>1, <2>2 DEF Names
<1>9. Sorted(s, known) = CHOOSE t \in [1 .. n -> U] : Good(t)
  BY <1>1, <1>2 DEF Sorted
<1>10. PICK t \in [1 .. n -> U] : t = Sorted(s, known) /\ Good(t)
  <2> HIDE DEF Good
  <2> QED BY <1>8, <1>9
<1>11. t \in Seq(TimerHandle) /\ DOMAIN t = 1 .. n
  <2>1. t \in [1 .. n -> TimerHandle]
    BY <1>2, <1>10
  <2>2. t \in Seq(TimerHandle)
    BY <2>1, IsASeq
  <2> QED BY <2>1, <2>2
<1>12. \A i, j \in 1 .. n : i < j => Earlier(t[i], t[j], e, p)
  BY <1>6, <1>10
<1>13. Once(t)
  <2> SUFFICES ASSUME NEW i \in 1 .. n, NEW j \in 1 .. n, t[i] = t[j] PROVE i = j
    BY <1>11 DEF Once
  <2>1. \A g \in U : ~Earlier(g, g, e, p)
    BY <1>3, <1>4 DEF Earlier
  <2>2. t[i] \in U
    BY <1>10
  <2>3. ~(i < j) /\ ~(j < i)
    BY <2>1, <2>2, <1>12
  <2> QED BY <2>3
<1>14. Ascending(t, known)
  <2> SUFFICES ASSUME NEW i \in 1 .. n, NEW j \in 1 .. n, i < j
               PROVE  known[t[i]].next_expected <= known[t[j]].next_expected
    BY <1>11 DEF Ascending
  <2>1. t[i] \in U /\ t[j] \in U /\ Earlier(t[i], t[j], e, p)
    BY <1>10, <1>12
  <2>2. e[t[i]] \in Nat /\ e[t[j]] \in Nat
    BY <2>1
  <2>3. e[t[i]] <= e[t[j]]
    BY <2>1, <2>2 DEF Earlier
  <2> QED BY <2>1, <2>3, <1>3
<1>15. ASSUME NEW h PROVE Has(t, h) <=> Has(s, h)
  <2>1. Has(t, h) => h \in U
    BY <1>10, <1>11 DEF Has
  <2>2. h \in U => Has(t, h)
    BY <1>10, <1>11 DEF Has
  <2> QED BY <2>1, <2>2, <1>2
<1> QED BY <1>10, <1>11, <1>13, <1>14, <1>15

-----------------------------------------------------------------------------
(* What the constants and the types bound, and the initial states.              *)

\* A state of the right types is within what the assumptions on the constants say.
LEMMA Bounds ==
    ASSUME Types
    PROVE  /\ MaxTime \in Nat /\ MaxStarts \in Nat
           /\ regime.time \in Nat /\ regime.time <= MaxTime
           /\ regime.starts \in Nat /\ regime.starts <= MaxStarts
           /\ regime.setbacks \in Nat /\ regime.changes \in Nat
           /\ \A s \in regime.settings : /\ s.timer \in Timer /\ s.period \in Nat /\ s.period > 0
                                         /\ s.oneshot \in BOOLEAN
           /\ \A p \in regime.periods : p \in Nat /\ p > 0
           /\ starts \in Nat /\ starts <= MaxStarts /\ starts <= regime.starts /\ 1 .. starts \subseteq TimerHandle
           /\ TimerHandle \subseteq Nat /\ None \notin TimerHandle
           /\ Address \subseteq Nat /\ None \notin Address
           /\ now \in Nat /\ now <= MaxTime
           /\ Never \in Nat /\ Never > MaxTime
<1>1. regime \in Regime /\ starts \in 0 .. regime.starts /\ now \in 0 .. MaxTime
  BY DEF Types, TypeOK, Instant
<1>2. /\ {MaxStarts, MaxTime} \subseteq Nat /\ Address \subseteq Nat \ {0}
      /\ {regime.setbacks, regime.changes} \subseteq Nat
      /\ regime.time \in 0 .. MaxTime /\ regime.starts \in 0 .. MaxStarts
      /\ regime.settings \subseteq [timer : Timer, period : Nat \ {0}, oneshot : BOOLEAN, tracked : BOOLEAN]
      /\ regime.periods \subseteq Nat \ {0}
  BY <1>1, TimerManagerAssumption
<1>3. MaxTime \in Nat /\ MaxStarts \in Nat
  BY <1>2
<1>4. \A s \in regime.settings : s.timer \in Timer /\ s.period \in Nat /\ s.period > 0 /\ s.oneshot \in BOOLEAN
  BY <1>2
<1>5. Never \in Nat /\ Never > MaxTime
  BY <1>3 DEF Never
<1>6. TimerHandle \subseteq Nat /\ None \notin TimerHandle /\ 1 .. starts \subseteq TimerHandle
  BY <1>1, <1>2, <1>3 DEF TimerHandle, None
<1> QED BY <1>1, <1>2, <1>3, <1>4, <1>5, <1>6 DEF None

\* Nothing is started: the invariant holds.
LEMMA InitInv == Init => IInv
<1> SUFFICES ASSUME Init PROVE IInv
  OBVIOUS
<1>1. Types
  <2>1. regime \in Regime /\ {regime.setbacks, regime.changes} \subseteq Nat /\ regime.starts \in 0 .. MaxStarts /\ MaxTime \in Nat
        /\ regime.settings \subseteq [timer : Timer, period : Nat \ {0}, oneshot : BOOLEAN, tracked : BOOLEAN]
    BY TimerManagerAssumption DEF Init
  <2>2. Never \in Nat /\ - Never \in Int
    BY <2>1 DEF Never
  <2>3. now \in Instant /\ setbacks \in 0 .. regime.setbacks /\ changes \in 0 .. regime.changes /\ starts \in 0 .. regime.starts
    BY <2>1 DEF Init, Instant
  <2>4. objects \subseteq Timer
    BY <2>1 DEF Init
  <2>5. info \in [TimerHandle -> TimerInfo]
    <3>1. Unset \in TimerInfo
      BY <2>2 DEF Unset, TimerInfo, None
    <3> QED BY <3>1 DEF Init
  <2>6. /\ timer_handle_ \in [Timer -> TimerHandle \cup {None}] /\ timers_ \subseteq 1 .. starts
        /\ waiting_ \in Seq(TimerHandle) /\ callbacks \in Seq(TimerHandle)
        /\ new_timer_ \in BOOLEAN /\ jumped \in BOOLEAN /\ id_info \subseteq Address
        /\ lost \subseteq TimerHandle /\ fired \in [TimerHandle -> Nat]
    <3>1. timer_handle_ \in [Timer -> TimerHandle \cup {None}] /\ fired \in [TimerHandle -> Nat]
      BY DEF Init
    <3>2. timers_ \subseteq 1 .. starts /\ id_info \subseteq Address /\ lost \subseteq TimerHandle
      BY DEF Init
    <3>3. waiting_ \in Seq(TimerHandle) /\ callbacks \in Seq(TimerHandle)
      BY DEF Init
    <3>4. new_timer_ \in BOOLEAN /\ jumped \in BOOLEAN
      BY DEF Init
    <3> QED BY <3>1, <3>2, <3>3, <3>4
  <2>9. removing \in [Caller -> TimerHandle \cup {None}]
    BY DEF Init
  <2>7. thread \in [at : {"queue", "enter", "sleep"}, current : Instant, sleep_end : Nat, last : TimerHandle \cup {None}]
    BY <2>1 DEF Init, Instant, None
  <2>8. calling \in [handle : TimerHandle \cup {None}, real : Instant]
    BY <2>1 DEF Init, Nothing, Instant
  <2> QED BY <2>1, <2>3, <2>4, <2>5, <2>6, <2>7, <2>8, <2>9 DEF Types, TypeOK
<1>2. TimerHandle \subseteq Nat /\ None \notin TimerHandle
  BY <1>1, Bounds
<1>3. OnePlace
  BY <1>2 DEF Init, OnePlace, Once, Has, Nothing, None
<1>4. HandlesOK
  BY <1>2 DEF Init, HandlesOK, Caller
<1>5. AddressesOK
  <2>1. starts = 0 /\ \A h \in TimerHandle : ~InUse(h)
    BY <1>2 DEF Init, InUse, Nothing
  <2> QED BY <2>1 DEF AddressesOK
<1>6. Entered
  BY <1>2 DEF Init, Entered, Has, Nothing, Caller
<1>7. SleepsNoLonger
  BY DEF Init, SleepsNoLonger, ToSet
<1>8. Pace
  BY <1>2 DEF Init, Pace
<1> QED BY <1>1, <1>3, <1>4, <1>5, <1>6, <1>7, <1>8 DEF IInv

-----------------------------------------------------------------------------
(* Time, and the steps of the manager's thread that leave the timers as they are. *)

\* Time does not take a call back, nor what is due.
LEMMA TickInv ==
    ASSUME IInv, Tick
    PROVE  IInv'
<1> USE DEF Tick, handles, manager, queue, history
<1>1. Types'
  <2>1. now' \in Instant /\ now \in Nat /\ now' = now + 1
    <3>1. now \in Nat /\ MaxTime \in Nat /\ regime.time \in Nat /\ regime.time <= MaxTime
      BY Bounds DEF IInv
    <3> QED BY <3>1 DEF Instant
  <2>2. thread' \in [at : {"queue", "enter", "sleep"}, current : Instant, sleep_end : Nat, last : TimerHandle \cup {None}]
    BY <2>1 DEF IInv, Types, TypeOK
  <2> QED BY <2>1, <2>2 DEF IInv, Types, TypeOK
<1>2. OnePlace'
  BY DEF IInv, OnePlace, ObjectGone
<1>3. thread'.at = thread.at /\ thread'.last = thread.last /\ thread'.sleep_end = thread.sleep_end
      /\ thread'.current \in {thread.current, now'}
  BY DEF IInv, Types, TypeOK
<1>4. HandlesOK'
  BY <1>3 DEF IInv, HandlesOK
<1>5. AddressesOK'
  BY DEF IInv, AddressesOK, InUse
<1>6. Entered'
  BY <1>3 DEF IInv, Entered
<1>7. SleepsNoLonger'
  BY <1>3 DEF IInv, SleepsNoLonger, Expected
<1>8. Pace'
  <2>1. now \in Nat /\ now' = now + 1 /\ thread.current \in Nat
    BY DEF IInv, Types, TypeOK, Instant
  <2>2. ASSUME NEW h \in 1 .. starts, Paced(h) PROVE Paced(h)'
    <3>1. h \in TimerHandle /\ fired[h] \in Nat /\ info[h].period \in Nat /\ info[h].next_expected \in Nat
      BY Bounds DEF IInv, Types, TypeOK, TimerInfo
    <3>2. PICK x \in Int, y \in Int : x = fired[h] * info[h].period /\ y = (fired[h] + 1) * info[h].period
      BY <3>1
    <3> QED BY <2>1, <2>2, <3>1, <3>2 DEF Paced
  <2> QED BY <1>3, <2>1, <2>2 DEF IInv, Pace
<1> QED BY <1>1, <1>2, <1>4, <1>5, <1>6, <1>7, <1>8 DEF IInv

\* A clock that is set back ends what Pace claims.
LEMMA SetBackInv ==
    ASSUME IInv, SetBack
    PROVE  IInv'
<1> USE DEF SetBack, handles, manager, queue, history
<1>1. setbacks' # 0 /\ setbacks' = setbacks + 1 /\ setbacks' \in 0 .. regime.setbacks
  <2>1. Types
    BY DEF IInv
  <2>2. setbacks \in Nat /\ regime.setbacks \in Nat /\ regime' = regime
    BY <2>1, Bounds DEF Types, TypeOK
  <2> QED BY <2>2
<1>2. Types'
  <2>1. now \in Instant /\ now' \in 0 .. now - 1 /\ now' \in Instant
    BY TimerManagerAssumption DEF IInv, Types, TypeOK, Instant
  <2> QED BY <1>1, <2>1 DEF IInv, Types, TypeOK
<1>3. OnePlace'
  BY DEF IInv, OnePlace, ObjectGone
<1>4. HandlesOK' /\ AddressesOK'
  BY DEF IInv, HandlesOK, AddressesOK, InUse
<1>5. Entered' /\ SleepsNoLonger'
  BY DEF IInv, Entered, SleepsNoLonger, Expected
<1>6. Pace'
  BY <1>1 DEF IInv, Pace
<1> QED BY <1>2, <1>3, <1>4, <1>5, <1>6 DEF IInv

\* An object that dies excuses the timer bound to it, and no other.
LEMMA ObjectDiesInv ==
    ASSUME IInv, NEW t \in Timer, ObjectDies(t)
    PROVE  IInv'
<1> USE DEF ObjectDies, clock, manager, queue, history
<1>1. Types'
  BY DEF IInv, Types, TypeOK
<1>2. OnePlace'
  BY DEF IInv, OnePlace, ObjectGone
<1>3. HandlesOK' /\ AddressesOK'
  BY DEF IInv, HandlesOK, AddressesOK, InUse
<1>4. Entered' /\ SleepsNoLonger'
  BY DEF IInv, Entered, SleepsNoLonger, Expected
<1>5. Pace'
  BY DEF IInv, Pace, Paced
<1> QED BY <1>1, <1>2, <1>3, <1>4, <1>5 DEF IInv

\* The callback queue gets to know the address of what was queued last.
LEMMA EnterIDInv ==
    ASSUME IInv, EnterID
    PROVE  IInv'
<1> USE DEF EnterID, clock, handles, manager, history
<1>1. thread.last \in timers_ /\ thread.last \in TimerHandle /\ info[thread.last].address \in Address
  BY Bounds DEF IInv, HandlesOK, AddressesOK, Types, TypeOK
<1>2. thread' = [thread EXCEPT !.at = "queue"] /\ thread'.at = "queue" /\ thread'.current = thread.current
  BY DEF IInv, Types, TypeOK
<1>3. Types'
  <2>1. thread' \in [at : {"queue", "enter", "sleep"}, current : Instant, sleep_end : Nat, last : TimerHandle \cup {None}]
    BY <1>2 DEF IInv, Types, TypeOK
  <2> QED BY <1>1, <2>1 DEF IInv, Types, TypeOK
<1>4. OnePlace'
  BY DEF IInv, OnePlace, ObjectGone
<1>5. HandlesOK' /\ AddressesOK'
  BY <1>2 DEF IInv, HandlesOK, AddressesOK, InUse
<1>6. Entered'
  BY <1>2 DEF IInv, Entered
<1>7. SleepsNoLonger'
  BY <1>2 DEF IInv, SleepsNoLonger, Expected
<1>8. Pace'
  BY <1>2 DEF IInv, Pace, Paced
<1> QED BY <1>3, <1>4, <1>5, <1>6, <1>7, <1>8 DEF IInv

\* The thread sleeps until the first that waits is expected, and with it all.
LEMMA SleepInv ==
    ASSUME IInv, Sleep
    PROVE  IInv'
<1> USE DEF Sleep, clock, handles, manager, queue, history
<1>1. thread.current \in Nat /\ \A h \in TimerHandle : info[h].next_expected \in Nat
  BY Bounds DEF IInv, Types, TypeOK, TimerInfo, Instant
<1>2. waiting_ # <<>> => Head(waiting_) \in TimerHandle
  BY DEF IInv, Types, TypeOK
<1>3. SleepEnd \in Nat
  BY <1>1, <1>2 DEF SleepEnd, IInv, Types, TypeOK, None
<1>4. thread' = [thread EXCEPT !.at = "sleep", !.sleep_end = SleepEnd] /\ thread'.at = "sleep" /\ thread'.current = thread.current
      /\ thread'.sleep_end = SleepEnd
  BY DEF IInv, Types, TypeOK
<1>5. Types'
  <2>1. thread' \in [at : {"queue", "enter", "sleep"}, current : Instant, sleep_end : Nat, last : TimerHandle \cup {None}]
    BY <1>3, <1>4 DEF IInv, Types, TypeOK
  <2> QED BY <2>1 DEF IInv, Types, TypeOK
<1>6. OnePlace'
  BY DEF IInv, OnePlace, ObjectGone
<1>7. HandlesOK' /\ AddressesOK'
  BY <1>4 DEF IInv, HandlesOK, AddressesOK, InUse
<1>8. Entered'
  BY <1>4 DEF IInv, Entered
<1>9. SleepsNoLonger'
  <2> SUFFICES ASSUME ~jumped
               PROVE  /\ \A i, j \in DOMAIN waiting_ : i < j => Expected(waiting_[i]) <= Expected(waiting_[j])
                      /\ \A h \in ToSet(waiting_) : SleepEnd <= Expected(h)
    BY <1>4 DEF SleepsNoLonger, Expected
  <2>1. \A i, j \in DOMAIN waiting_ : i < j => Expected(waiting_[i]) <= Expected(waiting_[j])
    BY DEF IInv, SleepsNoLonger
  <2>2. ASSUME NEW k \in DOMAIN waiting_ PROVE SleepEnd <= Expected(waiting_[k])
    <3>1. PICK n \in Nat : n = Len(waiting_) /\ DOMAIN waiting_ = 1 .. n
      BY LenProperties DEF IInv, Types, TypeOK
    <3>2. waiting_ # <<>> /\ 1 \in DOMAIN waiting_ /\ Head(waiting_) = waiting_[1]
      BY <3>1 DEF IInv, Types, TypeOK
    <3>3. SleepEnd = Expected(waiting_[1])
      BY <3>2 DEF SleepEnd, Expected
    <3>4. k = 1 \/ 1 < k
      BY <3>1
    <3>5. Expected(waiting_[1]) \in Nat
      BY <3>2, <1>1, <1>2 DEF Expected
    <3> QED BY <2>1, <3>2, <3>3, <3>4, <3>5
  <2> QED BY <2>1, <2>2 DEF ToSet
<1>10. Pace'
  BY <1>4 DEF IInv, Pace, Paced
<1> QED BY <1>5, <1>6, <1>7, <1>8, <1>9, <1>10 DEF IInv

-----------------------------------------------------------------------------
(* A round of the thread, and a callback that is called.                        *)

\* Where the clock was set back, what is expected changes, and jumped says so.
LEMMA BeginRoundInv ==
    ASSUME IInv, BeginRound
    PROVE  IInv'
<1> USE DEF BeginRound, clock, handles, queue
<1>1. now \in Nat /\ now \in Instant /\ thread.current \in Nat
  BY Bounds DEF IInv, Types, TypeOK, Instant
<1>2. \A h \in TimerHandle : info[h] \in TimerInfo
  BY DEF IInv, Types, TypeOK
<1>3. ASSUME NEW h \in TimerHandle
      PROVE  /\ Reset(info[h]) \in TimerInfo /\ Reset(info[h]).address = info[h].address
             /\ Reset(info[h]).oneshot = info[h].oneshot /\ Reset(info[h]).tracked = info[h].tracked
  <2>1. PICK i \in TimerInfo : i = info[h]
    BY <1>2
  <2>2. now + i.period \in Nat
    BY <1>1 DEF TimerInfo
  <2> QED BY <1>1, <2>1, <2>2 DEF Reset, TimerInfo
<1>4. info' \in [TimerHandle -> TimerInfo]
  <2>1. [h \in TimerHandle |-> IF h \in timers_ THEN Reset(info[h]) ELSE info[h]] \in [TimerHandle -> TimerInfo]
    BY <1>2, <1>3
  <2> QED BY <2>1 DEF IInv, Types, TypeOK
<1>5. \A h \in TimerHandle : info'[h].address = info[h].address /\ info'[h].tracked = info[h].tracked
  BY <1>3
<1>6. ~(now < thread.current) => info' = info
  OBVIOUS
<1>7. thread' = [thread EXCEPT !.at = "queue", !.current = now, !.last = None]
      /\ thread'.at = "queue" /\ thread'.current = now
  BY DEF IInv, Types, TypeOK
<1>8. 1 .. starts \subseteq TimerHandle /\ timers_ \subseteq TimerHandle
  BY Bounds DEF IInv, Types, TypeOK
<1>9. Types'
  <2>1. thread' \in [at : {"queue", "enter", "sleep"}, current : Instant, sleep_end : Nat, last : TimerHandle \cup {None}]
    BY <1>1, <1>7 DEF IInv, Types, TypeOK
  <2>2. jumped' \in BOOLEAN /\ new_timer_' \in BOOLEAN
    OBVIOUS
  <2> QED BY <1>4, <2>1, <2>2 DEF IInv, Types, TypeOK
<1>10. OnePlace'
  <2>1. \A h \in timers_ : ObjectGone(h) => ObjectGone(h)'
    BY <1>5, <1>8 DEF ObjectGone
  <2> QED BY <2>1 DEF IInv, OnePlace
<1>11. HandlesOK'
  BY <1>7 DEF IInv, HandlesOK
<1>12. AddressesOK'
  BY <1>5, <1>8 DEF IInv, AddressesOK, InUse
<1>13. Entered'
  <2>1. \A h \in TimerHandle : removing["callback"] = h => calling.handle \in TimerHandle
    BY DEF IInv, Entered, Types, TypeOK
  <2> QED BY <1>5, <1>7, <2>1 DEF IInv, Entered
<1>14. SleepsNoLonger'
  <2>1. ~jumped' => ~jumped /\ info' = info
    BY DEF IInv, Types, TypeOK
  <2> QED BY <1>7, <2>1 DEF IInv, SleepsNoLonger, Expected
<1>15. Pace'
  <2>1. setbacks = 0 => info' = info
    BY <1>1, <1>6 DEF IInv, Pace
  <2> QED BY <1>1, <1>7, <2>1 DEF IInv, Pace, Paced
<1> QED BY <1>9, <1>10, <1>11, <1>12, <1>13, <1>14, <1>15 DEF IInv

\* A timer that is due goes from waiting_ to the callback queue, at an address that
\* the queue is told next.
LEMMA QueueDueInv ==
    ASSUME IInv, QueueDue
    PROVE  IInv'
<1> USE DEF QueueDue, clock, handles, history
<1>1. waiting_ \in Seq(TimerHandle) /\ callbacks \in Seq(TimerHandle) /\ waiting_ # <<>> /\ Once(waiting_) /\ Once(callbacks)
  BY DEF IInv, Types, TypeOK, OnePlace
<1>2. PICK x \in TimerHandle : x = Head(waiting_) /\ Has(waiting_, x) /\ x \in timers_ /\ ~Has(callbacks, x) /\ calling.handle # x
        /\ x <= starts /\ x \in Nat
  <2>1. Head(waiting_) \in TimerHandle /\ Has(waiting_, Head(waiting_))
    BY <1>1, Taken
  <2>2. Head(waiting_) \in timers_ /\ ~Has(callbacks, Head(waiting_)) /\ calling.handle # Head(waiting_)
    BY <2>1 DEF IInv, OnePlace
  <2>3. Head(waiting_) \in 1 .. starts /\ starts \in Nat
    BY <2>2, Bounds DEF IInv, Types, TypeOK
  <2> QED BY <2>1, <2>2, <2>3
<1>3. /\ waiting_' \in Seq(TimerHandle) /\ Once(waiting_')
      /\ \A h : Has(waiting_', h) <=> Has(waiting_, h) /\ h # x
      /\ \A known : Ascending(waiting_, known) => Ascending(waiting_', known)
  BY <1>1, <1>2, Taken
<1>4. /\ callbacks' \in Seq(TimerHandle) /\ Once(callbacks')
      /\ \A h : Has(callbacks', h) <=> Has(callbacks, h) \/ h = x
  BY <1>1, <1>2, Added
<1>5. thread' = [thread EXCEPT !.at = "enter", !.current = now, !.last = x]
      /\ thread'.at = "enter" /\ thread'.current = now /\ thread'.last = x
  BY <1>2 DEF IInv, Types, TypeOK
<1>6. Types'
  <2>1. thread' \in [at : {"queue", "enter", "sleep"}, current : Instant, sleep_end : Nat, last : TimerHandle \cup {None}]
    BY <1>2, <1>5 DEF IInv, Types, TypeOK
  <2> QED BY <1>3, <1>4, <2>1 DEF IInv, Types, TypeOK
<1>7. OnePlace'
  <2>1. \A h : ObjectGone(h) <=> ObjectGone(h)'
    BY DEF ObjectGone
  <2> QED BY <1>2, <1>3, <1>4, <2>1 DEF IInv, OnePlace
<1>8. HandlesOK'
  BY <1>2, <1>5 DEF IInv, HandlesOK
<1>9. AddressesOK'
  <2>1. \A h : InUse(h)' <=> h \in timers_ \/ calling.handle = h \/ Has(callbacks', h)
    BY DEF InUse, Has
  <2>2. \A h : InUse(h) <=> h \in timers_ \/ calling.handle = h \/ Has(callbacks, h)
    BY DEF InUse, Has
  <2>3. \A h : InUse(h)' => InUse(h)
    BY <2>1, <2>2, <1>2, <1>4
  <2> QED BY <2>3 DEF IInv, AddressesOK
<1>10. Entered'
  BY <1>4, <1>5 DEF IInv, Entered
<1>11. SleepsNoLonger'
  <2>1. ~jumped => Ascending(waiting_, info)
    BY DEF IInv, SleepsNoLonger, Ascending, Expected
  <2>2. ~jumped => Ascending(waiting_', info)
    BY <2>1, <1>3
  <2> QED BY <2>2, <1>5 DEF SleepsNoLonger, Ascending, Expected
<1>12. Pace'
  <2>1. now \in Nat /\ now <= MaxTime /\ Never > MaxTime /\ MaxTime \in Nat /\ Never \in Nat
    BY Bounds DEF IInv
  <2>2. setbacks = 0 => thread.current <= now
    BY DEF IInv, Pace
  <2>3. info[x].next_expected <= thread.current /\ info[x].next_expected \in Nat /\ thread.current \in Nat
    <3>1. info[x].next_expected <= thread.current
      BY <1>2
    <3>2. info[x] \in TimerInfo /\ thread.current \in Instant
      BY <1>2 DEF IInv, Types, TypeOK
    <3> QED BY <2>1, <3>1, <3>2 DEF TimerInfo, Instant
  <2>4. ASSUME NEW h \in 1 .. starts, Paced(h), setbacks = 0 PROVE Paced(h)'
    <3>1. CASE h = x
      <4>1. info[x].next_expected <= now /\ info[x].next_expected # Never
        BY <2>1, <2>2, <2>3, <2>4
      <4>2. ~Has(waiting_', x) /\ calling.handle # x
        BY <1>2, <1>3
      <4> QED BY <2>4, <3>1, <4>1, <4>2, <1>2 DEF Paced
    <3>2. CASE h # x
      <4>1. (Has(waiting_', h) <=> Has(waiting_, h)) /\ (Has(callbacks', h) <=> Has(callbacks, h))
        BY <3>2, <1>3, <1>4
      <4> QED BY <2>4, <4>1 DEF Paced
    <3> QED BY <3>1, <3>2
  <2> QED BY <2>1, <2>4, <1>5 DEF IInv, Pace
<1> QED BY <1>6, <1>7, <1>8, <1>9, <1>10, <1>11, <1>12 DEF IInv

\* A callback leaves the queue to be called, or is dropped.
LEMMA CallInv ==
    ASSUME IInv, Call
    PROVE  IInv'
<1> USE DEF Call, clock, handles, manager
<1>1. callbacks \in Seq(TimerHandle) /\ callbacks # <<>> /\ Once(callbacks) /\ calling.handle = None
  BY DEF IInv, Types, TypeOK, OnePlace, Nothing
<1>2. PICK x \in TimerHandle : x = Head(callbacks) /\ Has(callbacks, x) /\ x <= starts /\ x \in Nat /\ ~Has(waiting_, x) /\ x # None
        /\ x \in 1 .. starts
  <2>1. Head(callbacks) \in TimerHandle /\ Has(callbacks, Head(callbacks))
    BY <1>1, Taken
  <2>2. ~Has(waiting_, Head(callbacks)) /\ Head(callbacks) <= starts
    BY <2>1 DEF IInv, OnePlace
  <2>3. Head(callbacks) \in Nat /\ Head(callbacks) # None /\ Head(callbacks) \in 1 .. starts
    BY <2>1, <2>2, Bounds DEF IInv, TimerHandle
  <2> QED BY <2>1, <2>2, <2>3
<1>3. /\ callbacks' \in Seq(TimerHandle) /\ Once(callbacks')
      /\ \A h : Has(callbacks', h) <=> Has(callbacks, h) /\ h # x
  BY <1>1, <1>2, Taken
<1> DEFINE known == info[x].address \in id_info
<1>4. \/ /\ known /\ Callable(x) /\ calling' = [handle |-> x, real |-> now] /\ calling'.handle = x
         /\ fired' = [fired EXCEPT ![x] = @ + 1] /\ lost' = lost
      \/ /\ calling' = calling /\ fired' = fired /\ ~(known /\ Callable(x))
         /\ lost' = IF ~known /\ x \in timers_ THEN lost \cup {x} ELSE lost
  BY <1>2
<1>5. Types'
  <2>1. calling' \in [handle : TimerHandle \cup {None}, real : Instant]
    BY <1>4, <1>2 DEF IInv, Types, TypeOK
  <2>2. lost' \subseteq TimerHandle
    BY <1>4, <1>2 DEF IInv, Types, TypeOK
  <2>3. fired' \in [TimerHandle -> Nat]
    <3>1. fired \in [TimerHandle -> Nat]
      BY DEF IInv, Types, TypeOK
    <3> QED BY <3>1, <1>2, <1>4
  <2> QED BY <1>3, <2>1, <2>2, <2>3 DEF IInv, Types, TypeOK
<1>6. calling'.handle \in {None, x}
  BY <1>1, <1>4
<1>7. OnePlace'
  <2>1. \A h : ObjectGone(h) <=> ObjectGone(h)'
    BY DEF ObjectGone
  <2>2. x \in timers_ => calling'.handle = x \/ x \in lost' \/ ObjectGone(x)
    BY <1>4 DEF Callable, ObjectGone
  <2>3. \A h \in lost : h \in lost'
    BY <1>4
  <2>4. calling'.handle <= starts
    BY <1>6, <1>2, Bounds DEF IInv, None
  <2>5. \A h \in timers_ : h # x => Has(waiting_, h) \/ Has(callbacks, h) \/ h \in lost \/ ObjectGone(h)
    <3>1. \A h \in timers_ : h \in Nat /\ h # None
      BY Bounds DEF IInv, Types, TypeOK, None
    <3> QED BY <1>1, <3>1 DEF IInv, OnePlace
  <2>6. \A h \in timers_ : Has(waiting_, h) \/ Has(callbacks', h) \/ calling'.handle = h \/ h \in lost' \/ ObjectGone(h)'
    BY <2>1, <2>2, <2>3, <2>5, <1>3
  <2>7. \A h \in TimerHandle : Has(waiting_, h) => h \in timers_ /\ ~Has(callbacks', h) /\ calling'.handle # h
    <3>1. \A h \in TimerHandle : h # None
      BY Bounds DEF IInv
    <3> QED BY <1>2, <1>3, <1>6, <3>1 DEF IInv, OnePlace
  <2>8. \A h \in TimerHandle : Has(callbacks', h) => h <= starts /\ calling'.handle # h
    <3>1. \A h \in TimerHandle : h # None
      BY Bounds DEF IInv
    <3> QED BY <1>2, <1>3, <1>6, <3>1 DEF IInv, OnePlace
  <2> QED BY <1>3, <2>4, <2>6, <2>7, <2>8 DEF IInv, OnePlace
<1>8. HandlesOK'
  BY DEF IInv, HandlesOK
<1>9. AddressesOK'
  <2>1. \A h \in TimerHandle : InUse(h)' => InUse(h)
    <3>1. \A h \in TimerHandle : InUse(h)' => h \in timers_ \/ calling'.handle = h \/ Has(callbacks', h)
      BY DEF InUse, Has
    <3>2. \A h \in TimerHandle : h \in timers_ \/ Has(callbacks, h) => InUse(h)
      BY DEF InUse, Has
    <3>3. \A h \in TimerHandle : h # None
      BY Bounds DEF IInv
    <3> QED BY <3>1, <3>2, <3>3, <1>2, <1>3, <1>6
  <2> QED BY <2>1 DEF IInv, AddressesOK
<1>10. Entered'
  <2>1. removing["callback"] = None
    <3>1. removing["callback"] \in TimerHandle \cup {None}
      BY DEF IInv, Types, TypeOK, Caller
    <3> QED BY <3>1, <1>1 DEF IInv, Entered
  <2>2. \A h \in TimerHandle : h # None
    BY Bounds DEF IInv
  <2>3. calling'.handle = x => known
    BY <1>1, <1>2, <1>4
  <2> QED BY <2>1, <2>2, <2>3, <1>3, <1>6 DEF IInv, Entered
<1>11. SleepsNoLonger'
  BY DEF IInv, SleepsNoLonger, Expected
<1>12. Pace'
  <2>1. fired \in [TimerHandle -> Nat] /\ now \in Nat /\ info[x].period \in Nat /\ fired[x] \in Nat
    BY Bounds, <1>2 DEF IInv, Types, TypeOK, TimerInfo
  <2>2. starts \in Nat /\ 1 .. starts \subseteq TimerHandle /\ TimerHandle \subseteq Nat /\ None \notin TimerHandle
    BY Bounds DEF IInv
  <2>3. ASSUME NEW h \in TimerHandle, h > starts PROVE fired'[h] = 0
    <3>1. h # x /\ fired[h] = 0
      BY <2>2, <2>3, <1>2 DEF IInv, Pace
    <3> QED BY <3>1, <1>4, <2>1
  <2>4. ASSUME NEW h \in 1 .. starts, Paced(h) PROVE Paced(h)'
    <3>1. CASE h # x
      <4>1. fired'[h] = fired[h] /\ (Has(callbacks', h) <=> Has(callbacks, h)) /\ calling'.handle # h
        BY <1>3, <1>4, <1>6, <2>1, <2>2, <3>1
      <4> QED BY <2>4, <4>1 DEF Paced
    <3>2. CASE h = x
      <4>1. ~Has(callbacks', x) /\ ~Has(waiting_, x) /\ Has(callbacks, x)
        BY <1>2, <1>3
      <4>2. CASE calling' = calling
        <5>1. fired' = fired /\ calling'.handle # x
          BY <4>2, <1>1, <1>2, <1>4
        <5> QED BY <2>4, <3>2, <4>1, <5>1 DEF Paced
      <4>3. CASE calling' # calling
        <5>1. fired'[x] = fired[x] + 1
          BY <4>3, <1>4, <2>1
        <5>2. (fired[x] + 1) * info[x].period <= info[x].next_expected /\ info[x].next_expected <= now
              /\ (info[x].oneshot => fired[x] = 0)
          BY <2>4, <3>2, <4>1 DEF Paced
        <5>3. (fired[x] + 1) * info[x].period \in Nat /\ info[x].next_expected \in Nat
          <6>1. info[x].next_expected \in Nat
            BY <1>2 DEF IInv, Types, TypeOK, TimerInfo
          <6> QED BY <6>1, <2>1
        <5>4. (fired[x] + 1) * info[x].period <= now
          BY <5>2, <5>3, <2>1
        <5> QED BY <3>2, <4>1, <5>1, <5>2, <5>4, <2>1 DEF Paced
      <4> QED BY <4>2, <4>3
    <3> QED BY <3>1, <3>2
  <2>5. thread' = thread /\ now' = now /\ setbacks' = setbacks /\ changes' = changes /\ starts' = starts
    OBVIOUS
  <2>6. setbacks = 0 => thread.current <= now
    BY DEF IInv, Pace
  <2>7. setbacks = 0 /\ changes = 0 => \A h \in 1 .. starts : Paced(h)'
    BY <2>4 DEF IInv, Pace
  <2> QED BY <2>3, <2>5, <2>6, <2>7 DEF Pace
<1> QED BY <1>5, <1>7, <1>8, <1>9, <1>10, <1>11, <1>12 DEF IInv

-----------------------------------------------------------------------------
(* stop(), in its two steps.                                                    *)

\* remove() takes the timer out of waiting_ and keeps its address to the second step.
LEMMA StopInv ==
    ASSUME IInv, NEW c \in Caller, NEW t \in Timer, Stop(c, t)
    PROVE  IInv'
<1> USE DEF Stop, clock, history
<1>1. PICK x \in TimerHandle : x = timer_handle_[t] /\ x \in timers_ /\ x # None /\ x \in 1 .. starts
  <2>1. timer_handle_[t] \in TimerHandle \cup {None}
    BY DEF IInv, Types, TypeOK
  <2>2. timer_handle_[t] \in timers_ /\ timers_ \subseteq 1 .. starts
    BY DEF IInv, HandlesOK, Types, TypeOK
  <2> QED BY <2>1, <2>2
<1>2. /\ waiting_' \in Seq(TimerHandle) /\ Once(waiting_')
      /\ \A h : Has(waiting_', h) <=> Has(waiting_, h) /\ h \in TimerHandle \ {x}
      /\ \A known : Ascending(waiting_, known) => Ascending(waiting_', known)
  <2>1. waiting_ \in Seq(TimerHandle) /\ Once(waiting_) /\ waiting_' = Filter(waiting_, TimerHandle \ {x})
    BY <1>1 DEF IInv, Types, TypeOK, OnePlace
  <2> QED BY <2>1, Erased
<1>3. timer_handle_' = [timer_handle_ EXCEPT ![t] = None] /\ timers_' = timers_ \ {x} /\ removing' = [removing EXCEPT ![c] = x]
      /\ timer_handle_ \in [Timer -> TimerHandle \cup {None}] /\ removing \in [Caller -> TimerHandle \cup {None}]
  BY <1>1 DEF IInv, Types, TypeOK
<1>4. Types'
  <2>1. timer_handle_' \in [Timer -> TimerHandle \cup {None}]
    BY <1>3
  <2>2. removing' \in [Caller -> TimerHandle \cup {None}]
    BY <1>1, <1>3
  <2>3. timers_' \subseteq 1 .. starts
    BY <1>3 DEF IInv, Types, TypeOK
  <2> QED BY <1>2, <2>1, <2>2, <2>3 DEF IInv, Types, TypeOK
<1>5. OnePlace'
  <2>1. \A h \in timers_' : h \in timers_ /\ h # x /\ h \in TimerHandle /\ h # None
    BY <1>3, Bounds DEF IInv, Types, TypeOK
  <2>2. \A h \in timers_' : ObjectGone(h) => ObjectGone(h)'
    <3>1. \A u \in Timer, h \in timers_' : timer_handle_'[u] = h => timer_handle_[u] = h
      BY <1>3, <2>1
    <3>2. objects \subseteq Timer
      BY DEF IInv, Types, TypeOK
    <3> QED BY <3>1, <3>2 DEF ObjectGone
  <2>3. \A h \in timers_' : (Has(waiting_', h) \/ Has(callbacks, h) \/ calling.handle = h \/ h \in lost \/ ObjectGone(h)')
    BY <1>2, <2>1, <2>2 DEF IInv, OnePlace
  <2>4. \A h \in TimerHandle : Has(waiting_', h) => h \in timers_' /\ ~Has(callbacks, h) /\ calling.handle # h
    BY <1>2, <1>3 DEF IInv, OnePlace
  <2> QED BY <1>2, <2>3, <2>4 DEF IInv, OnePlace
<1>6. HandlesOK'
  <2>1. ASSUME NEW u \in Timer, timer_handle_'[u] # None PROVE u # t /\ timer_handle_'[u] = timer_handle_[u]
    BY <1>3, <2>1
  <2>2. ASSUME NEW u \in Timer, timer_handle_'[u] # None PROVE timer_handle_'[u] \in timers_'
    BY <2>1, <2>2, <1>1, <1>3 DEF IInv, HandlesOK
  <2>3. ASSUME NEW u \in Timer, NEW v \in Timer, timer_handle_'[u] = timer_handle_'[v], timer_handle_'[u] # None
        PROVE  u = v
    BY <2>1, <2>3 DEF IInv, HandlesOK
  <2>4. ASSUME NEW d \in Caller, removing'[d] # None PROVE removing'[d] \notin timers_' /\ removing'[d] <= starts
    <3>1. x <= starts
      BY <1>1, Bounds DEF IInv
    <3> QED BY <2>4, <1>3, <3>1 DEF IInv, HandlesOK
  <2>5. ASSUME removing'["user"] = removing'["callback"] PROVE removing'["user"] = None
    <3>1. \A d \in Caller : removing[d] # x
      BY <1>1 DEF IInv, HandlesOK
    <3> QED BY <2>5, <3>1, <1>1, <1>3 DEF Caller
  <2>6. thread'.at # "enter"
    BY DEF MutexFree
  <2> QED BY <2>2, <2>3, <2>4, <2>5, <2>6 DEF HandlesOK
<1>7. AddressesOK'
  <2>1. \A h : InUse(h)' => InUse(h)
    BY <1>3 DEF InUse
  <2> QED BY <2>1 DEF IInv, AddressesOK
<1>8. Entered'
  <2>1. \A h \in TimerHandle : Has(callbacks, h) => info[h].address \in id_info \/ (thread.at = "enter" /\ thread.last = h)
    BY DEF IInv, Entered
  <2>2. ASSUME NEW h \in TimerHandle, calling.handle = h, h \in timers_' \/ removing'["user"] = h
        PROVE  info[h].address \in id_info
    <3>1. h \in timers_ \/ removing["user"] = h
      BY <2>2, <1>1, <1>3 DEF Caller
    <3> QED BY <2>2, <3>1 DEF IInv, Entered
  <2>3. ASSUME NEW h \in TimerHandle, removing'["callback"] = h
        PROVE  calling.handle # None /\ (calling.handle = h \/ info[h].address # info[calling.handle].address)
    <3>1. CASE c = "callback"
      <4>1. h = x /\ calling.handle # None /\ calling.handle \in TimerHandle /\ InUse(x) /\ InUse(calling.handle)
        BY <3>1, <2>3, <1>1, <1>3 DEF MayCall, IInv, Types, TypeOK, Caller, InUse
      <4> QED BY <4>1 DEF IInv, AddressesOK
    <3>2. CASE c # "callback"
      BY <3>2, <2>3, <1>3 DEF IInv, Entered, Caller
    <3> QED BY <3>1, <3>2
  <2> QED BY <2>1, <2>2, <2>3 DEF Entered
<1>9. SleepsNoLonger'
  <2>1. ~jumped => Ascending(waiting_', info)
    <3>1. ~jumped => Ascending(waiting_, info)
      BY DEF IInv, SleepsNoLonger, Ascending, Expected
    <3> QED BY <3>1, <1>2
  <2>2. ToSet(waiting_') \subseteq ToSet(waiting_)
    <3>1. \A h : Has(waiting_', h) => Has(waiting_, h)
      BY <1>2
    <3> QED BY <3>1 DEF ToSet, Has
  <2>3. ~jumped /\ thread.at = "sleep" /\ ~new_timer_ => \A h \in ToSet(waiting_') : thread.sleep_end <= Expected(h)
    BY <2>2 DEF IInv, SleepsNoLonger
  <2> QED BY <2>1, <2>3 DEF SleepsNoLonger, Ascending, Expected
<1>10. Pace'
  <2>1. \A h \in 1 .. starts : Paced(h) => Paced(h)'
    BY <1>2 DEF Paced
  <2> QED BY <2>1 DEF IInv, Pace
<1> QED BY <1>4, <1>5, <1>6, <1>7, <1>8, <1>9, <1>10 DEF IInv

\* What a removal leaves in the queue.
LEMMA RemovedFrom ==
    ASSUME IInv, NEW c \in Caller, RemoveByID(c)
    PROVE  \E x \in TimerHandle, a \in Address :
             /\ x = removing[c] /\ a = info[x].address /\ x # None
             /\ c = "user" /\ calling.handle # None /\ a \in id_info => info[calling.handle].address # a
             /\ id_info' = id_info \ {a}
             /\ callbacks' \in Seq(TimerHandle) /\ Once(callbacks')
             /\ \A h \in TimerHandle :
                   Has(callbacks', h) <=> Has(callbacks, h) /\ (a \in id_info => info[h].address # a)
             /\ \A h \in timers_ : Has(callbacks, h) => Has(callbacks', h) \/ h \in lost'
             /\ lost' \subseteq TimerHandle /\ lost \subseteq lost'
             /\ removing' = [removing EXCEPT ![c] = None]
<1>1. removing[c] \in TimerHandle /\ removing[c] # None /\ removing[c] \in 1 .. starts
  <2>1. removing[c] \in TimerHandle \cup {None} /\ removing[c] # None
    BY DEF IInv, Types, TypeOK, RemoveByID
  <2>2. removing[c] <= starts
    BY <2>1 DEF IInv, HandlesOK
  <2> QED BY <2>1, <2>2, Bounds DEF IInv, TimerHandle
<1>2. PICK x \in TimerHandle : x = removing[c] /\ x # None
  BY <1>1
<1>3. PICK a \in Address : a = info[x].address
  BY <1>1, <1>2 DEF IInv, AddressesOK
<1>4. PICK queued : queued = {h \in ToSet(callbacks) : info[h].address = a}
  OBVIOUS
<1>5. callbacks \in Seq(TimerHandle) /\ Once(callbacks) /\ timers_ \subseteq TimerHandle /\ lost \subseteq TimerHandle
  BY Bounds DEF IInv, Types, TypeOK, OnePlace
<1>6. \A h : h \in queued <=> Has(callbacks, h) /\ info[h].address = a
  BY <1>4 DEF ToSet, Has
<1>7. /\ c = "user" /\ calling.handle # None /\ a \in id_info => info[calling.handle].address # a
      /\ id_info' = id_info \ {a} /\ removing' = [removing EXCEPT ![c] = None]
      /\ IF a \in id_info THEN callbacks' = Filter(callbacks, TimerHandle \ queued) /\ lost' = lost \cup (queued \cap timers_)
                          ELSE callbacks' = callbacks /\ lost' = lost
  BY <1>2, <1>3, <1>4 DEF RemoveByID
<1>8. CASE a \in id_info
  <2>1. /\ callbacks' \in Seq(TimerHandle) /\ Once(callbacks')
        /\ \A h : Has(callbacks', h) <=> Has(callbacks, h) /\ h \in TimerHandle \ queued
    BY <1>5, <1>7, <1>8, Erased
  <2>2. \A h \in TimerHandle : Has(callbacks', h) <=> Has(callbacks, h) /\ info[h].address # a
    BY <2>1, <1>6
  <2>3. ASSUME NEW h \in timers_, Has(callbacks, h) PROVE Has(callbacks', h) \/ h \in lost'
    <3>1. CASE h \in queued
      BY <3>1, <1>7, <1>8
    <3>2. CASE h \notin queued
      BY <3>2, <2>1, <2>3, <1>5
    <3> QED BY <3>1, <3>2
  <2>4. lost' \subseteq TimerHandle /\ lost \subseteq lost'
    BY <1>5, <1>7, <1>8
  <2> QED BY <1>2, <1>3, <1>7, <1>8, <2>1, <2>2, <2>3, <2>4
<1>9. CASE a \notin id_info
  BY <1>2, <1>3, <1>5, <1>7, <1>9
<1> QED BY <1>8, <1>9

\* A removal from the queue drops a timer that is in use only when it has its address.
LEMMA RemoveByIDInv ==
    ASSUME IInv, NEW c \in Caller, RemoveByID(c)
    PROVE  IInv'
<1>1. PICK x \in TimerHandle, a \in Address :
        /\ x = removing[c] /\ a = info[x].address /\ x # None
        /\ c = "user" /\ calling.handle # None /\ a \in id_info => info[calling.handle].address # a
        /\ id_info' = id_info \ {a}
        /\ callbacks' \in Seq(TimerHandle) /\ Once(callbacks')
        /\ \A h \in TimerHandle : Has(callbacks', h) <=> Has(callbacks, h) /\ (a \in id_info => info[h].address # a)
        /\ \A h \in timers_ : Has(callbacks, h) => Has(callbacks', h) \/ h \in lost'
        /\ lost' \subseteq TimerHandle /\ lost \subseteq lost'
        /\ removing' = [removing EXCEPT ![c] = None]
  BY RemovedFrom
<1>2. UNCHANGED <<clock, handles, manager, thread, calling, fired, jumped>>
  BY DEF RemoveByID
<1> USE DEF clock, handles, manager
<1>3. removing \in [Caller -> TimerHandle \cup {None}]
  BY DEF IInv, Types, TypeOK
<1>4. Types'
  <2>1. removing' \in [Caller -> TimerHandle \cup {None}]
    BY <1>1, <1>3
  <2> QED BY <1>1, <1>2, <2>1 DEF IInv, Types, TypeOK
<1>5. timers_ \subseteq TimerHandle
  BY Bounds DEF IInv, Types, TypeOK
<1>6. OnePlace'
  <2>1. \A h : ObjectGone(h) <=> ObjectGone(h)'
    BY <1>2 DEF ObjectGone
  <2> QED BY <1>1, <1>2, <1>5, <2>1 DEF IInv, OnePlace
<1>7. HandlesOK'
  <2>1. \A d \in Caller : removing'[d] = (IF d = c THEN None ELSE removing[d])
    BY <1>1, <1>3
  <2>2. removing'["user"] = removing'["callback"] => removing'["user"] = None
    <3>1. "user" \in Caller /\ "callback" \in Caller
      BY DEF Caller
    <3> QED BY <2>1, <3>1 DEF IInv, HandlesOK, Caller
  <2> QED BY <1>2, <2>1, <2>2 DEF IInv, HandlesOK
<1>8. AddressesOK'
  <2>1. \A h \in TimerHandle : InUse(h)' => InUse(h)
    <3>1. \A h : InUse(h)' <=> h \in timers_ \/ calling.handle = h \/ Has(callbacks', h)
      BY <1>2 DEF InUse, Has
    <3>2. \A h : InUse(h) <=> h \in timers_ \/ calling.handle = h \/ Has(callbacks, h)
      BY DEF InUse, Has
    <3> QED BY <3>1, <3>2, <1>1
  <2> QED BY <1>2, <2>1 DEF IInv, AddressesOK
<1>9. Entered'
  <2>1. ASSUME NEW h \in TimerHandle, Has(callbacks', h)
        PROVE  info[h].address \in id_info' \/ (thread.at = "enter" /\ thread.last = h)
    BY <2>1, <1>1 DEF IInv, Entered
  <2>2. ASSUME NEW h \in TimerHandle, calling.handle = h, h \in timers_ \/ removing'["user"] = h
        PROVE  info[h].address \in id_info'
    <3>1. h # None /\ (h \in timers_ \/ removing["user"] = h)
      BY <2>2, <1>1, <1>3, Bounds DEF IInv, Caller
    <3>2. info[h].address \in id_info
      BY <2>2, <3>1 DEF IInv, Entered
    <3>3. info[h].address # a
      <4>1. CASE c = "user"
        BY <4>1, <1>1, <2>2, <3>1, <3>2
      <4>2. CASE c = "callback"
        <5>1. h # x
          <6>1. x \notin timers_
            BY <1>1 DEF IInv, HandlesOK
          <6>2. removing["user"] # x
            BY <4>2, <1>1 DEF IInv, HandlesOK
          <6> QED BY <6>1, <6>2, <3>1
        <5>2. x \in TimerHandle /\ removing["callback"] = x
          BY <4>2, <1>1
        <5>3. info[x].address # info[h].address
          BY <5>1, <5>2, <2>2 DEF IInv, Entered
        <5> QED BY <5>3, <1>1
      <4> QED BY <4>1, <4>2 DEF Caller
    <3> QED BY <3>2, <3>3, <1>1
  <2>3. ASSUME NEW h \in TimerHandle, removing'["callback"] = h
        PROVE  calling.handle # None /\ (calling.handle = h \/ info[h].address # info[calling.handle].address)
    <3>1. removing["callback"] = h
      BY <2>3, <1>1, <1>3, Bounds DEF IInv, Caller
    <3> QED BY <3>1 DEF IInv, Entered
  <2> QED BY <1>2, <2>1, <2>2, <2>3 DEF Entered
<1>10. SleepsNoLonger'
  BY <1>2 DEF IInv, SleepsNoLonger, Expected
<1>11. Pace'
  <2>1. 1 .. starts \subseteq TimerHandle
    BY Bounds DEF IInv
  <2>2. \A h \in 1 .. starts : Paced(h) => Paced(h)'
    BY <1>1, <1>2, <2>1 DEF Paced
  <2> QED BY <1>2, <2>2 DEF IInv, Pace
<1> QED BY <1>4, <1>6, <1>7, <1>8, <1>9, <1>10, <1>11 DEF IInv

-----------------------------------------------------------------------------
(* A timer that is started or given a new period: the list is sorted again.     *)

\* What add(), setPeriod() and schedule() do to the list.
LEMMA Enlisted ==
    ASSUME NEW known \in [TimerHandle -> TimerInfo], NEW list \in Seq(TimerHandle), Once(list), Enlist(known, list)
    PROVE  /\ waiting_' \in Seq(TimerHandle) /\ Once(waiting_')
           /\ \A h : Has(waiting_', h) <=> Has(list, h)
           /\ info' = known /\ new_timer_' = TRUE /\ jumped' = FALSE
           /\ \A i, j \in DOMAIN waiting_' : i < j => info'[waiting_'[i]].next_expected <= info'[waiting_'[j]].next_expected
  BY SortedList DEF Enlist, Ascending

\* A new timer has a handle of its own and an address nothing in use has.
LEMMA StartInv ==
    ASSUME IInv, NEW c \in Caller, NEW s \in regime.settings, Start(c, s.timer, s.period, s.oneshot)
    PROVE  IInv'
<1>1. PICK t \in Timer, period \in Nat, oneshot \in BOOLEAN :
        t = s.timer /\ period = s.period /\ oneshot = s.oneshot /\ period > 0
  <2>1. s.timer \in Timer /\ s.period \in Nat /\ s.period > 0 /\ s.oneshot \in BOOLEAN
    BY Bounds DEF IInv
  <2> QED BY <2>1
<1>2. Start(c, t, period, oneshot)
  BY <1>1
<1>3. PICK x \in TimerHandle : x = starts + 1 /\ x \in Nat /\ x # None /\ ~(x \in 1 .. starts)
  <2>1. starts + 1 \in TimerHandle /\ starts \in Nat
    BY <1>2, Bounds DEF IInv, Start, TimerHandle
  <2> QED BY <2>1 DEF None
<1>4. PICK a \in FreeAddress :
        Enlist([info EXCEPT ![x] = [Unset EXCEPT !.address = a, !.period = period, !.oneshot = oneshot,
                                                 !.tracked = t \in objects,
                                                 !.last_expected = now, !.next_expected = now + period]],
               Append(waiting_, x))
  BY <1>2, <1>3 DEF Start
<1>5. /\ MutexFree /\ timer_handle_[t] = None /\ starts < regime.starts /\ starts' = x
      /\ timer_handle_' = [timer_handle_ EXCEPT ![t] = x] /\ timers_' = timers_ \cup {x}
      /\ UNCHANGED <<clock, objects, changes, thread, queue, lost, fired>>
  BY <1>2, <1>3 DEF Start
<1> USE DEF clock, queue
<1>6. a \in Address /\ \A h \in TimerHandle : InUse(h) => info[h].address # a
  BY DEF FreeAddress
<1>7. now \in Nat /\ starts \in Nat /\ 1 .. starts \subseteq TimerHandle /\ TimerHandle \subseteq Nat /\ timers_ \subseteq 1 .. starts
      /\ waiting_ \in Seq(TimerHandle) /\ info \in [TimerHandle -> TimerInfo] /\ Once(waiting_)
      /\ timer_handle_ \in [Timer -> TimerHandle \cup {None}]
  BY Bounds DEF IInv, Types, TypeOK, OnePlace
<1>8. PICK i \in TimerInfo :
        i = [Unset EXCEPT !.address = a, !.period = period, !.oneshot = oneshot, !.tracked = t \in objects,
                          !.last_expected = now, !.next_expected = now + period]
        /\ i.address = a /\ i.period = period /\ i.oneshot = oneshot /\ i.next_expected = now + period
  <2>1. Never \in Nat /\ now + period \in Nat
    BY <1>1, <1>7, Bounds DEF IInv
  <2>2. - Never \in Int
    BY <2>1
  <2>3. PICK tracked \in BOOLEAN : (t \in objects) = tracked
    <3>1. CASE t \in objects
      <4>1. (t \in objects) = TRUE
        BY <3>1
      <4> QED BY <4>1
    <3>2. CASE t \notin objects
      <4>1. (t \in objects) = FALSE
        BY <3>2
      <4> QED BY <4>1
    <3> QED BY <3>1, <3>2
  <2>4. Unset \in TimerInfo
    BY <2>1, <2>2 DEF Unset, TimerInfo, None
  <2>5. ASSUME NEW u \in TimerInfo
        PROVE  LET j == [u EXCEPT !.address = a, !.period = period, !.oneshot = oneshot, !.tracked = tracked,
                                  !.last_expected = now, !.next_expected = now + period]
               IN  /\ j \in TimerInfo /\ j.address = a /\ j.period = period /\ j.oneshot = oneshot
                   /\ j.next_expected = now + period
    BY <1>6, <1>7, <2>1 DEF TimerInfo
  <2>6. PICK u \in TimerInfo : u = Unset
    BY <2>4
  <2> QED BY <2>3, <2>5, <2>6
<1>9. PICK known \in [TimerHandle -> TimerInfo] : known = [info EXCEPT ![x] = i]
  BY <1>7
<1>10. \A h : Has(waiting_, h) => h \in timers_ /\ h \in TimerHandle
  <2>1. \A h : Has(waiting_, h) => h \in TimerHandle
    BY <1>7 DEF Has
  <2> QED BY <2>1 DEF IInv, OnePlace
<1>11. ~Has(waiting_, x) /\ ~Has(callbacks, x) /\ calling.handle # x /\ x \notin timers_ /\ x > starts
  <2>1. x > starts /\ x \notin timers_
    BY <1>3, <1>7
  <2>2. ~(x <= starts)
    BY <2>1, <1>7
  <2> QED BY <1>10, <2>1, <2>2 DEF IInv, OnePlace
<1>12. /\ Append(waiting_, x) \in Seq(TimerHandle) /\ Once(Append(waiting_, x))
       /\ \A h : Has(Append(waiting_, x), h) <=> Has(waiting_, h) \/ h = x
  BY <1>7, <1>11, Added
<1>13. /\ waiting_' \in Seq(TimerHandle) /\ Once(waiting_')
       /\ \A h : Has(waiting_', h) <=> Has(waiting_, h) \/ h = x
       /\ info' = known /\ new_timer_' = TRUE /\ jumped' = FALSE
       /\ \A k, j \in DOMAIN waiting_' : k < j => info'[waiting_'[k]].next_expected <= info'[waiting_'[j]].next_expected
  <2>1. Enlist(known, Append(waiting_, x))
    BY <1>4, <1>8, <1>9
  <2> QED BY <2>1, <1>12, Enlisted
<1>14. \A h \in TimerHandle : h # x => info'[h] = info[h]
  BY <1>7, <1>9, <1>13
<1>15. info'[x] = i
  BY <1>7, <1>9, <1>13
<1>16. Types'
  <2>1. regime.starts \in Nat /\ regime' = regime /\ starts < regime.starts
    BY <1>5, Bounds DEF IInv
  <2>3. starts' = starts + 1 /\ timers_' = timers_ \cup {starts + 1}
    BY <1>3, <1>5
  <2>4. starts' \in 0 .. regime.starts /\ timers_' \subseteq 1 .. starts'
    <3>1. starts + 1 \in 0 .. regime.starts
      BY <1>7, <2>1
    <3>2. timers_ \cup {starts + 1} \subseteq 1 .. (starts + 1)
      <4>1. \A h \in 1 .. starts : h \in 1 .. (starts + 1)
        BY <1>7
      <4>2. starts + 1 \in 1 .. (starts + 1)
        BY <1>7
      <4> QED BY <4>1, <4>2, <1>7
    <3> QED BY <3>1, <3>2, <2>3
  <2>2. timer_handle_' \in [Timer -> TimerHandle \cup {None}]
    BY <1>5, <1>7
  <2> QED BY <1>5, <1>13, <2>1, <2>2, <2>4 DEF IInv, Types, TypeOK
<1>17. OnePlace'
  <2>1. \A h \in timers_ : h \in TimerHandle /\ h # x
    BY <1>7, <1>11
  <2>2. \A h \in timers_ : ObjectGone(h) => ObjectGone(h)'
    <3>1. \A u \in Timer, h \in timers_ : timer_handle_'[u] = h => timer_handle_[u] = h
      BY <1>5, <1>7, <2>1
    <3>2. objects \subseteq Timer
      BY DEF IInv, Types, TypeOK
    <3> QED BY <3>1, <3>2, <1>5, <1>14, <2>1 DEF ObjectGone
  <2>3. \A h \in timers_' : Has(waiting_', h) \/ Has(callbacks, h) \/ calling.handle = h \/ h \in lost \/ ObjectGone(h)'
    BY <2>2, <1>5, <1>13 DEF IInv, OnePlace
  <2>4. \A h \in TimerHandle : Has(waiting_', h) => h \in timers_' /\ ~Has(callbacks, h) /\ calling.handle # h
    BY <1>5, <1>11, <1>13 DEF IInv, OnePlace
  <2>5. \A n \in Int : n <= starts => n <= starts'
    BY <1>3, <1>5, <1>7
  <2>6. calling.handle <= starts' /\ \A h \in TimerHandle : Has(callbacks, h) => h <= starts'
    <3>1. calling.handle \in Int /\ TimerHandle \subseteq Int
      <4>1. calling.handle \in TimerHandle \cup {None}
        BY DEF IInv, Types, TypeOK
      <4> QED BY <4>1, <1>7 DEF None
    <3> QED BY <2>5, <3>1 DEF IInv, OnePlace
  <2> QED BY <1>5, <1>13, <2>3, <2>4, <2>6 DEF IInv, OnePlace
<1>18. HandlesOK'
  <2>1. \A u \in Timer : timer_handle_[u] # x
    BY <1>3, <1>7, <1>11 DEF IInv, HandlesOK
  <2>2. \A u \in Timer : timer_handle_'[u] = (IF u = t THEN x ELSE timer_handle_[u])
    BY <1>5, <1>7
  <2>3. \A u \in Timer : timer_handle_'[u] # None => timer_handle_'[u] \in timers_'
    BY <2>2, <1>5 DEF IInv, HandlesOK
  <2>4. \A u, v \in Timer : timer_handle_'[u] = timer_handle_'[v] /\ timer_handle_'[u] # None => u = v
    BY <2>1, <2>2 DEF IInv, HandlesOK
  <2>5. \A d \in Caller : removing[d] # None => removing[d] \notin timers_' /\ removing[d] <= starts'
    <3>1. \A d \in Caller : removing[d] \in TimerHandle \cup {None}
      BY DEF IInv, Types, TypeOK
    <3> QED BY <3>1, <1>3, <1>5, <1>7, <1>11 DEF IInv, HandlesOK
  <2>6. thread'.at # "enter"
    BY <1>5 DEF MutexFree
  <2> QED BY <1>5, <2>3, <2>4, <2>5, <2>6 DEF IInv, HandlesOK
<1>19. AddressesOK'
  <2>1. \A h \in TimerHandle : InUse(h)' <=> InUse(h) \/ h = x
    BY <1>5 DEF InUse
  <2>2. ~InUse(x)
    BY <1>11 DEF InUse, Has
  <2>3. \A h \in 1 .. starts' : h = x \/ h \in 1 .. starts
    BY <1>3, <1>5, <1>7
  <2>4. \A h \in 1 .. starts' : info'[h].address \in Address
    BY <2>3, <1>6, <1>7, <1>8, <1>11, <1>14, <1>15 DEF IInv, AddressesOK
  <2>5. ASSUME NEW g \in TimerHandle, NEW h \in TimerHandle, InUse(g)', InUse(h)', info'[g].address = info'[h].address
        PROVE  g = h
    <3>1. CASE g # x /\ h # x
      BY <3>1, <2>1, <2>5, <1>14 DEF IInv, AddressesOK
    <3>2. CASE g = x /\ h # x
      BY <3>2, <2>1, <2>5, <1>6, <1>8, <1>14, <1>15
    <3>3. CASE h = x /\ g # x
      BY <3>3, <2>1, <2>5, <1>6, <1>8, <1>14, <1>15
    <3> QED BY <3>1, <3>2, <3>3
  <2> QED BY <2>4, <2>5 DEF AddressesOK
<1>20. Entered'
  <2>1. \A h \in TimerHandle : (Has(callbacks, h) \/ calling.handle = h \/ \E d \in Caller : removing[d] = h) => h # x
    BY <1>3, <1>7, <1>11 DEF IInv, HandlesOK
  <2>2. \A h \in TimerHandle : h # x => (h \in timers_' <=> h \in timers_)
    BY <1>5
  <2>3. \A h \in TimerHandle : removing["callback"] = h => calling.handle \in TimerHandle /\ h # x /\ calling.handle # x
    BY <2>1, <1>11 DEF IInv, Entered, Types, TypeOK, Caller
  <2> QED BY <1>5, <1>14, <2>1, <2>2, <2>3 DEF IInv, Entered
<1>21. SleepsNoLonger'
  BY <1>13 DEF SleepsNoLonger, Expected
<1>22. Pace'
  <2>1. \A h \in TimerHandle : h > starts' => fired[h] = 0
    <3>1. \A h \in TimerHandle : h > starts' => h > starts
      BY <1>3, <1>5, <1>7
    <3> QED BY <3>1 DEF IInv, Pace
  <2>2. fired[x] = 0
    BY <1>11 DEF IInv, Pace
  <2>3. Paced(x)'
    <3>1. 0 * period = 0 /\ (0 + 1) * period = period /\ period <= now + period /\ 0 <= now
      BY <1>1, <1>7
    <3> QED BY <2>2, <3>1, <1>5, <1>8, <1>11, <1>15 DEF Paced
  <2>4. \A h \in 1 .. starts : Paced(h) => Paced(h)'
    <3>1. \A h \in 1 .. starts : h # x /\ h \in TimerHandle
      BY <1>3, <1>7
    <3> QED BY <3>1, <1>5, <1>13, <1>14 DEF Paced
  <2>5. \A h \in 1 .. starts' : h = x \/ h \in 1 .. starts
    BY <1>3, <1>5, <1>7
  <2> QED BY <1>5, <2>1, <2>3, <2>4, <2>5 DEF IInv, Pace
<1> QED BY <1>16, <1>17, <1>18, <1>19, <1>20, <1>21, <1>22 DEF IInv

\* A new period changes when a timer is expected, and nothing else that is claimed.
LEMMA SetPeriodInv ==
    ASSUME IInv, NEW c \in Caller, NEW t \in Timer, NEW period \in regime.periods, NEW reset \in BOOLEAN,
           SetPeriod(c, t, period, reset)
    PROVE  IInv'
<1>1. PICK x \in TimerHandle : x = timer_handle_[t] /\ x \in timers_ /\ x \in 1 .. starts
  <2>1. timer_handle_[t] \in TimerHandle \cup {None} /\ timer_handle_[t] # None
    BY DEF IInv, Types, TypeOK, SetPeriod
  <2>2. timer_handle_[t] \in timers_ /\ timers_ \subseteq 1 .. starts
    BY <2>1 DEF IInv, HandlesOK, Types, TypeOK
  <2> QED BY <2>1, <2>2
<1>2. /\ changes < regime.changes /\ changes' = changes + 1
      /\ Enlist([info EXCEPT ![x] = Rescheduled(@, period, reset)], waiting_)
      /\ UNCHANGED <<clock, timer_handle_, objects, starts, timers_, thread, queue, lost, fired>>
      /\ MutexFree
  BY <1>1 DEF SetPeriod
<1> USE DEF clock, queue
<1>3. info \in [TimerHandle -> TimerInfo] /\ waiting_ \in Seq(TimerHandle) /\ Once(waiting_) /\ now \in Nat /\ period \in Nat
      /\ timers_ \subseteq TimerHandle /\ 1 .. starts \subseteq TimerHandle
  BY Bounds DEF IInv, Types, TypeOK, OnePlace
<1>4. PICK i \in TimerInfo : i = Rescheduled(info[x], period, reset)
                             /\ i.address = info[x].address /\ i.tracked = info[x].tracked
  <2>1. PICK i \in TimerInfo : i = info[x]
    BY <1>3
  <2>2. PICK n \in Nat :
          n = CASE reset -> now + period
                [] ~reset /\ now - i.last_real < i.period /\ now - i.last_real > period -> now
                [] ~reset /\ now - i.last_real < i.period /\ now - i.last_real <= period -> i.last_real + period
                [] OTHER -> i.next_expected
    <3>1. now + period \in Nat /\ i.next_expected \in Nat /\ i.last_real \in Int
      BY <1>3 DEF TimerInfo
    <3>2. now - i.last_real <= period => i.last_real + period \in Nat
      BY <1>3, <3>1
    <3>3. CASE reset
      BY <3>1, <3>3
    <3>4. CASE ~reset
      BY <3>1, <3>2, <3>4, <1>3
    <3> QED BY <3>3, <3>4
  <2>3. Rescheduled(i, period, reset) = [i EXCEPT !.period = period, !.next_expected = n]
    BY <2>2 DEF Rescheduled
  <2>4. [i EXCEPT !.period = period, !.next_expected = n] \in TimerInfo
    BY <1>3 DEF TimerInfo
  <2>5. [i EXCEPT !.period = period, !.next_expected = n].address = i.address
        /\ [i EXCEPT !.period = period, !.next_expected = n].tracked = i.tracked
    BY DEF TimerInfo
  <2> QED BY <2>1, <2>3, <2>4, <2>5
<1>5. PICK known \in [TimerHandle -> TimerInfo] : known = [info EXCEPT ![x] = i]
  BY <1>3
<1>6. /\ waiting_' \in Seq(TimerHandle) /\ Once(waiting_')
      /\ \A h : Has(waiting_', h) <=> Has(waiting_, h)
      /\ info' = known /\ new_timer_' = TRUE /\ jumped' = FALSE
      /\ \A k, j \in DOMAIN waiting_' : k < j => info'[waiting_'[k]].next_expected <= info'[waiting_'[j]].next_expected
  <2>1. Enlist(known, waiting_)
    BY <1>2, <1>3, <1>4, <1>5
  <2> QED BY <2>1, <1>3, Enlisted
<1>7. \A h \in TimerHandle : info'[h].address = info[h].address /\ info'[h].tracked = info[h].tracked
  BY <1>3, <1>4, <1>5, <1>6
<1>8. changes' # 0 /\ changes' \in 0 .. regime.changes
  <2>1. Types
    BY DEF IInv
  <2>2. changes \in Nat /\ regime.changes \in Nat /\ regime' = regime
    BY <1>2, <2>1, Bounds DEF Types, TypeOK
  <2> QED BY <1>2, <2>2
<1>9. Types'
  BY <1>2, <1>6, <1>8 DEF IInv, Types, TypeOK
<1>10. OnePlace'
  <2>1. \A h \in timers_ : ObjectGone(h) => ObjectGone(h)'
    BY <1>2, <1>3, <1>7 DEF ObjectGone
  <2> QED BY <1>2, <1>6, <2>1 DEF IInv, OnePlace
<1>11. HandlesOK'
  BY <1>2 DEF IInv, HandlesOK
<1>12. AddressesOK'
  BY <1>2, <1>3, <1>7 DEF IInv, AddressesOK, InUse
<1>13. Entered'
  <2>1. \A h \in TimerHandle : removing["callback"] = h => calling.handle \in TimerHandle
    BY DEF IInv, Entered, Types, TypeOK
  <2> QED BY <1>2, <1>7, <2>1 DEF IInv, Entered
<1>14. SleepsNoLonger'
  BY <1>6 DEF SleepsNoLonger, Expected
<1>15. Pace'
  BY <1>2, <1>8 DEF IInv, Pace
<1> QED BY <1>9, <1>10, <1>11, <1>12, <1>13, <1>14, <1>15 DEF IInv

-----------------------------------------------------------------------------
(* A callback returns: the timer waits again, unless it has been stopped.       *)

\* updateNext() moves the next expected time by a period or to the current time, and
\* leaves what the timer is.
LEMMA NextUpdated ==
    ASSUME NEW i \in TimerInfo, now \in Nat, Never \in Nat
    PROVE  /\ UpdateNext(i) \in TimerInfo
           /\ UpdateNext(i).address = i.address /\ UpdateNext(i).tracked = i.tracked
           /\ UpdateNext(i).period = i.period /\ UpdateNext(i).oneshot = i.oneshot
           /\ i.oneshot => UpdateNext(i).next_expected = Never
           /\ ~i.oneshot /\ i.next_expected <= now => UpdateNext(i).next_expected >= i.next_expected + i.period
<1>1. CASE i.oneshot
  <2>1. UpdateNext(i) = [i EXCEPT !.next_expected = Never]
    BY <1>1 DEF UpdateNext
  <2> QED BY <1>1, <2>1 DEF TimerInfo
<1>2. CASE ~i.oneshot
  <2>1. PICK last \in Nat : last = IF i.next_expected <= now THEN i.next_expected ELSE i.last_expected
    BY DEF TimerInfo
  <2>2. PICK next \in Nat : next = IF i.next_expected <= now THEN i.next_expected + i.period ELSE i.next_expected
    BY DEF TimerInfo
  <2>3. PICK e \in Nat : e = IF next + i.period < now THEN now ELSE next
    BY <2>2
  <2>4. UpdateNext(i) = [i EXCEPT !.last_expected = last, !.next_expected = e]
    BY <1>2, <2>1, <2>2, <2>3 DEF UpdateNext
  <2>5. i.period \in Nat /\ i.next_expected \in Nat
    BY DEF TimerInfo
  <2>6. i.next_expected <= now => e >= i.next_expected + i.period
    BY <2>2, <2>3, <2>5
  <2>7. UpdateNext(i) \in TimerInfo
    BY <2>4 DEF TimerInfo
  <2>8. UpdateNext(i).address = i.address /\ UpdateNext(i).tracked = i.tracked
        /\ UpdateNext(i).period = i.period /\ UpdateNext(i).oneshot = i.oneshot
        /\ UpdateNext(i).next_expected = e
    BY <2>4 DEF TimerInfo
  <2> QED BY <1>2, <2>6, <2>7, <2>8
<1> QED BY <1>1, <1>2

\* A callback that returns leaves its timer waiting for a later time, or to nobody.
LEMMA ReturnInv ==
    ASSUME IInv, Return
    PROVE  IInv'
<1> USE DEF clock, handles
<1>1. PICK x \in TimerHandle : x = calling.handle /\ x # None /\ x \in Nat
  <2>1. calling.handle \in TimerHandle \cup {None} /\ calling.handle # None
    BY DEF IInv, Types, TypeOK, Return
  <2>2. TimerHandle \subseteq Nat
    BY Bounds DEF IInv
  <2> QED BY <2>1, <2>2
<1>2. /\ MutexFree /\ removing["callback"] = None /\ calling' = Nothing /\ calling'.handle = None
      /\ UNCHANGED <<clock, handles, timers_, thread, callbacks, id_info, removing, lost, fired>>
  BY DEF Return, Nothing
<1>3. CASE x \in timers_
  <2>1. info \in [TimerHandle -> TimerInfo] /\ waiting_ \in Seq(TimerHandle) /\ Once(waiting_) /\ now \in Nat /\ Never \in Nat
        /\ calling.real \in Int /\ timers_ \subseteq TimerHandle /\ 1 .. starts \subseteq TimerHandle
        /\ TimerHandle \subseteq Nat /\ None \notin TimerHandle
    <3>1. Types /\ OnePlace
      BY DEF IInv
    <3>2. now \in Nat /\ Never \in Nat /\ 1 .. starts \subseteq TimerHandle /\ TimerHandle \subseteq Nat /\ None \notin TimerHandle
      BY <3>1, Bounds
    <3>3. calling.real \in Int
      BY <3>1 DEF Types, TypeOK, Instant
    <3>4. info \in [TimerHandle -> TimerInfo] /\ waiting_ \in Seq(TimerHandle) /\ timers_ \subseteq 1 .. starts
      BY <3>1 DEF Types, TypeOK
    <3> QED BY <3>1, <3>2, <3>3, <3>4 DEF OnePlace
  <2>2. PICK j \in TimerInfo : j = [info[x] EXCEPT !.last_real = calling.real]
          /\ j.address = info[x].address /\ j.tracked = info[x].tracked /\ j.period = info[x].period
          /\ j.oneshot = info[x].oneshot /\ j.next_expected = info[x].next_expected
    <3>1. PICK k \in TimerInfo : k = info[x]
      BY <2>1
    <3>2. [k EXCEPT !.last_real = calling.real] \in TimerInfo
      BY <2>1 DEF TimerInfo
    <3>3. /\ [k EXCEPT !.last_real = calling.real].address = k.address
          /\ [k EXCEPT !.last_real = calling.real].tracked = k.tracked
          /\ [k EXCEPT !.last_real = calling.real].period = k.period
          /\ [k EXCEPT !.last_real = calling.real].oneshot = k.oneshot
          /\ [k EXCEPT !.last_real = calling.real].next_expected = k.next_expected
      BY DEF TimerInfo
    <3> QED BY <3>1, <3>2, <3>3
  <2>3. PICK i \in TimerInfo :
          /\ i = UpdateNext(j)
          /\ i.address = info[x].address /\ i.tracked = info[x].tracked /\ i.period = info[x].period
          /\ i.oneshot = info[x].oneshot
          /\ i.oneshot => i.next_expected = Never
          /\ ~i.oneshot /\ info[x].next_expected <= now => i.next_expected >= info[x].next_expected + info[x].period
    <3>1. /\ UpdateNext(j) \in TimerInfo
          /\ UpdateNext(j).address = j.address /\ UpdateNext(j).tracked = j.tracked
          /\ UpdateNext(j).period = j.period /\ UpdateNext(j).oneshot = j.oneshot
          /\ j.oneshot => UpdateNext(j).next_expected = Never
          /\ ~j.oneshot /\ j.next_expected <= now => UpdateNext(j).next_expected >= j.next_expected + j.period
      BY <2>1, NextUpdated
    <3>2. PICK i \in TimerInfo : i = UpdateNext(j)
      BY <3>1
    <3> HIDE DEF UpdateNext
    <3> QED BY <3>1, <3>2, <2>2
  <2>4. PICK known \in [TimerHandle -> TimerInfo] : known = [info EXCEPT ![x] = i]
    BY <2>1
  <2>5. Enlist(known, Append(waiting_, x))
    BY <1>1, <1>3, <2>2, <2>3, <2>4 DEF Return
  <2>6. ~Has(waiting_, x) /\ ~Has(callbacks, x)
    BY <1>1 DEF IInv, OnePlace
  <2>7. /\ Append(waiting_, x) \in Seq(TimerHandle) /\ Once(Append(waiting_, x))
        /\ \A h : Has(Append(waiting_, x), h) <=> Has(waiting_, h) \/ h = x
    BY <2>1, <2>6, Added
  <2>8. /\ waiting_' \in Seq(TimerHandle) /\ Once(waiting_')
        /\ \A h : Has(waiting_', h) <=> Has(waiting_, h) \/ h = x
        /\ info' = known /\ new_timer_' = TRUE /\ jumped' = FALSE
        /\ \A k, m \in DOMAIN waiting_' : k < m => info'[waiting_'[k]].next_expected <= info'[waiting_'[m]].next_expected
    BY <2>5, <2>7, Enlisted
  <2>9. info'[x] = i /\ \A h \in TimerHandle : h # x => info'[h] = info[h]
    BY <2>1, <2>4, <2>8
  <2>10. \A h \in TimerHandle : info'[h].address = info[h].address /\ info'[h].tracked = info[h].tracked
    BY <2>3, <2>9
  <2>11. Types'
    <3>1. calling' \in [handle : TimerHandle \cup {None}, real : Instant]
      BY <1>2, TimerManagerAssumption DEF Nothing, Instant
    <3> QED BY <1>2, <2>8, <3>1 DEF IInv, Types, TypeOK
  <2>12. OnePlace'
    <3>1. \A h \in timers_ : h \in TimerHandle /\ (ObjectGone(h) => ObjectGone(h)')
      BY <1>2, <2>1, <2>10 DEF ObjectGone
    <3>2. \A h \in timers_ : Has(waiting_', h) \/ Has(callbacks, h) \/ h \in lost \/ ObjectGone(h)'
      BY <1>1, <2>8, <3>1 DEF IInv, OnePlace
    <3>3. \A h \in TimerHandle : Has(waiting_', h) => h \in timers_ /\ ~Has(callbacks, h) /\ h # None
      BY <1>3, <2>1, <2>6, <2>8 DEF IInv, OnePlace
    <3>4. \A h \in TimerHandle : h # None
      BY <2>1
    <3>5. None <= starts
      BY Bounds DEF IInv, None
    <3> QED BY <1>2, <2>8, <3>2, <3>3, <3>4, <3>5 DEF IInv, OnePlace
  <2>13. HandlesOK'
    BY <1>2 DEF IInv, HandlesOK
  <2>14. AddressesOK'
    <3>1. \A h \in TimerHandle : InUse(h)' => InUse(h)
      BY <1>2, <2>1 DEF InUse
    <3>2. \A h \in 1 .. starts : info'[h].address \in Address
      BY <2>1, <2>10 DEF IInv, AddressesOK
    <3> QED BY <1>2, <2>10, <3>1, <3>2 DEF IInv, AddressesOK
  <2>15. Entered'
    BY <1>2, <2>1, <2>10 DEF IInv, Entered
  <2>16. SleepsNoLonger'
    BY <2>8 DEF SleepsNoLonger, Expected
  <2>17. ASSUME setbacks = 0, changes = 0, NEW h \in 1 .. starts PROVE Paced(h)'
    <3>1. Paced(h)
      BY <2>17 DEF IInv, Pace
    <3>2. CASE h # x
      <4>1. h \in TimerHandle /\ info'[h] = info[h] /\ (Has(waiting_', h) <=> Has(waiting_, h)) /\ calling'.handle # h
        BY <3>2, <1>2, <2>1, <2>8, <2>9
      <4> QED BY <3>1, <4>1, <1>2 DEF Paced
    <3>3. CASE h = x
      <4>1. PICK f \in Nat, p \in Nat, e \in Nat : f = fired[x] /\ p = info[x].period /\ e = info[x].next_expected
        BY <2>1 DEF IInv, Types, TypeOK, TimerInfo
      <4>2. f * p <= now /\ f * p <= e /\ e <= now /\ (i.oneshot => f <= 1)
        BY <3>1, <3>3, <4>1, <1>1, <2>3 DEF Paced
      <4>3. (f + 1) * p = f * p + p /\ f * p \in Nat
        BY <4>1
      <4>4. ~i.oneshot => (f + 1) * p <= i.next_expected
        <5>1. ~i.oneshot => i.next_expected >= e + p
          BY <2>3, <4>1, <4>2
        <5>2. i.next_expected \in Nat
          BY DEF TimerInfo
        <5>3. PICK q \in Nat : q = f * p
          BY <4>3
        <5> QED BY <5>1, <5>2, <5>3, <4>1, <4>2, <4>3
      <4>5. i.oneshot \in BOOLEAN /\ calling'.handle # x /\ ~Has(callbacks', x)
        BY <1>1, <1>2, <2>6 DEF TimerInfo
      <4>6. fired'[x] = f /\ info'[x].period = p /\ info'[x].oneshot = i.oneshot /\ info'[x].next_expected = i.next_expected
        BY <1>2, <2>3, <2>9, <4>1
      <4>7. Paced(x)'
        BY <1>2, <2>3, <4>2, <4>4, <4>5, <4>6 DEF Paced
      <4> QED BY <3>3, <4>7
    <3> QED BY <3>2, <3>3
  <2>18. Pace'
    BY <1>2, <2>17 DEF IInv, Pace
  <2> QED BY <2>11, <2>12, <2>13, <2>14, <2>15, <2>16, <2>18 DEF IInv
<1>4. CASE x \notin timers_
  <2>1. UNCHANGED <<info, waiting_, new_timer_, jumped>>
    BY <1>1, <1>4 DEF Return
  <2>2. None \notin TimerHandle
    BY Bounds DEF IInv
  <2>3. Types'
    <3>1. calling' \in [handle : TimerHandle \cup {None}, real : Instant]
      BY <1>2, TimerManagerAssumption DEF Nothing, Instant
    <3> QED BY <1>2, <2>1, <3>1 DEF IInv, Types, TypeOK
  <2>4. OnePlace'
    <3>1. \A h \in timers_ : ObjectGone(h) => ObjectGone(h)'
      BY <1>2, <2>1 DEF ObjectGone
    <3>2. \A h \in timers_ : Has(waiting_, h) \/ Has(callbacks, h) \/ h \in lost \/ ObjectGone(h)'
      BY <1>1, <1>4, <3>1 DEF IInv, OnePlace
    <3>3. None <= starts
      BY Bounds DEF IInv, None
    <3>4. \A h \in TimerHandle : h # None
      BY <2>2
    <3> QED BY <1>2, <2>1, <3>2, <3>3, <3>4 DEF IInv, OnePlace
  <2>5. HandlesOK'
    BY <1>2 DEF IInv, HandlesOK
  <2>6. AddressesOK'
    <3>1. \A h \in TimerHandle : InUse(h)' => InUse(h)
      BY <1>2, <2>2 DEF InUse
    <3> QED BY <1>2, <2>1, <3>1 DEF IInv, AddressesOK
  <2>7. Entered'
    BY <1>2, <2>1, <2>2 DEF IInv, Entered
  <2>8. SleepsNoLonger'
    BY <1>2, <2>1 DEF IInv, SleepsNoLonger, Expected
  <2>9. Pace'
    <3>1. \A h \in 1 .. starts : Paced(h) => Paced(h)'
      <4>1. \A h \in 1 .. starts : calling'.handle # h
        BY <1>2 DEF None
      <4> QED BY <4>1, <1>2, <2>1 DEF Paced
    <3> QED BY <3>1, <1>2 DEF IInv, Pace
  <2> QED BY <2>3, <2>4, <2>5, <2>6, <2>7, <2>8, <2>9 DEF IInv
<1> QED BY <1>3, <1>4

-----------------------------------------------------------------------------
(* The invariant, and what it says.                                             *)

\* Every step keeps the invariant.
LEMMA NextInv == IInv /\ [Next]_vars => IInv'
<1> SUFFICES ASSUME IInv, [Next]_vars PROVE IInv'
  OBVIOUS
<1>1. CASE Tick
  BY <1>1, TickInv
<1>2. CASE SetBack
  BY <1>2, SetBackInv
<1>3. CASE \E t \in Timer : ObjectDies(t)
  BY <1>3, ObjectDiesInv
<1>4. ASSUME NEW c \in Caller, Operation(c) PROVE IInv'
  <2>1. CASE \E s \in regime.settings : Start(c, s.timer, s.period, s.oneshot)
    BY <2>1, StartInv
  <2>2. CASE \E t \in Timer : Stop(c, t)
    BY <2>2, StopInv
  <2>3. CASE \E t \in Timer, period \in regime.periods, reset \in BOOLEAN : SetPeriod(c, t, period, reset)
    BY <2>3, SetPeriodInv
  <2> QED BY <1>4, <2>1, <2>2, <2>3 DEF Operation
<1>5. ASSUME NEW c \in Caller, RemoveByID(c) PROVE IInv'
  BY <1>5, RemoveByIDInv
<1>6. CASE ManagerThread
  BY <1>6, BeginRoundInv, QueueDueInv, EnterIDInv, SleepInv DEF ManagerThread
<1>7. CASE Spinner
  BY <1>7, CallInv, ReturnInv DEF Spinner
<1>8. CASE UNCHANGED vars
  <2> USE <1>8 DEF vars, clock, handles, manager, queue, history
  <2>1. Types'
    BY DEF IInv, Types, TypeOK
  <2>2. OnePlace' /\ HandlesOK'
    BY DEF IInv, OnePlace, ObjectGone, HandlesOK
  <2>3. AddressesOK' /\ Entered'
    BY DEF IInv, AddressesOK, InUse, Entered
  <2>4. SleepsNoLonger' /\ Pace'
    BY DEF IInv, SleepsNoLonger, Expected, Pace, Paced
  <2> QED BY <2>1, <2>2, <2>3, <2>4 DEF IInv
<1> QED BY <1>1, <1>2, <1>3, <1>4, <1>5, <1>6, <1>7, <1>8 DEF Next

\* The inductive invariant holds in every reachable state.
LEMMA TimerInvariant == Spec => []IInv
BY InitInv, NextInv, PTL DEF Spec

\* In a list in which nothing is twice, a timer has one position or none.
LEMMA Positions ==
    ASSUME NEW T, NEW s \in Seq(T), Once(s), NEW h
    PROVE  Cardinality({i \in DOMAIN s : s[i] = h}) = IF Has(s, h) THEN 1 ELSE 0
<1>1. CASE Has(s, h)
  <2>1. PICK i \in DOMAIN s : s[i] = h
    BY <1>1 DEF Has
  <2>2. {k \in DOMAIN s : s[k] = h} = {i}
    BY <2>1 DEF Once
  <2> QED BY <1>1, <2>2, FS_Singleton
<1>2. CASE ~Has(s, h)
  <2>1. {k \in DOMAIN s : s[k] = h} = {}
    BY <1>2 DEF Has
  <2> QED BY <1>2, <2>1, FS_EmptySet
<1> QED BY <1>1, <1>2

\* The invariant puts every timer in one place.
LEMMA InOnePlace == IInv => TimerInOnePlace
<1> SUFFICES ASSUME IInv PROVE TimerInOnePlace
  OBVIOUS
<1>1. waiting_ \in Seq(TimerHandle) /\ callbacks \in Seq(TimerHandle) /\ timers_ \subseteq TimerHandle
  BY Bounds DEF IInv, Types, TypeOK
<1>2. ASSUME NEW h \in timers_
      PROVE  Places(h) = 1 \/ (Places(h) = 0 /\ (h \in lost \/ ObjectGone(h)))
  <2>1. Places(h) = (IF Has(waiting_, h) THEN 1 ELSE 0) + (IF Has(callbacks, h) THEN 1 ELSE 0)
                      + (IF calling.handle = h THEN 1 ELSE 0)
    BY <1>1, Positions DEF Places, IInv, OnePlace
  <2>2. /\ Has(waiting_, h) => ~Has(callbacks, h) /\ calling.handle # h
        /\ Has(callbacks, h) => calling.handle # h
        /\ Has(waiting_, h) \/ Has(callbacks, h) \/ calling.handle = h \/ h \in lost \/ ObjectGone(h)
    BY <1>1 DEF IInv, OnePlace
  <2> QED BY <2>1, <2>2
<1>3. ToSet(waiting_) \subseteq timers_
  <2>1. \A i \in DOMAIN waiting_ : waiting_[i] \in TimerHandle /\ Has(waiting_, waiting_[i])
    BY <1>1 DEF Has
  <2> QED BY <2>1 DEF ToSet, IInv, OnePlace
<1> QED BY <1>2, <1>3 DEF TimerInOnePlace, IInv, Types

\* The invariant bounds how often a timer has been called.
LEMMA AsOftenAsDue == IInv => NoMoreThanDue
BY DEF IInv, Pace, Paced, NoMoreThanDue

\* What the user's remove() leaves behind it.
LEMMA NothingAfterStop ==
    ASSUME IInv, Next, NEW h \in TimerHandle, removing["user"] = h, removing'["user"] = None
    PROVE  calling'.handle # h /\ h \notin ToSet(callbacks')
<1>1. h # None /\ "user" \in Caller /\ "callback" \in Caller /\ removing \in [Caller -> TimerHandle \cup {None}]
  BY Bounds DEF IInv, Types, TypeOK, Caller
<1>2. removing' # removing
  BY <1>1
<1>3. RemoveByID("user")
  <2>1. ~Tick /\ ~SetBack /\ ~(\E t \in Timer : ObjectDies(t)) /\ ~ManagerThread /\ ~Spinner
    BY <1>2 DEF Tick, SetBack, ObjectDies, ManagerThread, BeginRound, QueueDue, EnterID, Sleep, Spinner, Call, Return, queue
  <2>2. ASSUME NEW c \in Caller, Operation(c) PROVE FALSE
    <3>1. CASE \E s \in regime.settings : Start(c, s.timer, s.period, s.oneshot)
      BY <3>1, <1>2 DEF Start, queue
    <3>2. CASE \E t \in Timer, period \in regime.periods, reset \in BOOLEAN : SetPeriod(c, t, period, reset)
      BY <3>2, <1>2 DEF SetPeriod, queue
    <3>3. CASE \E t \in Timer : Stop(c, t)
      <4>1. c # "user"
        BY <3>3, <1>1 DEF Stop, MayCall
      <4>2. removing'["user"] = removing["user"]
        BY <3>3, <4>1, <1>1 DEF Stop
      <4> QED BY <4>2, <1>1
    <3> QED BY <2>2, <3>1, <3>2, <3>3 DEF Operation
  <2>3. PICK c \in Caller : RemoveByID(c)
    BY <2>1, <2>2 DEF Next
  <2>4. c = "user"
    <3>1. removing' = [removing EXCEPT ![c] = None]
      BY <2>3 DEF RemoveByID
    <3> QED BY <3>1, <1>1
  <2> QED BY <2>3, <2>4
<1>4. /\ calling.handle # None /\ info[h].address \in id_info => info[calling.handle].address # info[h].address
      /\ Has(callbacks', h) => Has(callbacks, h) /\ info[h].address \notin id_info
      /\ calling' = calling
  <2>1. calling' = calling
    BY <1>3 DEF RemoveByID
  <2> QED BY <2>1, <1>1, <1>3, RemovedFrom
<1>5. calling.handle # h
  BY <1>1, <1>4 DEF IInv, Entered
<1>6. ~Has(callbacks', h)
  <2>1. h \notin timers_
    BY <1>1 DEF IInv, HandlesOK
  <2> QED BY <1>4, <2>1 DEF IInv, Entered, HandlesOK
<1> QED BY <1>4, <1>5, <1>6 DEF Has, ToSet

\* Whatever is started, stopped and changed, by the user and by callbacks, and however
\* the clock is set: a timer that has been started and not stopped waits, is queued or is
\* called, one of these and once, unless its callback was dropped or its object has
\* died; and the thread does not sleep through the time of one that waits.
THEOREM TimersAreInOnePlace == Spec => []TimerInOnePlace
BY TimerInvariant, InOnePlace, PTL

\* While the clock only goes forward and no period is changed, a timer has been called
\* at most as often as its period fits in the time, and a oneshot timer at most once.
THEOREM NeverMoreThanDue == Spec => []NoMoreThanDue
BY TimerInvariant, AsOftenAsDue, PTL

\* When stop() returns to the user the timer's callback is neither queued nor called,
\* though memory is used again and callbacks stop timers at the same time.
THEOREM StoppedTimersAreNotCalled == Spec => StopIsFinal
<1>1. IInv /\ [Next]_vars
        => [\A h \in TimerHandle :
               removing["user"] = h /\ removing'["user"] = None
                  => calling'.handle # h /\ h \notin ToSet(callbacks')]_vars
  BY NothingAfterStop
<1> QED BY <1>1, TimerInvariant, PTL DEF Spec, StopIsFinal
=============================================================================
