----------------------------- MODULE NodeProofs -----------------------------
(* Theorems about Node, for any tree of names, any number of threads and any    *)
(* order of their calls.                                                        *)
(*                                                                              *)
(* That the cache of parameters follows the server: g_params_mutex is held by   *)
(* the one thread that is in set() or subscribes (MutexHeld), so that all the   *)
(* others find every parameter of g_subscribed_params known to the server       *)
(* (SubscribedOK), which therefore tells of it.  A cached value, a fetched one  *)
(* nobody has overtaken, and one that set() is about to cache, is the server's  *)
(* or news of the difference is on its way (CacheOK, FetchOK, SetOK); and the   *)
(* last news of a parameter tells the value there is (NewsOK).                  *)
(*                                                                              *)
(* That the node runs while it is wanted and leaves nothing running: whoever    *)
(* starts, shuts down or counts a handle holds the mutex of that (NodeMutexes), *)
(* so that what start() and shutdown() have done so far can be told from where  *)
(* the one thread in them is (StartOK, ShutOK), a start() and a shutdown() of   *)
(* the same life only meet at known places (Lives), and while nobody asks for   *)
(* it only who has given up the last handle shuts down (Counted, Unasked).      *)
EXTENDS Node, SequenceTheorems, FiniteSetTheorems, TLAPS

\* A thread that is in the subscription, has fetched, or fetches k or has.
Subscribing(t) == At(t, "getCached", "subscribe")
Fetched(t) == At(t, "getCached", "fetched")
Fetches(t, k) == call[t].op = "getCached" /\ call[t].at \in {"fetch", "fetched"} /\ call[t].key = k

\* The update tells of k, or of something below k.
About(k, update) == update.key = k \/ k \in ParentsOf(update.key)

\* A value of k is the server's, or news of the difference is on its way.
Current(k, value) == value = ValueOf(k) \/ NewsFor(k)

-----------------------------------------------------------------------------
(* The inductive invariant of the cache.                                        *)
SetCall ==
    {c \in [op : {"set"}, key : Key, value : UNION {Reading(k) : k \in Key}, at : {"ask", "told"}] :
        c.value \in Reading(c.key)}
FetchedCall ==
    {c \in [op : {"getCached"}, key : Key, value : UNION {Reading(k) : k \in Key}, at : {"fetched"}] :
        c.value \in Reading(c.key)}
ParamCalls ==
    {Idle} \union SetCall \union FetchedCall \union [op : {"getCached"}, key : Key, at : {"subscribe", "fetch"}]
      \union [op : {"del"}, key : Key, at : {"ask"}]

Types ==
    /\ server \in [Leaf -> Value \union {NoValue}]
    /\ subscribers \subseteq Key /\ g_subscribed_params \subseteq Key
    /\ updates \in Seq(Message)
    /\ Cached \subseteq Key /\ \A k \in Cached : g_params[k] \in Reading(k)
    /\ mutex \in Thread \union {Nobody}
    /\ call \in [Thread -> ParamCalls]
    /\ overtaken \subseteq Thread /\ missed \subseteq Key

MutexHeld == \A t \in Thread : call[t].op = "set" \/ Subscribing(t) => mutex = t

\* Who subscribes holds the mutex, and what was left of the parameter is not relied on.
SubscribedOK ==
    /\ \A k \in g_subscribed_params :
          k \in subscribers \/ \E t \in Thread : Subscribing(t) /\ call[t].key = k
    /\ \A t \in Thread : Subscribing(t) =>
          /\ call[t].key \in g_subscribed_params
          /\ call[t].key \in Cached => call[t].key \in missed
          /\ \A u \in Thread \ overtaken : ~Fetches(u, call[t].key)

CacheOK ==
    \A k \in Cached \ missed : k \in g_subscribed_params /\ k \in subscribers /\ Current(k, g_params[k])

\* What was fetched or set may be cached, unless it was overtaken.
FetchOK ==
    \A t \in Thread \ overtaken :
        /\ \A k \in Key : Fetches(t, k) => k \in g_subscribed_params /\ k \in subscribers
        /\ Fetched(t) => Current(call[t].key, call[t].value)
SetOK ==
    \A t \in Thread \ overtaken :
        At(t, "set", "told") /\ call[t].key \in g_subscribed_params => Current(call[t].key, call[t].value)

\* An update the node knows of tells the value there is, or there is a later one.
NewsOK ==
    \A i \in DOMAIN updates :
        /\ updates[i].known \subseteq subscribers
        /\ updates[i].value \in Reading(updates[i].key)
        /\ updates[i].key \in updates[i].known =>
              \/ updates[i].value = ValueOf(updates[i].key)
              \/ \E j \in DOMAIN updates : j > i /\ About(updates[i].key, updates[j])

CInv == Types /\ MutexHeld /\ SubscribedOK /\ CacheOK /\ FetchOK /\ SetOK /\ NewsOK

-----------------------------------------------------------------------------
(* The keys, and the calls.                                                     *)

\* Of two keys with a leaf in common one is the other, above it or below it.
LEMMA Tree ==
    ASSUME NEW k \in Key, NEW n \in Key, LeavesOf(k) \cap LeavesOf(n) # {}
    PROVE  n = k \/ n \in ParentsOf(k) \/ n \in ChildrenOf(k)
<1>1. LeavesOf(k) \subseteq LeavesOf(n) \/ LeavesOf(n) \subseteq LeavesOf(k)
  BY KeysAssumption DEF LeavesOf, Key
<1>2. \A m, l \in Key : LeavesOf(m) \subseteq LeavesOf(l) /\ LeavesOf(m) # {} =>
        m = l \/ l \in ParentsOf(m) \/ l \in Leaf
  BY DEF ParentsOf, LeavesOf, Key
<1>3. CASE n \in Leaf
  <2>1. n \in LeavesOf(k)
    BY <1>3 DEF LeavesOf
  <2> QED BY <1>3, <2>1, KeysAssumption DEF ParentsOf, ChildrenOf, LeavesOf, Key
<1>4. CASE k \in Leaf
  <2>1. k \in LeavesOf(n)
    BY <1>4 DEF LeavesOf
  <2> QED BY <1>4, <2>1, KeysAssumption DEF ParentsOf, ChildrenOf, LeavesOf, Key
<1>5. CASE n \notin Leaf /\ k \notin Leaf
  BY <1>1, <1>5, KeysAssumption DEF ParentsOf, ChildrenOf, LeavesOf, Key
<1> QED BY <1>3, <1>4, <1>5

LEMMA KeySets ==
    /\ IsFiniteSet(Key)
    /\ \A k \in Key : /\ LeavesOf(k) \subseteq Leaf /\ ParentsOf(k) \subseteq Key /\ k \notin ParentsOf(k)
                      /\ ChildrenOf(k) \subseteq Key
                      /\ \A c \in ChildrenOf(k) : c \in Key /\ LeavesOf(c) \subseteq LeavesOf(k)
                      /\ None(k) \in Reading(k) /\ ValuesOf(k) \subseteq Reading(k)
<1>1. IsFiniteSet(Key)
  BY KeysAssumption, FS_Union DEF Key
<1>2. ASSUME NEW k \in Key
      PROVE  /\ LeavesOf(k) \subseteq Leaf /\ ParentsOf(k) \subseteq Key /\ k \notin ParentsOf(k)
             /\ ChildrenOf(k) \subseteq Key
  BY KeysAssumption DEF LeavesOf, ParentsOf, ChildrenOf, Key
<1>3. ASSUME NEW k \in Key, NEW c \in ChildrenOf(k) PROVE c \in Key /\ LeavesOf(c) \subseteq LeavesOf(k)
  BY KeysAssumption DEF LeavesOf, ParentsOf, ChildrenOf, Key
<1>4. ASSUME NEW k \in Key PROVE None(k) \in Reading(k) /\ ValuesOf(k) \subseteq Reading(k)
  BY DEF None, ValuesOf, Reading
<1> QED BY <1>1, <1>2, <1>3, <1>4

LEMMA Forms ==
    ASSUME NEW c \in ParamCalls
    PROVE  /\ c.op = "set" => c \in SetCall /\ c.key \in Key /\ c.value \in Reading(c.key) /\ c.at \in {"ask", "told"}
           /\ c.op = "getCached" /\ c.at = "fetched" => c.key \in Key /\ c.value \in Reading(c.key)
           /\ c.op = "getCached" => c.key \in Key /\ c.at \in {"subscribe", "fetch", "fetched"}
           /\ c.op = "del" => c.key \in Key
           /\ c.op \in {"none", "set", "getCached", "del"}
<1>1. CASE c = Idle
  BY <1>1 DEF Idle
<1>2. CASE c \in SetCall
  BY <1>2 DEF SetCall
<1>3. CASE c \in FetchedCall
  BY <1>3 DEF FetchedCall
<1>4. CASE c \in [op : {"getCached"}, key : Key, at : {"subscribe", "fetch"}]
  BY <1>4
<1>5. CASE c \in [op : {"del"}, key : Key, at : {"ask"}]
  BY <1>5
<1> QED BY <1>1, <1>2, <1>3, <1>4, <1>5 DEF ParamCalls

\* A call that goes on.
LEMMA Going ==
    ASSUME NEW c \in ParamCalls
    PROVE  /\ c.op = "set" => LET d == [c EXCEPT !.at = "told"] IN
                 d \in ParamCalls /\ d.op = "set" /\ d.key = c.key /\ d.value = c.value /\ d.at = "told"
           /\ c.op = "getCached" /\ c.at = "subscribe" => LET d == [c EXCEPT !.at = "fetch"] IN
                 d \in ParamCalls /\ d.op = "getCached" /\ d.key = c.key /\ d.at = "fetch"
<1>1. CASE c = Idle
  BY <1>1 DEF Idle
<1>2. CASE c \in SetCall
  <2>1. [c EXCEPT !.at = "told"] \in SetCall
    BY <1>2 DEF SetCall
  <2>2. c.op = "set" /\ [c EXCEPT !.at = "told"].op = "set" /\ [c EXCEPT !.at = "told"].key = c.key
        /\ [c EXCEPT !.at = "told"].value = c.value /\ [c EXCEPT !.at = "told"].at = "told"
    BY <1>2 DEF SetCall
  <2> QED BY <2>1, <2>2 DEF ParamCalls
<1>3. CASE c \in FetchedCall
  BY <1>3 DEF FetchedCall
<1>4. CASE c \in [op : {"getCached"}, key : Key, at : {"subscribe", "fetch"}]
  <2>1. [c EXCEPT !.at = "fetch"] \in [op : {"getCached"}, key : Key, at : {"subscribe", "fetch"}]
    BY <1>4
  <2>2. c.op = "getCached" /\ [c EXCEPT !.at = "fetch"].op = "getCached" /\ [c EXCEPT !.at = "fetch"].key = c.key
        /\ [c EXCEPT !.at = "fetch"].at = "fetch"
    BY <1>4
  <2> QED BY <2>1, <2>2 DEF ParamCalls
<1>5. CASE c \in [op : {"del"}, key : Key, at : {"ask"}]
  BY <1>5
<1> QED BY <1>1, <1>2, <1>3, <1>4, <1>5 DEF ParamCalls

-----------------------------------------------------------------------------
(* What the server tells.                                                       *)

\* A finite set can be written as a sequence.
LEMMA Listed ==
    ASSUME NEW S, IsFiniteSet(S)
    PROVE  /\ SetToSeq(S) \in Seq(S)
           /\ \A e \in S : \E i \in DOMAIN SetToSeq(S) : SetToSeq(S)[i] = e
<1>1. PICK n \in Nat : n = Cardinality(S)
  BY FS_CardinalityType
<1>2. IsFiniteSet(1 .. n) /\ Cardinality(1 .. n) = n
  BY FS_Interval
<1>3. \E f \in [1 .. n -> S] : IsInjective(f)
  <2>1. ExistsBijection(1 .. n, S)
    BY <1>1, <1>2, FS_SameCardinalityBij
  <2> QED BY <2>1 DEF ExistsBijection, Bijection, Injection, IsInjective
<1>4. PICK f \in [1 .. n -> S] : f = SetToSeq(S) /\ IsInjective(f)
  BY <1>1, <1>3 DEF SetToSeq
<1>5. f \in Surjection(1 .. n, S)
  <2>1. f \in Injection(1 .. n, S)
    BY <1>4 DEF Injection, IsInjective
  <2> QED BY <1>1, <1>2, <2>1, FS_Injection
<1>6. f \in Seq(S) /\ DOMAIN f = 1 .. n
  BY <1>4, IsASeq
<1> QED BY <1>4, <1>5, <1>6 DEF Surjection

\* What the server tells of a change: a message for each parameter in question.
LEMMA NewsTold ==
    ASSUME Types, NEW k \in Key, NEW value \in Reading(k)
    PROVE  /\ News(k, value) \in Seq(Message)
           /\ \A i \in DOMAIN News(k, value) :
                 LET m == News(k, value)[i] IN
                 /\ m.known = subscribers /\ m.key \in Key /\ LeavesOf(m.key) \subseteq LeavesOf(k)
                 /\ m.value = [l \in LeavesOf(m.key) |-> value[l]] /\ m.value \in Reading(m.key)
           /\ \A n \in subscribers : n \in {k} \union ParentsOf(k) \union ChildrenOf(k) =>
                 \E i \in DOMAIN News(k, value) : About(n, News(k, value)[i])
<1> DEFINE above == IF subscribers \cap ({k} \union ParentsOf(k)) # {}
                   THEN {[key |-> k, value |-> value, known |-> subscribers]} ELSE {}
           tell(c) == [key |-> c, value |-> [l \in LeavesOf(c) |-> value[l]], known |-> subscribers]
           below == {tell(c) : c \in ChildrenOf(k) \cap subscribers}
<1>1. subscribers \subseteq Key
  BY DEF Types
<1>2. /\ \A c \in ChildrenOf(k) : c \in Key /\ LeavesOf(c) \subseteq LeavesOf(k)
      /\ IsFiniteSet(Key) /\ ChildrenOf(k) \subseteq Key
  BY KeySets
<1>3. ASSUME NEW m \in above \union below
      PROVE  /\ m \in Message /\ m.known = subscribers /\ m.key \in Key /\ LeavesOf(m.key) \subseteq LeavesOf(k)
             /\ m.value = [l \in LeavesOf(m.key) |-> value[l]] /\ m.value \in Reading(m.key)
  <2>1. CASE m \in above
    <3>1. m = [key |-> k, value |-> value, known |-> subscribers]
      BY <2>1
    <3>2. value = [l \in LeavesOf(k) |-> value[l]]
      BY DEF Reading
    <3>3. m \in Message
      BY <3>1, <1>1 DEF Message
    <3> QED BY <3>1, <3>2, <3>3
  <2>2. CASE m \in below
    <3>1. PICK c \in ChildrenOf(k) \cap subscribers : m = tell(c)
      BY <2>2
    <3>2. [l \in LeavesOf(c) |-> value[l]] \in Reading(c)
      BY <1>2 DEF Reading
    <3>3. c \in Key /\ LeavesOf(c) \subseteq LeavesOf(k)
      BY <1>2
    <3>4. m \in Message
      BY <3>1, <3>2, <3>3, <1>1 DEF Message
    <3>5. m.key = c /\ m.known = subscribers /\ m.value = [l \in LeavesOf(c) |-> value[l]]
      BY <3>1
    <3> QED BY <3>2, <3>3, <3>4, <3>5
  <2> QED BY <2>1, <2>2
<1>4. IsFiniteSet(above \union below)
  <2>1. IsFiniteSet(above)
    BY FS_EmptySet, FS_Singleton
  <2>2. IsFiniteSet(below)
    <3>1. IsFiniteSet(ChildrenOf(k) \cap subscribers)
      BY <1>2, FS_Subset
    <3>2. PICK f \in [ChildrenOf(k) \cap subscribers -> below] : \A c \in ChildrenOf(k) \cap subscribers : f[c] = tell(c)
      <4>1. [c \in ChildrenOf(k) \cap subscribers |-> tell(c)] \in [ChildrenOf(k) \cap subscribers -> below]
        OBVIOUS
      <4> QED BY <4>1
    <3>3. f \in Surjection(ChildrenOf(k) \cap subscribers, below)
      BY <3>2 DEF Surjection
    <3> HIDE DEF below
    <3> QED BY <3>1, <3>3, FS_Surjection
  <2> QED BY <2>1, <2>2, FS_Union
<1>5. News(k, value) = SetToSeq(above \union below)
  BY DEF News
<1>6. PICK S, s : S = above \union below /\ s = News(k, value) /\ s = SetToSeq(S)
  BY <1>5
<1>7. /\ s \in Seq(S)
      /\ \A e \in S : \E i \in DOMAIN s : s[i] = e
  <2>1. IsFiniteSet(S) /\ s = SetToSeq(S)
    BY <1>4, <1>6
  <2> HIDE DEF above, below
  <2> QED BY <2>1, Listed
<1>8. S \subseteq Message
  BY <1>3, <1>6
<1>9. \A i \in DOMAIN s : s[i] \in S
  BY <1>7
<1>10. s \in Seq(Message)
  BY <1>7, <1>8
<1>11. ASSUME NEW n \in subscribers, n \in {k} \union ParentsOf(k) \union ChildrenOf(k)
       PROVE  \E i \in DOMAIN s : About(n, s[i])
  <2>1. CASE n \in {k} \union ParentsOf(k)
    <3>1. [key |-> k, value |-> value, known |-> subscribers] \in above
      BY <2>1
    <3>2. PICK i \in DOMAIN s : s[i] = [key |-> k, value |-> value, known |-> subscribers]
      BY <3>1, <1>6, <1>7
    <3>3. s[i].key = k
      BY <3>2
    <3> QED BY <2>1, <3>3 DEF About
  <2>2. CASE n \in ChildrenOf(k)
    <3>1. tell(n) \in below
      BY <2>2
    <3>2. PICK i \in DOMAIN s : s[i] = tell(n)
      BY <3>1, <1>6, <1>7
    <3>3. s[i].key = n
      BY <3>2
    <3> QED BY <3>3 DEF About
  <2> QED BY <1>11, <2>1, <2>2
<1> HIDE DEF above, below
<1> QED BY <1>3, <1>6, <1>9, <1>10, <1>11

\* After a change of the server what was current is current, for the parameters that
\* the node has subscribed to.
LEMMA ServerTold ==
    ASSUME Types, NewsOK, NEW k \in Key, NEW value \in Reading(k), ServerSets(k, value), UNCHANGED subscribers
    PROVE  /\ server' \in [Leaf -> Value \union {NoValue}] /\ updates' \in Seq(Message)
           /\ NewsOK'
           /\ \A n \in subscribers : \A v : Current(n, v) => Current(n, v)'
           /\ Current(k, value)'
<1>1. PICK s \in Seq(Message) :
        /\ s = News(k, value)
        /\ \A i \in DOMAIN s : /\ s[i].known = subscribers /\ s[i].key \in Key /\ LeavesOf(s[i].key) \subseteq LeavesOf(k)
                               /\ s[i].value = [l \in LeavesOf(s[i].key) |-> value[l]]
                               /\ s[i].value \in Reading(s[i].key)
        /\ \A n \in subscribers : n \in {k} \union ParentsOf(k) \union ChildrenOf(k) =>
              \E i \in DOMAIN s : About(n, s[i])
  BY NewsTold
<1>2. PICK n0 \in Nat, n1 \in Nat : n0 = Len(updates) /\ n1 = Len(s) /\ DOMAIN updates = 1 .. n0 /\ DOMAIN s = 1 .. n1
                                    /\ updates \in Seq(Message)
  BY LenProperties DEF Types
<1>3. /\ updates' \in Seq(Message) /\ DOMAIN updates' = 1 .. n0 + n1
      /\ \A i \in 1 .. n0 : i \in DOMAIN updates' /\ updates'[i] = updates[i]
      /\ \A i \in 1 .. n1 : n0 + i \in DOMAIN updates' /\ updates'[n0 + i] = s[i]
      /\ \A i \in DOMAIN updates' : i \in 1 .. n0 \/ i - n0 \in 1 .. n1
  <2>1. updates' = updates \o s
    BY <1>1 DEF ServerSets
  <2>2. /\ updates' \in Seq(Message) /\ Len(updates') = n0 + n1
        /\ \A i \in 1 .. n0 + n1 : updates'[i] = IF i <= n0 THEN updates[i] ELSE s[i - n0]
    BY <1>2, <2>1, ConcatProperties
  <2>3. DOMAIN updates' = 1 .. n0 + n1
    BY <2>2, LenProperties
  <2>4. ASSUME NEW i \in 1 .. n0 PROVE i \in DOMAIN updates' /\ updates'[i] = updates[i]
    <3>1. i \in 1 .. n0 + n1 /\ i <= n0
      OBVIOUS
    <3> QED BY <2>2, <2>3, <3>1
  <2>5. ASSUME NEW i \in 1 .. n1 PROVE n0 + i \in DOMAIN updates' /\ updates'[n0 + i] = s[i]
    <3>1. n0 + i \in 1 .. n0 + n1 /\ ~(n0 + i <= n0) /\ n0 + i - n0 = i
      OBVIOUS
    <3> QED BY <2>2, <2>3, <3>1
  <2> QED BY <2>2, <2>3, <2>4, <2>5
<1>4. LeavesOf(k) \subseteq Leaf /\ server \in [Leaf -> Value \union {NoValue}]
      /\ server' = [l \in Leaf |-> IF l \in LeavesOf(k) THEN value[l] ELSE server[l]]
  BY KeySets DEF Types, ServerSets
<1>5. server' \in [Leaf -> Value \union {NoValue}]
  BY <1>4 DEF Reading
<1>6. ASSUME NEW n \in Key, LeavesOf(n) \subseteq LeavesOf(k) PROVE ValueOf(n)' = [l \in LeavesOf(n) |-> value[l]]
  BY <1>4, <1>6 DEF ValueOf
<1>7. value = [l \in LeavesOf(k) |-> value[l]]
  BY DEF Reading
<1>8. ASSUME NEW n \in subscribers
      PROVE  \/ ValueOf(n)' = ValueOf(n)
             \/ \E i \in 1 .. n1 : About(n, s[i])
  <2>1. n \in Key /\ LeavesOf(n) \subseteq Leaf
    BY KeySets DEF Types
  <2>2. CASE LeavesOf(k) \cap LeavesOf(n) = {}
    BY <1>4, <2>1, <2>2 DEF ValueOf
  <2>3. CASE LeavesOf(k) \cap LeavesOf(n) # {}
    BY <1>1, <1>2, <2>1, <2>3, Tree
  <2> QED BY <2>2, <2>3
<1>9. \A n \in subscribers : (\E i \in 1 .. n1 : About(n, s[i])) =>
         \E j \in DOMAIN updates' : j > n0 /\ About(n, updates'[j])
  <2> SUFFICES ASSUME NEW n \in subscribers, NEW i \in 1 .. n1, About(n, s[i])
               PROVE  \E j \in DOMAIN updates' : j > n0 /\ About(n, updates'[j])
    OBVIOUS
  <2>1. n0 + i \in DOMAIN updates' /\ updates'[n0 + i] = s[i] /\ n0 + i > n0
    BY <1>3
  <2> QED BY <2>1
<1>10. ASSUME NEW n \in subscribers, NEW v, Current(n, v) PROVE Current(n, v)'
  <2>1. CASE NewsFor(n)
    <3>1. PICK i \in 1 .. n0 : About(n, updates[i])
      BY <2>1, <1>2 DEF NewsFor, About
    <3>2. i \in DOMAIN updates' /\ About(n, updates'[i])
      BY <3>1, <1>3
    <3> QED BY <3>2 DEF Current, NewsFor, About
  <2>2. CASE \E i \in 1 .. n1 : About(n, s[i])
    BY <2>2, <1>9 DEF Current, NewsFor, About
  <2>3. CASE ~NewsFor(n) /\ ~(\E i \in 1 .. n1 : About(n, s[i]))
    BY <2>3, <1>8, <1>10 DEF Current
  <2> QED BY <2>1, <2>2, <2>3
<1>11. ASSUME NEW i \in DOMAIN updates', NEW m, m = updates'[i]
       PROVE  /\ m.known \subseteq subscribers /\ m.value \in Reading(m.key)
              /\ m.key \in m.known => \/ m.value = ValueOf(m.key)'
                                      \/ \E j \in DOMAIN updates' : j > i /\ About(m.key, updates'[j])
  <2>1. CASE i \in 1 .. n0
    <3>1. m = updates[i] /\ i \in DOMAIN updates
      BY <2>1, <1>2, <1>3, <1>11
    <3>2. /\ m.known \subseteq subscribers /\ m.value \in Reading(m.key)
          /\ m.key \in m.known => \/ m.value = ValueOf(m.key)
                                  \/ \E j \in DOMAIN updates : j > i /\ About(m.key, updates[j])
      BY <3>1 DEF NewsOK
    <3>3. ASSUME m.key \in m.known
          PROVE  \/ m.value = ValueOf(m.key)'
                 \/ \E j \in DOMAIN updates' : j > i /\ About(m.key, updates'[j])
      <4>1. CASE \E j \in DOMAIN updates : j > i /\ About(m.key, updates[j])
        BY <4>1, <1>2, <1>3
      <4>2. CASE m.value = ValueOf(m.key)
        <5>1. \A j \in DOMAIN updates' : j > n0 => j > i
          BY <1>3, <2>1
        <5> QED BY <3>2, <3>3, <4>2, <5>1, <1>8, <1>9
      <4> QED BY <3>2, <3>3, <4>1, <4>2
    <3> QED BY <3>2, <3>3
  <2>2. CASE i - n0 \in 1 .. n1
    <3>1. m = s[i - n0]
      <4>1. n0 + (i - n0) = i
        BY <1>3
      <4> QED BY <2>2, <4>1, <1>3, <1>11
    <3>2. /\ m.known = subscribers /\ m.key \in Key /\ LeavesOf(m.key) \subseteq LeavesOf(k)
          /\ m.value = [l \in LeavesOf(m.key) |-> value[l]] /\ m.value \in Reading(m.key)
      BY <2>2, <3>1, <1>1, <1>2
    <3> QED BY <3>2, <1>6
  <2> QED BY <2>1, <2>2, <1>3
<1>12. NewsOK'
  <2> SUFFICES ASSUME NEW i \in DOMAIN updates'
               PROVE  /\ updates'[i].known \subseteq subscribers'
                      /\ updates'[i].value \in Reading(updates'[i].key)
                      /\ updates'[i].key \in updates'[i].known =>
                            \/ updates'[i].value = [l \in LeavesOf(updates'[i].key) |-> server'[l]]
                            \/ \E j \in DOMAIN updates' : j > i /\ About(updates'[i].key, updates'[j])
    BY DEF NewsOK, ValueOf
  <2>1. PICK m : m = updates'[i]
    OBVIOUS
  <2> QED BY <2>1, <1>11 DEF ValueOf
<1>13. Current(k, value)'
  BY <1>6, <1>7 DEF Current
<1> QED BY <1>3, <1>5, <1>10, <1>12, <1>13

-----------------------------------------------------------------------------
(* What the steps have in common.                                               *)

\* Where neither the server changes nor what is on its way, what is current stays so.
LEMMA SameNews ==
    ASSUME NewsOK, UNCHANGED <<server, updates>>, subscribers \subseteq subscribers'
    PROVE  NewsOK' /\ \A n, v : Current(n, v)' <=> Current(n, v)
BY DEF NewsOK, Current, ValueOf, NewsFor, About

\* One thread holds the mutex, and it alone is setting or subscribing.
LEMMA Holder ==
    ASSUME CInv
    PROVE  /\ mutex = Nobody => /\ g_subscribed_params \subseteq subscribers
                                /\ \A t \in Thread : call[t].op # "set" /\ ~Subscribing(t)
           /\ \A t \in Thread : call[t].op = "set" =>
                 /\ g_subscribed_params \subseteq subscribers
                 /\ \A u \in Thread : ~Subscribing(u) /\ (call[u].op = "set" => u = t)
           /\ \A t \in Thread : Subscribing(t) =>
                 /\ g_subscribed_params \subseteq subscribers \union {call[t].key}
                 /\ \A u \in Thread : call[u].op # "set" /\ (Subscribing(u) => u = t)
<1>1. Nobody \notin Thread
  BY KeysAssumption
<1>2. \A t \in Thread : call[t].op = "set" \/ Subscribing(t) => mutex = t
  BY DEF CInv, MutexHeld
<1>3. \A t \in Thread : Subscribing(t) => call[t].op # "set"
  BY DEF Subscribing, At
<1>4. \A k \in g_subscribed_params : k \in subscribers \/ \E t \in Thread : Subscribing(t) /\ call[t].key = k
  BY DEF CInv, SubscribedOK
<1> QED BY <1>1, <1>2, <1>3, <1>4

LEMMA Returned ==
    ASSUME Types, NEW t \in Thread, Return(t)
    PROVE  /\ call' \in [Thread -> ParamCalls] /\ call'[t].op = "none"
           /\ \A u \in Thread : u # t => call'[u] = call[u]
<1>1. call' = [call EXCEPT ![t] = Idle] /\ Idle \in ParamCalls /\ Idle.op = "none"
  BY DEF Return, ParamCalls, Idle
<1> QED BY <1>1 DEF Types

\* A call that begins.
LEMMA Begun ==
    ASSUME Types, NEW t \in Thread, NEW c \in ParamCalls, Begin(t, c)
    PROVE  /\ call' \in [Thread -> ParamCalls] /\ call[t] = Idle /\ call[t].op = "none" /\ call'[t] = c
           /\ \A u \in Thread : u # t => call'[u] = call[u]
<1>1. call' = [call EXCEPT ![t] = c] /\ call[t] = Idle /\ Idle.op = "none"
  BY DEF Begin, Idle
<1> QED BY <1>1 DEF Types

-----------------------------------------------------------------------------
(* Changes of the server.                                                       *)

\* Another node changes a parameter: what is cached and not missed has been subscribed to.
LEMMA OtherNodeInv ==
    ASSUME CInv, NEW k \in Key, NEW value \in ValuesOf(k), OtherNode(k, value)
    PROVE  CInv'
<1> USE DEF OtherNode
<1>0. /\ subscribers' = subscribers /\ g_params' = g_params /\ g_subscribed_params' = g_subscribed_params
      /\ mutex' = mutex /\ call' = call /\ overtaken' = overtaken /\ missed' = missed
  OBVIOUS
<1>1. /\ server' \in [Leaf -> Value \union {NoValue}] /\ updates' \in Seq(Message) /\ NewsOK'
      /\ \A n \in subscribers : \A v : Current(n, v) => Current(n, v)'
  BY KeySets, ServerTold DEF CInv
<1> USE DEF CInv
<1>2. Types'
  BY <1>0, <1>1 DEF Types, Cached
<1>3. MutexHeld' /\ SubscribedOK'
  BY <1>0 DEF MutexHeld, SubscribedOK, Subscribing, At, Fetches, Cached
<1>4. CacheOK'
  <2> SUFFICES ASSUME NEW n \in Cached', n \notin missed'
               PROVE  n \in g_subscribed_params /\ n \in subscribers /\ Current(n, g_params[n])'
    BY <1>0 DEF CacheOK
  <2>1. n \in Cached \ missed
    BY <1>0 DEF Cached
  <2>2. PICK v : v = g_params[n]
    OBVIOUS
  <2>3. n \in g_subscribed_params /\ n \in subscribers /\ Current(n, v)
    BY <2>1, <2>2 DEF CacheOK
  <2>4. Current(n, v)'
    BY <2>3, <1>1
  <2>5. g_params'[n] = v
    BY <2>2, <1>0
  <2> QED BY <2>3, <2>4, <2>5 DEF Current
<1>5. FetchOK'
  <2>1. \A t \in Thread \ overtaken : Fetched(t) => call[t].key \in subscribers
    <3>1. \A t \in Thread : Fetched(t) => call[t].key \in Key /\ Fetches(t, call[t].key)
      BY Forms DEF Fetched, At, Fetches, CInv, Types
    <3> QED BY <3>1 DEF CInv, FetchOK
  <2>2. \A t \in Thread : \A n : (Fetches(t, n)' <=> Fetches(t, n)) /\ (Fetched(t)' <=> Fetched(t))
    BY DEF Fetches, Fetched, At
  <2> QED BY <1>1, <2>1, <2>2 DEF CInv, FetchOK
<1>6. SetOK'
  <2>1. \A t \in Thread : At(t, "set", "told") => g_subscribed_params \subseteq subscribers
    BY Holder DEF At
  <2>2. \A t \in Thread : At(t, "set", "told")' <=> At(t, "set", "told")
    BY DEF At
  <2> QED BY <1>1, <2>1, <2>2 DEF CInv, SetOK
<1> QED BY <1>1, <1>2, <1>3, <1>4, <1>5, <1>6 DEF CInv

-----------------------------------------------------------------------------
(* The calls.                                                                   *)

\* A call goes on without the cache or the subscriptions, whatever the server does.
LEMMA CallMoves ==
    ASSUME CInv, NEW t \in Thread, UNCHANGED <<subscribers, g_params, g_subscribed_params, missed>>,
           server' \in [Leaf -> Value \union {NoValue}], updates' \in Seq(Message), NewsOK',
           \A n \in subscribers : \A v : Current(n, v) => Current(n, v)',
           call' \in [Thread -> ParamCalls], \A u \in Thread : u # t => call'[u] = call[u],
           mutex' \in Thread \union {Nobody}, MutexHeld',
           overtaken \subseteq overtaken', overtaken' \subseteq Thread,
           ~Subscribing(t), ~Subscribing(t)',
           t \notin overtaken' =>
              /\ \A k \in Key : Fetches(t, k)' => \/ Fetches(t, k)
                                                  \/ /\ k \in g_subscribed_params /\ k \in subscribers
                                                     /\ \A u \in Thread : ~Subscribing(u)
              /\ Fetched(t)' => Current(call[t].key, call[t].value)'
              /\ At(t, "set", "told")' /\ call'[t].key \in g_subscribed_params => Current(call[t].key, call[t].value)'
    PROVE  CInv'
<1> USE DEF CInv
<1>0. Cached' = Cached
  BY DEF Cached
<1>1. Types'
  BY <1>0 DEF Types
<1>2. \A u \in Thread : u # t =>
         /\ Subscribing(u)' <=> Subscribing(u)
         /\ Fetched(u)' <=> Fetched(u)
         /\ At(u, "set", "told")' <=> At(u, "set", "told")
         /\ \A n : Fetches(u, n)' <=> Fetches(u, n)
  BY DEF Subscribing, Fetched, At, Fetches
<1>4. SubscribedOK'
  <2>1. \A k \in g_subscribed_params' : k \in subscribers' \/ \E u \in Thread : Subscribing(u)' /\ call'[u].key = k
    BY <1>2 DEF SubscribedOK
  <2>2. ASSUME NEW u \in Thread, Subscribing(u)'
        PROVE  /\ call'[u].key \in g_subscribed_params'
               /\ call'[u].key \in Cached' => call'[u].key \in missed'
               /\ \A w \in Thread \ overtaken' : ~Fetches(w, call[u].key)'
    <3>1. u # t /\ Subscribing(u) /\ call'[u] = call[u] /\ call[u].key \in Key
      <4>1. call[u] \in ParamCalls
        BY DEF Types
      <4>2. u # t /\ Subscribing(u)
        BY <2>2, <1>2
      <4> QED BY <4>1, <4>2, Forms DEF Subscribing, At
    <3>2. /\ call[u].key \in g_subscribed_params
          /\ call[u].key \in Cached => call[u].key \in missed
          /\ \A w \in Thread \ overtaken : ~Fetches(w, call[u].key)
      BY <3>1 DEF SubscribedOK
    <3>3. PICK k \in Key : k = call[u].key
      BY <3>1
    <3>4. ASSUME NEW w \in Thread \ overtaken' PROVE ~Fetches(w, k)'
      BY <3>1, <3>2, <3>3, <1>2
    <3>5. k = call'[u].key
      BY <3>1, <3>3
    <3> QED BY <3>2, <3>3, <3>4, <3>5, <1>0 DEF Fetches
  <2> QED BY <2>1, <2>2 DEF SubscribedOK
<1>5. CacheOK'
  <2> SUFFICES ASSUME NEW n \in Cached', n \notin missed'
               PROVE  n \in g_subscribed_params /\ n \in subscribers /\ Current(n, g_params[n])'
    BY DEF CacheOK
  <2>1. n \in Cached \ missed
    BY <1>0
  <2>2. PICK v : v = g_params[n]
    OBVIOUS
  <2>3. n \in g_subscribed_params /\ n \in subscribers /\ Current(n, v)
    BY <2>1, <2>2 DEF CacheOK
  <2>4. Current(n, v)'
    BY <2>3
  <2>5. g_params'[n] = v
    BY <2>2
  <2> QED BY <2>3, <2>4, <2>5 DEF Current
<1>6. \A u \in Thread \ overtaken' : \A k \in Key : Fetches(u, k)' => k \in g_subscribed_params' /\ k \in subscribers'
  BY <1>2 DEF FetchOK
<1>7. ASSUME NEW u \in Thread \ overtaken', Fetched(u)' PROVE Current(call[u].key, call[u].value)'
  <2>1. CASE u # t
    <3>1. u \in Thread \ overtaken /\ Fetched(u) /\ call'[u] = call[u] /\ call[u] \in ParamCalls
      BY <2>1, <1>2, <1>7 DEF Types
    <3>2. call[u].key \in Key /\ Fetches(u, call[u].key)
      BY <3>1, Forms DEF Fetched, At, Fetches
    <3>3. PICK n, v : n = call[u].key /\ v = call[u].value
      OBVIOUS
    <3>4. Current(n, v) /\ n \in subscribers
      BY <3>1, <3>2, <3>3 DEF FetchOK
    <3>5. Current(n, v)' /\ n = call'[u].key /\ v = call'[u].value
      BY <3>1, <3>3, <3>4
    <3> QED BY <3>5 DEF Current
  <2>2. CASE u = t
    BY <2>2, <1>7
  <2> QED BY <2>1, <2>2
<1>8. ASSUME NEW u \in Thread \ overtaken', At(u, "set", "told")', call'[u].key \in g_subscribed_params'
      PROVE  Current(call[u].key, call[u].value)'
  <2>1. CASE u # t
    <3>1. u \in Thread \ overtaken /\ At(u, "set", "told") /\ call'[u] = call[u]
      BY <2>1, <1>2, <1>8
    <3>2. g_subscribed_params \subseteq subscribers
      BY <3>1, Holder DEF At
    <3>3. PICK n, v : n = call[u].key /\ v = call[u].value
      OBVIOUS
    <3>4. Current(n, v) /\ n \in subscribers
      BY <3>1, <3>2, <3>3, <1>8 DEF SetOK
    <3>5. Current(n, v)' /\ n = call'[u].key /\ v = call'[u].value
      BY <3>1, <3>3, <3>4
    <3> QED BY <3>5 DEF Current
  <2>2. CASE u = t
    BY <2>2, <1>8
  <2> QED BY <2>1, <2>2
<1>9. FetchOK'
  BY <1>6, <1>7 DEF FetchOK
<1>10. SetOK'
  BY <1>8 DEF SetOK
<1> QED BY <1>1, <1>4, <1>5, <1>9, <1>10

\* The mutex is left by the thread that is setting or subscribing, or by nobody.
LEMMA Leaves ==
    ASSUME CInv, NEW t \in Thread, \A u \in Thread : u # t => call'[u] = call[u],
           call'[t].op # "set", ~Subscribing(t)',
           UNCHANGED mutex \/ Unlock(t)
    PROVE  MutexHeld' /\ mutex' \in Thread \union {Nobody}
<1>1. \A u \in Thread : call[u].op = "set" \/ Subscribing(u) => mutex = u
  BY DEF CInv, MutexHeld
<1>2. \A u \in Thread : u # t => (call'[u].op = "set" <=> call[u].op = "set") /\ (Subscribing(u)' <=> Subscribing(u))
  BY DEF Subscribing, At
<1>3. mutex' \in Thread \union {Nobody} /\ (mutex' = mutex \/ mutex = t)
  BY DEF Unlock, CInv, Types
<1>4. CASE mutex' = mutex
  BY <1>1, <1>2, <1>3, <1>4 DEF MutexHeld
<1>5. CASE mutex = t
  BY <1>1, <1>2, <1>3, <1>5 DEF MutexHeld
<1> QED BY <1>3, <1>4, <1>5

LEMMA SetInv ==
    ASSUME CInv, NEW t \in Thread, NEW k \in Key, NEW value \in ValuesOf(k) \ {None(k)}, Set(t, k, value)
    PROVE  CInv'
<1> DEFINE c == [op |-> "set", key |-> k, value |-> value, at |-> "ask"]
<1>1. c \in ParamCalls
  <2>1. value \in Reading(k)
    BY KeySets
  <2> QED BY <2>1 DEF ParamCalls, SetCall
<1>2. /\ call' \in [Thread -> ParamCalls] /\ call[t] = Idle /\ call[t].op = "none" /\ call'[t] = c
      /\ \A u \in Thread : u # t => call'[u] = call[u]
  BY <1>1, Begun DEF Set, CInv
<1>3. c.op = "set" /\ c.at = "ask"
  OBVIOUS
<1>4. mutex = Nobody /\ mutex' = t /\ \A u \in Thread : call[u].op # "set" /\ ~Subscribing(u)
  BY Holder DEF Set, Lock
<1>5. MutexHeld'
  <2>1. \A u \in Thread : u # t => call'[u].op # "set" /\ ~Subscribing(u)'
    BY <1>2, <1>4 DEF Subscribing, At
  <2> QED BY <1>4, <2>1 DEF MutexHeld
<1>6. UNCHANGED <<server, updates, subscribers, g_params, g_subscribed_params, missed, overtaken>>
  BY DEF Set
<1>7. ~Subscribing(t) /\ ~Subscribing(t)' /\ ~Fetched(t)' /\ ~At(t, "set", "told")' /\ \A n \in Key : ~Fetches(t, n)'
  BY <1>2, <1>3 DEF Subscribing, Fetched, At, Fetches
<1>8. NewsOK' /\ \A n, v : Current(n, v)' <=> Current(n, v)
  BY <1>6, SameNews DEF CInv
<1> HIDE DEF c
<1>9. Types
  BY DEF CInv
<1> QED BY <1>2, <1>4, <1>5, <1>6, <1>7, <1>8, <1>9, CallMoves DEF Types

\* What a thread in set() has asked for.
LEMMA Asking ==
    ASSUME CInv, NEW t \in Thread, At(t, "set", "ask") \/ At(t, "set", "told")
    PROVE  /\ call[t] \in ParamCalls /\ call[t].op = "set" /\ call[t].key \in Key /\ call[t].value \in Reading(call[t].key)
           /\ mutex = t /\ ~Subscribing(t) /\ g_subscribed_params \subseteq subscribers
           /\ \A u \in Thread : ~Subscribing(u) /\ (call[u].op = "set" => u = t)
<1>1. call[t] \in ParamCalls /\ call[t].op = "set"
  BY DEF CInv, Types, At
<1>2. mutex = t
  BY <1>1 DEF CInv, MutexHeld
<1> QED BY <1>1, <1>2, Forms, Holder

LEMMA SetOnServerInv ==
    ASSUME CInv, NEW t \in Thread, SetOnServer(t)
    PROVE  CInv'
<1> USE DEF SetOnServer
<1>1. PICK k, value :
        /\ k \in Key /\ value \in Reading(k) /\ k = call[t].key /\ value = call[t].value
        /\ call[t] \in ParamCalls /\ call[t].op = "set" /\ mutex = t /\ ~Subscribing(t)
        /\ \A u \in Thread : ~Subscribing(u) /\ (call[u].op = "set" => u = t)
  BY Asking
<1>2. ServerSets(k, value) /\ Types /\ NewsOK /\ UNCHANGED subscribers
  BY <1>1 DEF CInv
<1>3. /\ server' \in [Leaf -> Value \union {NoValue}] /\ updates' \in Seq(Message) /\ NewsOK'
      /\ \A n \in subscribers : \A v : Current(n, v) => Current(n, v)'
      /\ Current(k, value)'
  BY <1>1, <1>2, ServerTold
<1>4. UNCHANGED <<subscribers, g_params, g_subscribed_params, missed, overtaken>>
  OBVIOUS
<1>5. CASE GoTo(t, "told") /\ UNCHANGED mutex
  <2>1. PICK d \in ParamCalls : d = [call[t] EXCEPT !.at = "told"] /\ d.op = "set" /\ d.key = k /\ d.value = value
                                /\ d.at = "told"
    BY <1>1, Going
  <2>2. call' \in [Thread -> ParamCalls] /\ call'[t] = d /\ \A u \in Thread : u # t => call'[u] = call[u]
    BY <1>2, <1>5, <2>1 DEF GoTo, Types
  <2>3. ~Subscribing(t)' /\ ~Fetched(t)' /\ \A n \in Key : ~Fetches(t, n)'
    BY <2>1, <2>2 DEF Subscribing, Fetched, At, Fetches
  <2>4. Current(call[t].key, call[t].value)'
    <3>1. call'[t].key = k /\ call'[t].value = value
      BY <2>1, <2>2
    <3> QED BY <1>3, <3>1 DEF Current
  <2>5. MutexHeld' /\ mutex' \in Thread \union {Nobody}
    <3>1. \A u \in Thread : u # t => call'[u].op # "set" /\ ~Subscribing(u)'
      BY <2>2, <1>1 DEF Subscribing, At
    <3> QED BY <1>1, <1>5, <3>1 DEF MutexHeld
  <2> QED BY <1>1, <1>2, <1>3, <1>4, <2>2, <2>3, <2>4, <2>5, CallMoves DEF Types
<1>6. CASE UNCHANGED <<call, mutex>>
  <2>1. \A u \in Thread : call'[u] = call[u]
    BY <1>6
  <2>2. MutexHeld' /\ mutex' \in Thread \union {Nobody} /\ call' \in [Thread -> ParamCalls]
    BY <1>6 DEF CInv, MutexHeld, Subscribing, At, Types
  <2>3. ~Subscribing(t)' /\ ~Fetched(t)' /\ ~At(t, "set", "told")' /\ \A n \in Key : ~Fetches(t, n)'
    BY <1>6, <1>1 DEF Subscribing, Fetched, At, Fetches
  <2> QED BY <1>1, <1>2, <1>3, <1>4, <2>1, <2>2, <2>3, CallMoves DEF Types
<1>7. CASE Return(t) /\ Unlock(t)
  <2>1. call' \in [Thread -> ParamCalls] /\ call'[t].op = "none" /\ \A u \in Thread : u # t => call'[u] = call[u]
    BY <1>2, <1>7, Returned
  <2>2. ~Subscribing(t)' /\ ~Fetched(t)' /\ ~At(t, "set", "told")' /\ \A n \in Key : ~Fetches(t, n)'
    BY <2>1 DEF Subscribing, Fetched, At, Fetches
  <2>3. MutexHeld' /\ mutex' \in Thread \union {Nobody}
    BY <1>7, <2>1, <2>2, Leaves
  <2> QED BY <1>1, <1>2, <1>3, <1>4, <2>1, <2>2, <2>3, CallMoves DEF Types
<1> QED BY <1>5, <1>6, <1>7

LEMMA SetRefusedInv ==
    ASSUME CInv, NEW t \in Thread, SetRefused(t)
    PROVE  CInv'
<1>1. /\ UNCHANGED <<server, updates, subscribers, g_params, g_subscribed_params, missed, overtaken>>
      /\ Types /\ NewsOK /\ Return(t) /\ Unlock(t)
  BY DEF SetRefused, CInv
<1>2. ~Subscribing(t)
  BY Asking DEF SetRefused
<1>3. call' \in [Thread -> ParamCalls] /\ call'[t].op = "none" /\ \A u \in Thread : u # t => call'[u] = call[u]
  BY <1>1, Returned
<1>4. ~Subscribing(t)' /\ ~Fetched(t)' /\ ~At(t, "set", "told")' /\ \A n \in Key : ~Fetches(t, n)'
  BY <1>3 DEF Subscribing, Fetched, At, Fetches
<1>5. MutexHeld' /\ mutex' \in Thread \union {Nobody}
  BY <1>1, <1>3, <1>4, Leaves
<1>6. NewsOK' /\ \A n, v : Current(n, v)' <=> Current(n, v)
  BY <1>1, SameNews
<1> QED BY <1>1, <1>2, <1>3, <1>4, <1>5, <1>6, CallMoves DEF Types

LEMMA SetGivesUpInv ==
    ASSUME CInv, NEW t \in Thread, SetGivesUp(t)
    PROVE  CInv'
<1>1. /\ UNCHANGED <<server, updates, subscribers, g_params, g_subscribed_params, missed, mutex>>
      /\ Types /\ NewsOK /\ GoTo(t, "told") /\ overtaken' = overtaken \union {t}
  BY DEF SetGivesUp, CInv
<1>2. /\ call[t] \in ParamCalls /\ call[t].op = "set" /\ mutex = t /\ ~Subscribing(t)
      /\ \A u \in Thread : ~Subscribing(u) /\ (call[u].op = "set" => u = t)
  BY Asking DEF SetGivesUp
<1>3. PICK d \in ParamCalls : d = [call[t] EXCEPT !.at = "told"] /\ d.op = "set" /\ d.at = "told"
  BY <1>2, Going
<1>4. call' \in [Thread -> ParamCalls] /\ call'[t] = d /\ \A u \in Thread : u # t => call'[u] = call[u]
  BY <1>1, <1>3 DEF GoTo, Types
<1>5. ~Subscribing(t)'
  BY <1>3, <1>4 DEF Subscribing, At
<1>6. MutexHeld' /\ mutex' \in Thread \union {Nobody}
  <2>1. \A u \in Thread : u # t => call'[u].op # "set" /\ ~Subscribing(u)'
    BY <1>2, <1>4 DEF Subscribing, At
  <2> QED BY <1>1, <1>2, <2>1 DEF MutexHeld
<1>7. NewsOK' /\ \A n, v : Current(n, v)' <=> Current(n, v)
  BY <1>1, SameNews
<1> QED BY <1>1, <1>2, <1>4, <1>5, <1>6, <1>7, CallMoves DEF Types

LEMMA FetchInv ==
    ASSUME CInv, NEW t \in Thread, Fetch(t)
    PROVE  CInv'
<1>1. /\ UNCHANGED <<server, updates, subscribers, g_params, g_subscribed_params, missed, mutex>>
      /\ Types /\ NewsOK /\ At(t, "getCached", "fetch")
  BY DEF Fetch, CInv
<1>2. PICK k \in Key : k = call[t].key
  <2>1. call[t] \in ParamCalls /\ call[t].op = "getCached"
    BY <1>1 DEF Types, At
  <2> QED BY <2>1, Forms
<1>3. ValueOf(k) \in Reading(k)
  BY <1>1, KeySets DEF ValueOf, Reading, Types
<1>4. PICK v : /\ v \in Reading(k)
               /\ call' = [call EXCEPT ![t] = [op |-> "getCached", key |-> k, value |-> v, at |-> "fetched"]]
               /\ overtaken' = IF v = ValueOf(k) THEN overtaken ELSE overtaken \union {t}
  <2> DEFINE Answers(v) == call' = [call EXCEPT ![t] = [op |-> "getCached", key |-> k, value |-> v, at |-> "fetched"]]
             Unsure(v) == overtaken' = IF v = ValueOf(k) THEN overtaken ELSE overtaken \union {t}
  <2>1. \/ Answers(ValueOf(k)) /\ UNCHANGED overtaken
        \/ \E v \in IF bound.reused THEN ValuesOf(k) ELSE {None(k)} : Answers(v) /\ Unsure(v)
    BY <1>2 DEF Fetch
  <2>2. ASSUME NEW v \in IF bound.reused THEN ValuesOf(k) ELSE {None(k)} PROVE v \in Reading(k)
    BY KeySets
  <2> QED BY <1>3, <2>1, <2>2
<1>5. PICK d \in ParamCalls : d = [op |-> "getCached", key |-> k, value |-> v, at |-> "fetched"]
  BY <1>4 DEF ParamCalls, FetchedCall
<1>6. d.op = "getCached" /\ d.key = k /\ d.value = v /\ d.at = "fetched"
  BY <1>5
<1>7. call' \in [Thread -> ParamCalls] /\ call'[t] = d /\ \A u \in Thread : u # t => call'[u] = call[u]
  BY <1>1, <1>4, <1>5 DEF Types
<1>8. ~Subscribing(t) /\ ~Subscribing(t)' /\ ~At(t, "set", "told")' /\ \A n \in Key : Fetches(t, n)' => Fetches(t, n)
  BY <1>1, <1>2, <1>6, <1>7 DEF Subscribing, At, Fetches
<1>9. MutexHeld' /\ mutex' \in Thread \union {Nobody}
  <2>1. call'[t].op # "set"
    BY <1>6, <1>7
  <2> QED BY <1>1, <1>7, <1>8, <2>1, Leaves
<1>10. NewsOK' /\ \A n, w : Current(n, w)' <=> Current(n, w)
  BY <1>1, SameNews
<1>11. t \notin overtaken' => Current(call[t].key, call[t].value)'
  <2>1. v = ValueOf(k) => Current(k, v)'
    BY <1>10 DEF Current
  <2>2. call'[t].key = k /\ call'[t].value = v
    BY <1>6, <1>7
  <2> QED BY <1>4, <2>1, <2>2 DEF Current
<1>12. overtaken \subseteq overtaken' /\ overtaken' \subseteq Thread
  BY <1>1, <1>4 DEF Types
<1> QED BY <1>1, <1>7, <1>8, <1>9, <1>10, <1>11, <1>12, CallMoves DEF Types

LEMMA DelOnServerInv ==
    ASSUME CInv, NEW t \in Thread, DelOnServer(t)
    PROVE  CInv'
<1>1. /\ UNCHANGED <<subscribers, g_params, g_subscribed_params, missed, overtaken, mutex>>
      /\ Types /\ NewsOK /\ At(t, "del", "ask") /\ Return(t)
  BY DEF DelOnServer, CInv
<1>2. PICK k \in Key : k = call[t].key
  <2>1. call[t] \in ParamCalls /\ call[t].op = "del"
    BY <1>1 DEF Types, At
  <2> QED BY <2>1, Forms
<1>3. call' \in [Thread -> ParamCalls] /\ call'[t].op = "none" /\ \A u \in Thread : u # t => call'[u] = call[u]
  BY <1>1, Returned
<1>4. ~Subscribing(t) /\ ~Subscribing(t)' /\ ~Fetched(t)' /\ ~At(t, "set", "told")' /\ \A n \in Key : ~Fetches(t, n)'
  BY <1>1, <1>3 DEF Subscribing, Fetched, At, Fetches
<1>5. MutexHeld' /\ mutex' \in Thread \union {Nobody}
  BY <1>1, <1>3, <1>4, Leaves
<1>6. /\ server' \in [Leaf -> Value \union {NoValue}] /\ updates' \in Seq(Message) /\ NewsOK'
      /\ \A n \in subscribers : \A v : Current(n, v) => Current(n, v)'
  <2>1. CASE ServerSets(k, None(k))
    <3>1. None(k) \in Reading(k)
      BY KeySets
    <3> QED BY <1>1, <2>1, <3>1, ServerTold
  <2>2. CASE UNCHANGED <<server, updates>>
    BY <1>1, <2>2, SameNews DEF Types
  <2> QED BY <1>2, <2>1, <2>2 DEF DelOnServer
<1> QED BY <1>1, <1>3, <1>4, <1>5, <1>6, CallMoves DEF Types

\* A parameter the node does not know yet: it may be cached only because a fetch was overtaken.
LEMMA FirstGetInv ==
    ASSUME CInv, NEW t \in Thread, NEW k \in Key, GetCached(t, k), k \notin g_subscribed_params
    PROVE  CInv'
<1> DEFINE c == [op |-> "getCached", key |-> k, at |-> "subscribe"]
<1>1. /\ UNCHANGED <<server, updates, subscribers, g_params, missed, overtaken>> /\ Types /\ NewsOK
      /\ mutex = Nobody /\ mutex' = t /\ g_subscribed_params' = g_subscribed_params \union {k} /\ Begin(t, c)
  BY DEF GetCached, CInv
<1>2. c \in ParamCalls /\ c.op = "getCached" /\ c.key = k /\ c.at = "subscribe"
  BY DEF ParamCalls
<1> HIDE DEF c
<1>3. /\ call' \in [Thread -> ParamCalls] /\ call'[t] = c
      /\ \A u \in Thread : u # t => call'[u] = call[u]
  BY <1>1, <1>2, Begun
<1>4. g_subscribed_params \subseteq subscribers /\ \A u \in Thread : call[u].op # "set" /\ ~Subscribing(u)
  BY <1>1, Holder
<1>5. /\ Subscribing(t)' /\ call'[t].op # "set" /\ \A n \in Key : ~Fetches(t, n)'
      /\ ~Fetched(t)' /\ ~At(t, "set", "told")'
      /\ \A u \in Thread : u # t => /\ ~Subscribing(u)' /\ call'[u].op # "set" /\ ~At(u, "set", "told")'
                                    /\ \A n : Fetches(u, n)' <=> Fetches(u, n)
                                    /\ Fetched(u)' <=> Fetched(u)
  BY <1>2, <1>3, <1>4 DEF Subscribing, Fetched, At, Fetches
<1>6. NewsOK' /\ \A n, v : Current(n, v)' <=> Current(n, v)
  BY <1>1, SameNews
<1>7. Cached' = Cached
  BY <1>1 DEF Cached
<1>8. Types'
  BY <1>1, <1>3, <1>7 DEF Types
<1>9. MutexHeld'
  BY <1>1, <1>5 DEF MutexHeld
<1>10. SubscribedOK'
  <2>1. k \in Cached => k \in missed
    BY DEF CInv, CacheOK
  <2>2. \A u \in Thread \ overtaken : ~Fetches(u, k)
    BY DEF CInv, FetchOK
  <2>3. \A u \in Thread \ overtaken' : ~Fetches(u, k)'
    BY <1>1, <1>5, <2>2
  <2>4. \A n \in g_subscribed_params' : n \in subscribers' \/ \E u \in Thread : Subscribing(u)' /\ call'[u].key = n
    BY <1>1, <1>2, <1>3, <1>4, <1>5
  <2>5. ASSUME NEW u \in Thread, Subscribing(u)'
        PROVE  /\ call'[u].key \in g_subscribed_params'
               /\ call'[u].key \in Cached' => call'[u].key \in missed'
               /\ \A w \in Thread \ overtaken' : ~Fetches(w, call[u].key)'
    <3>1. u = t /\ call'[u].key = k
      BY <1>2, <1>3, <1>5, <2>5
    <3> QED BY <1>1, <1>7, <2>1, <2>3, <3>1 DEF Fetches
  <2> QED BY <2>4, <2>5 DEF SubscribedOK
<1>11. CacheOK'
  BY <1>1, <1>6, <1>7 DEF CInv, CacheOK, Current, NewsFor, ValueOf
<1>12. FetchOK'
  <2>1. ASSUME NEW u \in Thread \ overtaken', NEW n \in Key, Fetches(u, n)' PROVE n \in g_subscribed_params' /\ n \in subscribers'
    BY <1>1, <1>5, <2>1 DEF CInv, FetchOK
  <2>2. ASSUME NEW u \in Thread \ overtaken', Fetched(u)' PROVE Current(call[u].key, call[u].value)'
    <3>1. u # t /\ call'[u] = call[u] /\ Current(call[u].key, call[u].value)
      BY <1>1, <1>3, <1>5, <2>2 DEF CInv, FetchOK
    <3>2. PICK n, v : n = call[u].key /\ v = call[u].value
      OBVIOUS
    <3>3. Current(n, v)'
      BY <3>1, <3>2, <1>6
    <3>4. call'[u].key = n /\ call'[u].value = v
      BY <3>1, <3>2
    <3> QED BY <3>3, <3>4 DEF Current
  <2> QED BY <2>1, <2>2 DEF FetchOK
<1>13. SetOK'
  BY <1>5 DEF SetOK
<1> QED BY <1>6, <1>8, <1>9, <1>10, <1>11, <1>12, <1>13 DEF CInv

LEMMA GetCachedInv ==
    ASSUME CInv, NEW t \in Thread, NEW k \in Key, GetCached(t, k)
    PROVE  CInv'
<1>1. CASE k \notin g_subscribed_params
  BY <1>1, FirstGetInv
<1>2. CASE k \in g_subscribed_params
  <2>1. /\ UNCHANGED <<server, updates, subscribers, g_params, g_subscribed_params, missed, overtaken, mutex>>
        /\ Types /\ NewsOK /\ mutex = Nobody
    BY <1>2 DEF GetCached, CInv
  <2>2. g_subscribed_params \subseteq subscribers /\ \A u \in Thread : call[u].op # "set" /\ ~Subscribing(u)
    BY <2>1, Holder
  <2>3. NewsOK' /\ \A n, v : Current(n, v)' <=> Current(n, v)
    BY <2>1, SameNews
  <2>4. CASE call[t] = Idle /\ UNCHANGED call
    <3>1. ~Subscribing(t)' /\ ~Fetched(t)' /\ ~At(t, "set", "told")' /\ call'[t].op # "set" /\ \A n \in Key : ~Fetches(t, n)'
      BY <2>4 DEF Subscribing, Fetched, At, Fetches, Idle
    <3>2. MutexHeld' /\ mutex' \in Thread \union {Nobody}
      BY <2>1, <2>4, <3>1, Leaves
    <3>3. call' \in [Thread -> ParamCalls] /\ \A u \in Thread : call'[u] = call[u]
      BY <2>1, <2>4 DEF Types
    <3> QED BY <2>1, <2>2, <2>3, <3>1, <3>2, <3>3, CallMoves DEF Types
  <2>5. CASE Begin(t, [op |-> "getCached", key |-> k, at |-> "fetch"])
    <3>1. PICK c \in ParamCalls : c = [op |-> "getCached", key |-> k, at |-> "fetch"]
      BY DEF ParamCalls
    <3>2. c.op = "getCached" /\ c.key = k /\ c.at = "fetch"
      BY <3>1
    <3>3. call' \in [Thread -> ParamCalls] /\ call'[t] = c /\ \A u \in Thread : u # t => call'[u] = call[u]
      BY <2>1, <2>5, <3>1, Begun
    <3>4. /\ ~Subscribing(t)' /\ ~Fetched(t)' /\ ~At(t, "set", "told")' /\ call'[t].op # "set"
          /\ \A n \in Key : Fetches(t, n)' => n = k
      BY <3>2, <3>3 DEF Subscribing, Fetched, At, Fetches
    <3>5. MutexHeld' /\ mutex' \in Thread \union {Nobody}
      BY <2>1, <3>3, <3>4, Leaves
    <3>6. \A n \in Key : Fetches(t, n)' => n \in g_subscribed_params /\ n \in subscribers
      BY <1>2, <2>2, <3>4
    <3> QED BY <2>1, <2>2, <2>3, <3>3, <3>4, <3>5, <3>6, CallMoves DEF Types
  <2> QED BY <1>2, <2>4, <2>5 DEF GetCached
<1> QED BY <1>1, <1>2

\* A step after which nobody sets or subscribes.
LEMMA Settles ==
    ASSUME CInv, NEW t \in Thread, UNCHANGED <<server, updates>>,
           subscribers \subseteq subscribers', subscribers' \subseteq Key,
           g_subscribed_params' \subseteq subscribers',
           call' \in [Thread -> ParamCalls], \A u \in Thread : u # t => call'[u] = call[u],
           \A u \in Thread : call'[u].op # "set" /\ ~Subscribing(u)',
           mutex' \in Thread \union {Nobody},
           Cached' \subseteq Key, \A n \in Cached' : g_params'[n] \in Reading(n),
           missed' \subseteq Key, overtaken' \subseteq Thread,
           CacheOK',
           \A u \in Thread \ overtaken' : u # t =>
              u \notin overtaken /\ \A n \in Key : Fetches(u, n) => n \in g_subscribed_params',
           ~Fetched(t)', \A n \in Key : Fetches(t, n)' => n \in g_subscribed_params'
    PROVE  CInv'
<1>1. NewsOK' /\ \A n, v : Current(n, v)' <=> Current(n, v)
  BY SameNews DEF CInv
<1>2. Types'
  BY DEF CInv, Types
<1>3. MutexHeld' /\ SetOK'
  BY DEF MutexHeld, SetOK, At
<1>4. SubscribedOK'
  BY DEF SubscribedOK
<1>5. \A u \in Thread : u # t => (Fetched(u)' <=> Fetched(u)) /\ \A n : Fetches(u, n)' <=> Fetches(u, n)
  BY DEF Fetched, At, Fetches
<1>6. ASSUME NEW u \in Thread \ overtaken', NEW n \in Key, Fetches(u, n)' PROVE n \in g_subscribed_params' /\ n \in subscribers'
  BY <1>5, <1>6
<1>7. ASSUME NEW u \in Thread \ overtaken', Fetched(u)' PROVE Current(call[u].key, call[u].value)'
  <2>1. u # t /\ u \notin overtaken /\ call'[u] = call[u] /\ Current(call[u].key, call[u].value)
    BY <1>5, <1>7 DEF CInv, FetchOK
  <2>2. PICK n, v : n = call[u].key /\ v = call[u].value
    OBVIOUS
  <2>3. Current(n, v)'
    BY <1>1, <2>1, <2>2
  <2>4. call'[u].key = n /\ call'[u].value = v
    BY <2>1, <2>2
  <2> QED BY <2>3, <2>4 DEF Current
<1>8. FetchOK'
  BY <1>6, <1>7 DEF FetchOK
<1> QED BY <1>1, <1>2, <1>3, <1>4, <1>8 DEF CInv

\* What is cached of a parameter nobody touches.
LEMMA StillCached ==
    ASSUME CInv, NEW n \in Cached \ missed, UNCHANGED <<server, updates>>, NEW v, v = g_params[n]
    PROVE  n \in g_subscribed_params /\ n \in subscribers /\ Current(n, v)'
<1>1. n \in g_subscribed_params /\ n \in subscribers /\ Current(n, v)
  BY DEF CInv, CacheOK
<1> QED BY <1>1, SameNews DEF CInv, Current, NewsFor, ValueOf

\* What a thread that subscribes has begun.
LEMMA Subscribes ==
    ASSUME CInv, NEW t \in Thread, Subscribing(t)
    PROVE  /\ call[t] \in ParamCalls /\ call[t].op = "getCached" /\ call[t].at = "subscribe" /\ call[t].key \in Key
           /\ call[t].key \in g_subscribed_params /\ (call[t].key \in Cached => call[t].key \in missed)
           /\ \A u \in Thread \ overtaken : ~Fetches(u, call[t].key)
           /\ g_subscribed_params \subseteq subscribers \union {call[t].key}
           /\ \A u \in Thread : call[u].op # "set" /\ (Subscribing(u) => u = t)
<1>1. call[t] \in ParamCalls /\ call[t].op = "getCached" /\ call[t].at = "subscribe"
  BY DEF CInv, Types, Subscribing, At
<1> QED BY <1>1, Forms, Holder DEF CInv, SubscribedOK

LEMMA SubscribeInv ==
    ASSUME CInv, NEW t \in Thread, Subscribe(t)
    PROVE  CInv'
<1>1. /\ UNCHANGED <<server, updates, g_params, g_subscribed_params, missed, overtaken>> /\ Types
      /\ subscribers' = subscribers \union {call[t].key} /\ GoTo(t, "fetch") /\ mutex' = Nobody /\ Subscribing(t)
  BY DEF Subscribe, Unlock, Subscribing, CInv
<1>2. PICK k \in Key :
        /\ k = call[t].key /\ call[t] \in ParamCalls /\ call[t].op = "getCached" /\ call[t].at = "subscribe"
        /\ k \in g_subscribed_params /\ g_subscribed_params \subseteq subscribers \union {k}
        /\ \A u \in Thread : call[u].op # "set" /\ (Subscribing(u) => u = t)
  BY <1>1, Subscribes
<1>3. PICK d \in ParamCalls : d = [call[t] EXCEPT !.at = "fetch"] /\ d.op = "getCached" /\ d.key = k /\ d.at = "fetch"
  BY <1>2, Going
<1>4. call' \in [Thread -> ParamCalls] /\ call'[t] = d /\ \A u \in Thread : u # t => call'[u] = call[u]
  BY <1>1, <1>3 DEF GoTo, Types
<1>5. /\ \A u \in Thread : call'[u].op # "set" /\ ~Subscribing(u)'
      /\ ~Fetched(t)' /\ \A n \in Key : Fetches(t, n)' => n = k
  BY <1>2, <1>3, <1>4 DEF Subscribing, Fetched, At, Fetches
<1>6. Cached' = Cached
  BY <1>1 DEF Cached
<1>7. CacheOK'
  <2> SUFFICES ASSUME NEW n \in Cached', n \notin missed'
               PROVE  n \in g_subscribed_params' /\ n \in subscribers' /\ Current(n, g_params[n])'
    BY DEF CacheOK
  <2>1. PICK v : v = g_params[n]
    OBVIOUS
  <2>2. n \in g_subscribed_params /\ n \in subscribers /\ Current(n, v)'
    BY <1>1, <1>6, <2>1, StillCached
  <2>3. v = g_params'[n]
    BY <1>1, <2>1
  <2> QED BY <1>1, <2>2, <2>3 DEF Current
<1>8. \A u \in Thread \ overtaken' : u # t => u \notin overtaken /\ \A n \in Key : Fetches(u, n) => n \in g_subscribed_params'
  BY <1>1 DEF CInv, FetchOK
<1> QED BY <1>1, <1>2, <1>4, <1>5, <1>6, <1>7, <1>8, Settles DEF Types

LEMMA SubscribeFailsInv ==
    ASSUME CInv, NEW t \in Thread, SubscribeFails(t)
    PROVE  CInv'
<1>1. /\ UNCHANGED <<server, updates, g_params, missed, overtaken>> /\ Types
      /\ subscribers' \in {subscribers, subscribers \union {call[t].key}}
      /\ g_subscribed_params' = g_subscribed_params \ {call[t].key}
      /\ Return(t) /\ mutex' = Nobody /\ Subscribing(t)
  BY DEF SubscribeFails, Unlock, Subscribing, CInv
<1>2. PICK k \in Key :
        /\ k = call[t].key /\ (k \in Cached => k \in missed) /\ g_subscribed_params \subseteq subscribers \union {k}
        /\ \A u \in Thread \ overtaken : ~Fetches(u, k)
        /\ \A u \in Thread : call[u].op # "set" /\ (Subscribing(u) => u = t)
  BY <1>1, Subscribes
<1>3. call' \in [Thread -> ParamCalls] /\ call'[t].op = "none" /\ \A u \in Thread : u # t => call'[u] = call[u]
  BY <1>1, Returned
<1>4. /\ \A u \in Thread : call'[u].op # "set" /\ ~Subscribing(u)'
      /\ ~Fetched(t)' /\ \A n \in Key : ~Fetches(t, n)'
  BY <1>2, <1>3 DEF Subscribing, Fetched, At, Fetches
<1>5. Cached' = Cached
  BY <1>1 DEF Cached
<1>6. CacheOK'
  <2> SUFFICES ASSUME NEW n \in Cached', n \notin missed'
               PROVE  n \in g_subscribed_params' /\ n \in subscribers' /\ Current(n, g_params[n])'
    BY DEF CacheOK
  <2>1. PICK v : v = g_params[n]
    OBVIOUS
  <2>2. n # k /\ n \in g_subscribed_params /\ n \in subscribers /\ Current(n, v)'
    BY <1>1, <1>2, <1>5, <2>1, StillCached
  <2>3. v = g_params'[n]
    BY <1>1, <2>1
  <2> QED BY <1>1, <1>2, <2>2, <2>3 DEF Current
<1>7. \A u \in Thread \ overtaken' : u # t => u \notin overtaken /\ \A n \in Key : Fetches(u, n) => n \in g_subscribed_params'
  BY <1>1, <1>2 DEF CInv, FetchOK
<1>8. subscribers \subseteq subscribers' /\ subscribers' \subseteq Key /\ g_subscribed_params' \subseteq subscribers'
  BY <1>1, <1>2 DEF Types
<1> QED BY <1>1, <1>3, <1>4, <1>5, <1>6, <1>7, <1>8, Settles DEF Types

LEMMA StoreInv ==
    ASSUME CInv, NEW t \in Thread, Store(t)
    PROVE  CInv'
<1>1. /\ UNCHANGED <<server, updates, subscribers, g_subscribed_params, mutex>> /\ Types /\ mutex = Nobody
      /\ g_params' = Keep(call[t].key, call[t].value) /\ overtaken' = overtaken \ {t}
      /\ missed' = IF t \in overtaken THEN missed \union {call[t].key} ELSE missed \ {call[t].key}
      /\ Return(t) /\ Fetched(t)
  BY DEF Store, Fetched, CInv
<1>2. PICK k, value :
        /\ k = call[t].key /\ value = call[t].value /\ k \in Key /\ value \in Reading(k) /\ Fetches(t, k)
  <2>1. call[t] \in ParamCalls /\ call[t].op = "getCached" /\ call[t].at = "fetched"
    BY <1>1 DEF Types, Fetched, At
  <2> QED BY <2>1, Forms DEF Fetches
<1>3. call' \in [Thread -> ParamCalls] /\ call'[t].op = "none" /\ \A u \in Thread : u # t => call'[u] = call[u]
  BY <1>1, Returned
<1>4. g_subscribed_params \subseteq subscribers /\ \A u \in Thread : call[u].op # "set" /\ ~Subscribing(u)
  BY <1>1, Holder
<1>5. /\ \A u \in Thread : call'[u].op # "set" /\ ~Subscribing(u)'
      /\ ~Fetched(t)' /\ \A n \in Key : ~Fetches(t, n)'
  BY <1>3, <1>4 DEF Subscribing, Fetched, At, Fetches
<1>6. /\ Cached' = Cached \union {k} /\ g_params'[k] = value
      /\ \A n \in Cached : n # k => g_params'[n] = g_params[n]
  BY <1>1, <1>2 DEF Cached, Keep
<1>7. \A n \in Cached' : g_params'[n] \in Reading(n)
  BY <1>1, <1>2, <1>6 DEF Types
<1>8. CacheOK'
  <2> SUFFICES ASSUME NEW n \in Cached', n \notin missed'
               PROVE  n \in g_subscribed_params' /\ n \in subscribers' /\ Current(n, g_params[n])'
    BY DEF CacheOK
  <2>1. CASE n = k
    <3>1. t \in Thread \ overtaken
      BY <1>1, <1>2, <2>1
    <3>2. k \in g_subscribed_params /\ k \in subscribers /\ Current(k, value)
      BY <1>1, <1>2, <3>1 DEF CInv, FetchOK
    <3>3. Current(k, value)'
      BY <1>1, <3>2, SameNews DEF CInv
    <3> QED BY <1>1, <1>6, <2>1, <3>2, <3>3 DEF Current
  <2>2. CASE n # k
    <3>1. PICK v : v = g_params[n]
      OBVIOUS
    <3>2. n \in Cached \ missed
      BY <1>1, <1>2, <1>6, <2>2
    <3>3. n \in g_subscribed_params /\ n \in subscribers /\ Current(n, v)'
      BY <1>1, <3>1, <3>2, StillCached
    <3>4. v = g_params'[n]
      BY <1>6, <2>2, <3>1, <3>2
    <3> QED BY <1>1, <3>3, <3>4 DEF Current
  <2> QED BY <2>1, <2>2
<1>9. \A u \in Thread \ overtaken' : u # t => u \notin overtaken /\ \A n \in Key : Fetches(u, n) => n \in g_subscribed_params'
  BY <1>1 DEF CInv, FetchOK
<1>10. Cached' \subseteq Key /\ missed' \subseteq Key /\ overtaken' \subseteq Thread
  BY <1>1, <1>2, <1>6 DEF Types
<1> QED BY <1>1, <1>3, <1>4, <1>5, <1>7, <1>8, <1>9, <1>10, Settles DEF Types

LEMMA DelInv ==
    ASSUME CInv, NEW t \in Thread, NEW k \in Key, Del(t, k)
    PROVE  CInv'
<1> DEFINE c == [op |-> "del", key |-> k, at |-> "ask"]
<1>1. /\ UNCHANGED <<server, updates, subscribers, mutex>> /\ Types /\ mutex = Nobody
      /\ g_subscribed_params' = g_subscribed_params \ {k} /\ g_params' = Without(g_params, {k})
      /\ overtaken' = overtaken \union {u \in Thread : call[u].op = "getCached" /\ call[u].key = k}
      /\ missed' = missed \ {k}
      /\ Begin(t, c)
  BY DEF Del, CInv
<1>2. c \in ParamCalls /\ c.op = "del"
  BY DEF ParamCalls
<1> HIDE DEF c
<1>3. call' \in [Thread -> ParamCalls] /\ call'[t] = c /\ \A u \in Thread : u # t => call'[u] = call[u]
  BY <1>1, <1>2, Begun
<1>4. g_subscribed_params \subseteq subscribers /\ \A u \in Thread : call[u].op # "set" /\ ~Subscribing(u)
  BY <1>1, Holder
<1>5. /\ \A u \in Thread : call'[u].op # "set" /\ ~Subscribing(u)'
      /\ ~Fetched(t)' /\ \A n \in Key : ~Fetches(t, n)'
  BY <1>2, <1>3, <1>4 DEF Subscribing, Fetched, At, Fetches
<1>6. Cached' = Cached \ {k} /\ \A n \in Cached' : g_params'[n] = g_params[n]
  BY <1>1 DEF Cached, Without
<1>7. \A n \in Cached' : g_params'[n] \in Reading(n)
  BY <1>1, <1>6 DEF Types
<1>8. CacheOK'
  <2> SUFFICES ASSUME NEW n \in Cached', n \notin missed'
               PROVE  n \in g_subscribed_params' /\ n \in subscribers' /\ Current(n, g_params[n])'
    BY DEF CacheOK
  <2>1. PICK v : v = g_params[n]
    OBVIOUS
  <2>2. n # k /\ n \in Cached \ missed
    BY <1>1, <1>6
  <2>3. n \in g_subscribed_params /\ n \in subscribers /\ Current(n, v)'
    BY <1>1, <2>1, <2>2, StillCached
  <2>4. v = g_params'[n]
    BY <1>6, <2>1
  <2> QED BY <1>1, <2>2, <2>3, <2>4 DEF Current
<1>9. ASSUME NEW u \in Thread \ overtaken', u # t
      PROVE  u \notin overtaken /\ \A n \in Key : Fetches(u, n) => n \in g_subscribed_params'
  <2>1. u \in Thread \ overtaken /\ ~Fetches(u, k)
    BY <1>1, <1>9 DEF Fetches
  <2>2. \A n \in Key : Fetches(u, n) => n \in g_subscribed_params
    BY <2>1 DEF CInv, FetchOK
  <2> QED BY <1>1, <2>1, <2>2
<1>10. /\ Cached' \subseteq Key /\ missed' \subseteq Key /\ overtaken' \subseteq Thread
       /\ g_subscribed_params' \subseteq subscribers'
  BY <1>1, <1>4, <1>6 DEF Types
<1> QED BY <1>1, <1>3, <1>5, <1>7, <1>8, <1>9, <1>10, Settles DEF Types

\* What is cached once a change of k is known.
LEMMA Learned ==
    ASSUME Types, NEW k \in Key, NEW value \in Reading(k), Learn(k, value)
    PROVE  /\ Cached' \subseteq Key
           /\ \A n \in Cached' :
                 /\ g_params'[n] \in Reading(n)
                 /\ n \notin Around(k) \cap g_subscribed_params
                 /\ IF n = k /\ k \in g_subscribed_params THEN g_params'[n] = value
                                                          ELSE n \in Cached /\ g_params'[n] = g_params[n]
<1>1. PICK kept : /\ kept = IF k \in g_subscribed_params THEN Keep(k, value) ELSE g_params
                  /\ g_params' = [n \in DOMAIN kept \ (Around(k) \cap g_subscribed_params) |-> kept[n]]
  BY DEF Learn, InvalidateParentParams, Without
<1>2. CASE k \in g_subscribed_params
  <2>1. kept = [n \in Cached \union {k} |-> IF n = k THEN value ELSE g_params[n]]
    BY <1>1, <1>2 DEF Keep
  <2> QED BY <1>1, <1>2, <2>1 DEF Cached, Types
<1>3. CASE k \notin g_subscribed_params
  BY <1>1, <1>3 DEF Cached, Types
<1> QED BY <1>2, <1>3

LEMMA SetDoneInv ==
    ASSUME CInv, NEW t \in Thread, SetDone(t)
    PROVE  CInv'
<1>1. PICK k, value :
        /\ k = call[t].key /\ value = call[t].value /\ k \in Key /\ value \in Reading(k)
        /\ At(t, "set", "told") /\ g_subscribed_params \subseteq subscribers
        /\ \A u \in Thread : ~Subscribing(u) /\ (call[u].op = "set" => u = t)
  BY Asking DEF SetDone
<1>2. /\ UNCHANGED <<server, updates, subscribers, g_subscribed_params>> /\ Types
      /\ Learn(k, value) /\ mutex' = Nobody /\ Return(t)
  BY <1>1 DEF SetDone, Unlock, CInv
<1>3. \/ /\ t \in overtaken /\ overtaken' = overtaken \ {t}
         /\ missed' = missed \union ({k} \cap g_subscribed_params)
      \/ /\ t \notin overtaken /\ overtaken \subseteq overtaken' /\ overtaken' \subseteq Thread
         /\ missed' = missed \ (({k} \union Around(k)) \cap g_subscribed_params)
  BY <1>1, <1>2 DEF SetDone, Overtakes, Renewed, Types
<1>4. call' \in [Thread -> ParamCalls] /\ call'[t].op = "none" /\ \A u \in Thread : u # t => call'[u] = call[u]
  BY <1>2, Returned
<1>5. /\ \A u \in Thread : call'[u].op # "set" /\ ~Subscribing(u)'
      /\ ~Fetched(t)' /\ \A n \in Key : ~Fetches(t, n)'
  BY <1>1, <1>4 DEF Subscribing, Fetched, At, Fetches
<1>6. /\ Cached' \subseteq Key
      /\ \A n \in Cached' :
            /\ g_params'[n] \in Reading(n)
            /\ n \notin Around(k) \cap g_subscribed_params
            /\ IF n = k /\ k \in g_subscribed_params THEN g_params'[n] = value
                                                     ELSE n \in Cached /\ g_params'[n] = g_params[n]
  BY <1>1, <1>2, Learned
<1>7. CacheOK'
  <2> SUFFICES ASSUME NEW n \in Cached', n \notin missed'
               PROVE  n \in g_subscribed_params' /\ n \in subscribers' /\ Current(n, g_params[n])'
    BY DEF CacheOK
  <2>1. CASE n = k /\ k \in g_subscribed_params
    <3>1. t \in Thread \ overtaken
      BY <1>3, <2>1
    <3>2. Current(k, value)
      BY <1>1, <2>1, <3>1 DEF CInv, SetOK
    <3>3. Current(k, value)'
      BY <1>2, <3>2, SameNews DEF CInv
    <3>4. g_params'[n] = value
      BY <1>6, <2>1
    <3> QED BY <1>1, <1>2, <2>1, <3>3, <3>4 DEF Current
  <2>2. CASE ~(n = k /\ k \in g_subscribed_params)
    <3>1. n \in Cached /\ g_params'[n] = g_params[n] /\ n \notin Around(k) \cap g_subscribed_params
      BY <1>6, <2>2
    <3>2. n \notin missed
      BY <1>3, <2>2, <3>1
    <3>3. PICK v : v = g_params[n]
      OBVIOUS
    <3>4. n \in g_subscribed_params /\ n \in subscribers /\ Current(n, v)'
      BY <1>2, <3>1, <3>2, <3>3, StillCached
    <3>5. v = g_params'[n]
      BY <3>1, <3>3
    <3> QED BY <1>2, <3>4, <3>5 DEF Current
  <2> QED BY <2>1, <2>2
<1>8. \A u \in Thread \ overtaken' : u # t => u \notin overtaken /\ \A n \in Key : Fetches(u, n) => n \in g_subscribed_params'
  BY <1>2, <1>3 DEF CInv, FetchOK
<1>9. missed' \subseteq Key /\ overtaken' \subseteq Thread /\ subscribers' \subseteq Key
  BY <1>1, <1>2, <1>3 DEF Types
<1> QED BY <1>1, <1>2, <1>4, <1>5, <1>6, <1>7, <1>8, <1>9, Settles

\* The first of the updates comes in: what is told of other parameters is on its way still.
LEMMA Shifted ==
    ASSUME Types, NewsOK, updates # << >>, updates' = Tail(updates), UNCHANGED <<server, subscribers>>,
           NEW m, m = Head(updates)
    PROVE  /\ m \in Message /\ m.key \in Key /\ m.value \in Reading(m.key)
           /\ updates' \in Seq(Message) /\ NewsOK'
           /\ \A n, v : Current(n, v) /\ ~About(n, m) => Current(n, v)'
           /\ m.key \in m.known => Current(m.key, m.value)'
<1>1. PICK n0 \in Nat : n0 = Len(updates) /\ DOMAIN updates = 1 .. n0 /\ n0 > 0 /\ updates \in Seq(Message)
  <2>1. updates \in Seq(Message)
    BY DEF Types
  <2> QED BY <2>1, LenProperties, EmptySeq
<1>2. /\ updates' \in Seq(Message) /\ DOMAIN updates' = 1 .. n0 - 1
      /\ \A i \in 1 .. n0 - 1 : updates'[i] = updates[i + 1]
      /\ m = updates[1]
  <2>1. Tail(updates) \in Seq(Message) /\ Len(Tail(updates)) = n0 - 1
        /\ \A i \in 1 .. n0 - 1 : Tail(updates)[i] = updates[i + 1]
    BY <1>1, HeadTailProperties
  <2>2. DOMAIN Tail(updates) = 1 .. n0 - 1
    BY <2>1, LenProperties
  <2>3. m = updates[1]
    BY <1>1, HeadTailProperties
  <2> QED BY <2>1, <2>2, <2>3
<1>3. m \in Message /\ m.key \in Key
  <2>1. 1 \in DOMAIN updates
    BY <1>1
  <2>2. m \in Message
    BY <1>1, <1>2, <2>1
  <2> QED BY <2>2 DEF Message
<1>4. \A n : ValueOf(n)' = ValueOf(n)
  BY DEF ValueOf
\* A later one is on its way still.
<1>5. ASSUME NEW i \in Nat, NEW n, NEW j \in DOMAIN updates, j > i + 1, About(n, updates[j])
      PROVE  \E l \in DOMAIN updates' : l > i /\ About(n, updates'[l])
  <2>1. PICK l \in 1 .. n0 - 1 : l = j - 1 /\ l > i /\ l + 1 = j
    BY <1>1, <1>5
  <2>2. updates'[l] = updates[j]
    BY <1>2, <2>1
  <2> QED BY <1>2, <1>5, <2>1, <2>2
<1>6. ASSUME NEW i \in DOMAIN updates
      PROVE  /\ updates[i].known \subseteq subscribers /\ updates[i].value \in Reading(updates[i].key)
             /\ updates[i].key \in updates[i].known =>
                   \/ updates[i].value = ValueOf(updates[i].key)
                   \/ \E j \in DOMAIN updates : j > i /\ About(updates[i].key, updates[j])
  BY DEF NewsOK
<1>7. m.value \in Reading(m.key)
  <2>1. 1 \in DOMAIN updates
    BY <1>1
  <2> QED BY <1>2, <1>6, <2>1
<1>8. ASSUME m.key \in m.known PROVE Current(m.key, m.value)'
  <2>1. 1 \in DOMAIN updates
    BY <1>1
  <2>2. PICK k, v : k = m.key /\ v = m.value
    OBVIOUS
  <2>3. v = ValueOf(k) \/ \E j \in DOMAIN updates : j > 1 /\ About(k, updates[j])
    BY <1>2, <1>6, <1>8, <2>1, <2>2
  <2>4. CASE \E j \in DOMAIN updates : j > 1 /\ About(k, updates[j])
    <3>1. PICK j \in DOMAIN updates : j > 0 + 1 /\ About(k, updates[j])
      BY <2>4
    <3>2. \E l \in DOMAIN updates' : About(k, updates'[l])
      BY <1>5, <3>1
    <3> QED BY <2>2, <3>2 DEF Current, NewsFor, About
  <2> QED BY <1>4, <2>2, <2>3, <2>4 DEF Current
<1>9. ASSUME NEW n, NEW v, Current(n, v), ~About(n, m) PROVE Current(n, v)'
  <2>1. CASE NewsFor(n)
    <3>1. PICK j \in DOMAIN updates : About(n, updates[j])
      BY <2>1 DEF NewsFor, About
    <3>2. j > 0 + 1
      BY <1>1, <1>2, <1>9, <3>1
    <3>3. \E l \in DOMAIN updates' : About(n, updates'[l])
      BY <1>5, <3>1, <3>2
    <3> QED BY <3>3 DEF Current, NewsFor, About
  <2> QED BY <1>4, <1>9, <2>1 DEF Current
<1>10. NewsOK'
  <2> SUFFICES ASSUME NEW i \in DOMAIN updates', NEW w, w = updates'[i]
               PROVE  /\ w.known \subseteq subscribers' /\ w.value \in Reading(w.key)
                      /\ w.key \in w.known =>
                            \/ w.value = ValueOf(w.key)'
                            \/ \E j \in DOMAIN updates' : j > i /\ About(w.key, updates'[j])
    BY DEF NewsOK, ValueOf
  <2>1. i \in Nat /\ i + 1 \in DOMAIN updates /\ w = updates[i + 1]
    BY <1>1, <1>2
  <2>2. /\ w.known \subseteq subscribers /\ w.value \in Reading(w.key)
        /\ w.key \in w.known =>
              w.value = ValueOf(w.key) \/ \E j \in DOMAIN updates : j > i + 1 /\ About(w.key, updates[j])
    BY <1>6, <2>1
  <2> QED BY <1>4, <1>5, <2>1, <2>2
<1> QED BY <1>2, <1>3, <1>7, <1>8, <1>9, <1>10

\* The news of a change reaches the cache.
LEMMA UpdateInv ==
    ASSUME CInv, Update
    PROVE  CInv'
<1>1. PICK m : m = Head(updates)
  OBVIOUS
<1>2. /\ UNCHANGED <<server, subscribers, g_subscribed_params, mutex, call>> /\ mutex = Nobody
      /\ Types /\ NewsOK /\ updates # << >> /\ updates' = Tail(updates)
      /\ Learn(m.key, m.value) /\ Overtakes(m.key)
      /\ missed' = (missed \ Renewed(m.key)) \union (ParentsOf(m.key) \cap {Root})
                     \union (({m.key} \cap g_subscribed_params) \ m.known)
  BY <1>1 DEF Update, CInv
<1>3. /\ m.key \in Key /\ m.value \in Reading(m.key) /\ updates' \in Seq(Message) /\ NewsOK'
      /\ \A n, v : Current(n, v) /\ ~About(n, m) => Current(n, v)'
      /\ m.key \in m.known => Current(m.key, m.value)'
  BY <1>1, <1>2, Shifted
<1>4. PICK k, value : k = m.key /\ value = m.value
  OBVIOUS
<1>5. /\ k \in Key /\ value \in Reading(k) /\ Learn(k, value) /\ Overtakes(k)
      /\ missed' = (missed \ (({k} \union Around(k)) \cap g_subscribed_params)) \union (ParentsOf(k) \cap {Root})
                     \union (({k} \cap g_subscribed_params) \ m.known)
      /\ \A n, v : Current(n, v) /\ n # k /\ n \notin ParentsOf(k) => Current(n, v)'
  BY <1>2, <1>3, <1>4 DEF Renewed, About
<1>6. k \in m.known => Current(k, value)'
  <2>1. k \in m.known => Current(m.key, m.value)'
    BY <1>3, <1>4
  <2>2. m.key = k /\ m.value = value
    BY <1>4
  <2> QED BY <2>1, <2>2
<1>7. g_subscribed_params \subseteq subscribers /\ \A u \in Thread : call[u].op # "set" /\ ~Subscribing(u)
  BY <1>2, Holder
<1>8. /\ Cached' \subseteq Key
      /\ \A n \in Cached' :
            /\ g_params'[n] \in Reading(n)
            /\ n \notin Around(k) \cap g_subscribed_params
            /\ IF n = k /\ k \in g_subscribed_params THEN g_params'[n] = value
                                                     ELSE n \in Cached /\ g_params'[n] = g_params[n]
  BY <1>2, <1>5, Learned
<1>9. /\ overtaken' = overtaken \union {u \in Thread : /\ call[u].op = "getCached" /\ call[u].at = "fetched"
                                                       /\ call[u].key \in {k} \union ParentsOf(k)}
      /\ overtaken' \subseteq Thread /\ missed' \subseteq Key
  <2>1. ParentsOf(k) \subseteq Key
    BY <1>5, KeySets
  <2> QED BY <1>2, <1>5, <2>1 DEF Overtakes, Types
<1>10. Types'
  BY <1>2, <1>3, <1>8, <1>9 DEF Types
<1>11. MutexHeld' /\ SetOK' /\ SubscribedOK'
  <2>1. \A u \in Thread : call'[u].op # "set" /\ ~Subscribing(u)'
    BY <1>2, <1>7 DEF Subscribing, At
  <2> QED BY <1>2, <1>7, <2>1 DEF MutexHeld, SetOK, SubscribedOK, At
<1>12. CacheOK'
  <2> SUFFICES ASSUME NEW n \in Cached', n \notin missed'
               PROVE  n \in g_subscribed_params' /\ n \in subscribers' /\ Current(n, g_params[n])'
    BY DEF CacheOK
  <2>1. CASE n = k /\ k \in g_subscribed_params
    <3>1. k \in m.known
      BY <1>5, <2>1
    <3>2. g_params'[n] = value
      BY <1>8, <2>1
    <3>3. Current(k, value)'
      BY <1>6, <3>1
    <3> QED BY <1>2, <1>7, <2>1, <3>2, <3>3 DEF Current
  <2>2. CASE ~(n = k /\ k \in g_subscribed_params)
    <3>1. n \in Cached /\ g_params'[n] = g_params[n] /\ n \notin Around(k) \cap g_subscribed_params
      BY <1>8, <2>2
    <3>2. n \notin missed
      BY <1>5, <2>2, <3>1
    <3>3. PICK v : v = g_params[n]
      OBVIOUS
    <3>4. n \in g_subscribed_params /\ n \in subscribers /\ Current(n, v)
      BY <3>1, <3>2, <3>3 DEF CInv, CacheOK
    <3>5. n # k /\ n \notin ParentsOf(k)
      <4>1. n # k
        BY <2>2, <3>4
      <4>2. n # Root \/ n \notin ParentsOf(k)
        BY <1>5
      <4> QED BY <3>1, <3>4, <4>1, <4>2 DEF Around
    <3>6. Current(n, v)'
      BY <1>5, <3>4, <3>5
    <3>7. v = g_params'[n]
      BY <3>1, <3>3
    <3> QED BY <1>2, <3>4, <3>6, <3>7 DEF Current
  <2> QED BY <2>1, <2>2
<1>13. FetchOK'
  <2>1. \A u \in Thread : (Fetched(u)' <=> Fetched(u)) /\ \A n : Fetches(u, n)' <=> Fetches(u, n)
    BY <1>2 DEF Fetched, At, Fetches
  <2>2. \A u \in Thread \ overtaken' : \A n \in Key : Fetches(u, n)' => n \in g_subscribed_params' /\ n \in subscribers'
    BY <1>2, <1>9, <2>1 DEF CInv, FetchOK
  <2>3. ASSUME NEW u \in Thread \ overtaken', Fetched(u)' PROVE Current(call[u].key, call[u].value)'
    <3>1. u \in Thread \ overtaken /\ Fetched(u)
      BY <1>9, <2>1, <2>3
    <3>2. PICK n, v : n = call[u].key /\ v = call[u].value
      OBVIOUS
    <3>3. Current(n, v)
      BY <3>1, <3>2 DEF CInv, FetchOK
    <3>4. n # k /\ n \notin ParentsOf(k)
      BY <1>9, <2>3, <3>1, <3>2 DEF Fetched, At
    <3>5. Current(n, v)'
      BY <1>5, <3>3, <3>4
    <3>6. n = call'[u].key /\ v = call'[u].value
      BY <1>2, <3>2
    <3> QED BY <3>5, <3>6 DEF Current
  <2> QED BY <2>2, <2>3 DEF FetchOK
<1> QED BY <1>3, <1>10, <1>11, <1>12, <1>13 DEF CInv

-----------------------------------------------------------------------------
(* The node.                                                                    *)
LEMMA InitInv == Init => CInv
<1> SUFFICES ASSUME Init PROVE CInv
  OBVIOUS
<1>1. PICK b \in Bounds : bound = b /\ server = [l \in Leaf |-> b.first]
  BY DEF Init, ParamInit
<1>2. /\ subscribers = {} /\ updates = << >> /\ g_params = << >> /\ g_subscribed_params = {}
      /\ mutex = Nobody /\ call = [t \in Thread |-> Idle] /\ overtaken = {} /\ missed = {}
  BY DEF Init, ParamInit
<1>3. \A t \in Thread : call[t] = Idle /\ call[t].op = "none"
  BY <1>2 DEF Idle
<1>4. server \in [Leaf -> Value \union {NoValue}]
  BY <1>1, KeysAssumption
<1>5. updates \in Seq(Message) /\ DOMAIN updates = {} /\ Cached = {}
  <2>1. << >> \in Seq(Message) /\ DOMAIN << >> = {}
    BY EmptySeq
  <2> QED BY <1>2, <2>1 DEF Cached
<1>6. Types
  BY <1>2, <1>4, <1>5 DEF Types, ParamCalls
<1>7. MutexHeld /\ SubscribedOK /\ CacheOK /\ FetchOK /\ SetOK
  BY <1>2, <1>3, <1>5 DEF MutexHeld, SubscribedOK, CacheOK, FetchOK, SetOK, Subscribing, Fetched, Fetches, At
<1>8. NewsOK
  BY <1>5 DEF NewsOK
<1> QED BY <1>6, <1>7, <1>8 DEF CInv

\* Where the cache, the server and the calls are as they were.
LEMMA ParamsUnchanged ==
    ASSUME CInv, UNCHANGED paramVars
    PROVE  CInv'
<1>1. UNCHANGED <<server, subscribers, updates, g_params, g_subscribed_params, mutex, call, overtaken, missed>>
  BY DEF paramVars
<1>2. Types' /\ MutexHeld'
  BY <1>1 DEF CInv, Types, MutexHeld, Subscribing, At, Cached
<1>3. SubscribedOK' /\ CacheOK'
  BY <1>1 DEF CInv, SubscribedOK, CacheOK, Subscribing, At, Fetches, Cached, Current, ValueOf, NewsFor
<1>4. FetchOK' /\ SetOK'
  BY <1>1 DEF CInv, FetchOK, SetOK, At, Fetches, Fetched, Current, ValueOf, NewsFor
<1>5. NewsOK'
  BY <1>1 DEF CInv, NewsOK, About, ValueOf
<1> QED BY <1>2, <1>3, <1>4, <1>5 DEF CInv

LEMMA ParamCallInv ==
    ASSUME CInv, NEW t \in Thread, ParamCall(t)
    PROVE  CInv'
<1>1. PICK k \in Key : \/ \E value \in ValuesOf(k) \ {None(k)} : Set(t, k, value)
                       \/ GetCached(t, k)
                       \/ Del(t, k)
  BY DEF ParamCall
<1> QED BY <1>1, SetInv, GetCachedInv, DelInv

LEMMA ContinueInv ==
    ASSUME CInv, NEW t \in Thread, Continue(t)
    PROVE  CInv'
BY SetOnServerInv, SetRefusedInv, SetGivesUpInv, SetDoneInv, SubscribeInv, SubscribeFailsInv,
   FetchInv, StoreInv, DelOnServerInv DEF Continue

\* start() and shutdown() leave the cache alone.
LEMMA StartAndShutdown ==
    ASSUME NEW c, StartStep(c) \/ ShutStep(c)
    PROVE  UNCHANGED paramVars
<1>1. CASE StartStep(c)
  BY <1>1 DEF StartStep, Start, StartListeners, StartManagers, StartPoll, StartXmlrpc,
     StartRosout, StartServices, StartRegistered, StartClock, StartInternal, StartEnd
<1>2. CASE ShutStep(c)
  BY <1>2 DEF ShutStep, Shut, ShutInternal, ShutTopics, ShutUnbind, ShutUnbinding,
     ShutUnregister, ShutServices, ShutPoll, ShutPollJoin, ShutXmlrpc, ShutXmlrpcJoin, ShutDone
<1> QED BY <1>1, <1>2

LEMMA NodeStep ==
    ASSUME CInv, [Next]_vars
    PROVE  CInv'
<1>1. ASSUME NEW t \in Thread, Calls(t) PROVE CInv'
  <2>1. CASE Construct(t) \/ Destruct(t) \/ CallStart(t) \/ CallShutdown(t)
    BY <2>1, ParamsUnchanged DEF Construct, Destruct, CallStart, CallShutdown
  <2>2. CASE ParamCall(t)
    BY <2>2, ParamCallInv
  <2> QED BY <1>1, <2>1, <2>2 DEF Calls
<1>2. ASSUME NEW t \in Thread, ThreadStep(t) PROVE CInv'
  <2>1. CASE StartStep(t) \/ ShutStep(t)
    BY <2>1, StartAndShutdown, ParamsUnchanged
  <2>2. CASE Constructed(t) \/ Destructed(t)
    BY <2>2, ParamsUnchanged DEF Constructed, Destructed
  <2>3. CASE Continue(t)
    BY <2>3, ContinueInv
  <2> QED BY <1>2, <2>1, <2>2, <2>3 DEF ThreadStep
<1>3. CASE RequestShutdown \/ InternalEnds
  BY <1>3, ParamsUnchanged DEF RequestShutdown, InternalEnds
<1>4. CASE OtherNodes
  BY <1>4, OtherNodeInv DEF OtherNodes
<1>5. CASE PollStep
  <2>1. CASE PollLoop \/ CheckForShutdown \/ Checked
    BY <2>1, ParamsUnchanged DEF PollLoop, CheckForShutdown, Checked
  <2>2. CASE ShutStep(Poll)
    BY <2>2, StartAndShutdown, ParamsUnchanged
  <2> QED BY <1>5, <2>1, <2>2 DEF PollStep
<1>6. CASE ServerStep
  <2>1. CASE ServerLoop \/ ServerWorked
    BY <2>1, ParamsUnchanged DEF ServerLoop, ServerWorked
  <2>2. CASE ServerUpdate
    BY <2>2, UpdateInv DEF ServerUpdate
  <2> QED BY <1>6, <2>1, <2>2 DEF ServerStep
<1>7. CASE UNCHANGED vars
  BY <1>7, ParamsUnchanged DEF vars
<1> QED BY <1>1, <1>2, <1>3, <1>4, <1>5, <1>6, <1>7 DEF Next

LEMMA ParamTypes == CInv => ParamTypeOK
<1> SUFFICES ASSUME CInv PROVE ParamTypeOK
  OBVIOUS
<1>1. updates \in Seq(Message) /\ \A i \in DOMAIN updates : updates[i] \in Message
  <2>1. updates \in Seq(Message)
    BY DEF CInv, Types
  <2> QED BY <2>1, LenProperties
<1> QED BY <1>1 DEF CInv, Types, ParamTypeOK

\* What getCached() serves is the server's value, or news of the difference is on its way,
\* for every tree of names, every number of threads and every order of their calls; what is
\* cached of the root apart, once a paramUpdate of something below it has come in.
THEOREM CacheFollowsTheServer == Spec => []CacheFollowsServer
<1>1. CInv => CacheFollowsServer
  <2> SUFFICES ASSUME CInv PROVE StaleOnlyWithNews
    BY DEF CacheFollowsServer
  <2>1. ParamTypeOK
    BY ParamTypes
  <2>2. \A k \in g_subscribed_params \cap Cached : g_params[k] = ValueOf(k) \/ NewsFor(k) \/ k \in missed
    BY DEF CInv, CacheOK, Current
  <2> QED BY <2>1, <2>2 DEF StaleOnlyWithNews
<1>2. Init => CInv
  BY InitInv
<1>3. CInv /\ [Next]_vars => CInv'
  BY NodeStep
<1> QED BY <1>1, <1>2, <1>3, PTL DEF Spec

-----------------------------------------------------------------------------
(* The inductive invariant of the node's threads and handles.                   *)
StartLabels == StartingThreads \union
    {"start_rosout", "start_services", "start_registering", "start_clock", "start_internal", "start_end"}
ShutLabels ==
    {"shut_internal", "shut_topics", "shut_unbind", "shut_unbinding", "shut_unregister", "shut_services", "shut_poll",
     "shut_poll_join", "shut_xmlrpc", "shut_xmlrpc_join", "shut_done", "crashed"}
ThreadLabels == {"idle", "start", "constructed", "destructed", "shut"} \union StartLabels \union ShutLabels
PollLabels == {"ended", "loop", "signal", "checked", "shut"} \union ShutLabels

\* Nobody is at one of the labels.
NotAt(labels) == \A c \in Caller : at[c] \notin labels

\* A thread that is about to have a handle, or has given up the last one.
Constructing(t) == at[t] = "constructed" \/ (at[t] \in {"start"} \union StartLabels /\ back[t] = "constructed")
Destructing(t) == at[t] \in {"shut"} \union ShutLabels /\ back[t] = "destructed"

NodeTypes ==
    /\ lock \in [Mutex -> Caller \union {Server, Nobody}]
    /\ handles \subseteq Thread /\ IsFiniteSet(handles) /\ g_nh_refcount = Cardinality(handles)
    /\ running \subseteq {Poll, Server, Internal} /\ shutting_down_ \subseteq Manager
    /\ functions_ \subseteq {"paramUpdate", "shutdown", "topics"}
    /\ g_started \in BOOLEAN /\ g_shutting_down \in BOOLEAN /\ constructed \in BOOLEAN
    /\ asked \in BOOLEAN /\ cutShort \in BOOLEAN /\ overlap \in BOOLEAN

Places ==
    /\ DOMAIN at = Caller \union {Server} /\ DOMAIN back = Caller
    /\ \A t \in Thread :
          /\ at[t] \in ThreadLabels /\ back[t] \in {"idle", "constructed", "destructed"}
          /\ at[t] \in {"start"} \union StartLabels => back[t] # "destructed"
          /\ at[t] \in {"shut"} \union ShutLabels => back[t] # "constructed"
    /\ at[Poll] \in PollLabels /\ back[Poll] \in {"idle", "loop", "checked"}
    /\ at[Poll] \in {"shut"} \union ShutLabels => back[Poll] = "checked"

\* Who starts, shuts down, constructs or destructs holds the mutex of that.
NodeMutexes ==
    /\ \A c \in Caller : /\ at[c] \in StartLabels => lock["start"] = c
                         /\ at[c] \in ShutLabels => lock["shutting_down"] = c
    /\ \A t \in Thread : Constructing(t) \/ Destructing(t) \/ at[t] = "destructed" => lock["nh_refcount"] = t

Counted ==
    \A t \in Thread : /\ Destructing(t) => handles = {}
                      /\ Constructing(t) => t \notin handles

\* The managers there are, and the lives of a node.
Lives ==
    /\ running # {} \/ ~NotAt(StartLabels \ {"start_listeners", "start_managers"}) => constructed
    /\ ~overlap =>
          /\ ~g_started /\ ~g_shutting_down => ~constructed /\ NotAt(StartLabels)
          /\ ~NotAt(ShutLabels) => g_shutting_down
          /\ ~cutShort /\ g_shutting_down => NotAt(StartingThreads)

\* What start() has done.
StartOK ==
    ~overlap /\ g_started /\ ~g_shutting_down =>
        /\ NotAt({"start_listeners", "start_managers"}) =>
              constructed /\ {"topics", "services"} \cap shutting_down_ = {}
        /\ NotAt({"start_listeners", "start_managers", "start_poll"}) =>
              Poll \in running /\ "poll" \notin shutting_down_
        /\ NotAt(StartingThreads) => Server \in running /\ "xmlrpc" \notin shutting_down_
        /\ NotAt(StartLabels \ {"start_end"}) => Internal \in running

\* What shutdown() has done.
Down(label) ==
    CASE label \in {"shut_internal", "shut_topics"} -> {}
      [] label \in {"shut_unbind", "shut_unbinding", "shut_unregister", "shut_services"} -> {"topics"}
      [] label = "shut_poll" -> {"topics", "services"}
      [] label \in {"shut_poll_join", "shut_xmlrpc"} -> {"topics", "services", "poll"}
      [] OTHER -> Manager
ShutOK ==
    ~overlap /\ ~cutShort /\ g_shutting_down /\ constructed =>
        /\ NotAt(ShutLabels) => shutting_down_ = Manager /\ functions_ = {}
        /\ \A c \in Caller :
              /\ at[c] \in ShutLabels => at[c] # "crashed" /\ shutting_down_ = Down(at[c])
              /\ at[c] = "shut_internal" => g_started
              /\ at[c] = "shut_done" => functions_ = {}

\* While nobody has asked for a shutdown only who has given up the last handle shuts down.
Unasked ==
    ~overlap /\ ~asked =>
        /\ handles # {} \/ (\E t \in Thread : Constructing(t) /\ at[t] # "start") => g_started /\ ~g_shutting_down
        /\ g_started /\ g_shutting_down => \E t \in Thread : at[t] \in ShutLabels /\ back[t] = "destructed"
        /\ \A c \in Caller : at[c] \in ShutLabels => c \in Thread /\ back[c] = "destructed"

NInv == NodeTypes /\ Places /\ NodeMutexes /\ Counted /\ Lives /\ StartOK /\ ShutOK /\ Unasked

-----------------------------------------------------------------------------
(* The mutexes.                                                                 *)

\* A mutex that changes hands.
LEMMA Locking ==
    ASSUME NodeTypes, NEW m \in Mutex, NEW c \in Caller \union {Server, Nobody}, lock' = [lock EXCEPT ![m] = c]
    PROVE  /\ lock' \in [Mutex -> Caller \union {Server, Nobody}] /\ lock'[m] = c
           /\ \A n \in Mutex : n # m => lock'[n] = lock[n]
BY DEF NodeTypes

LEMMA Somebody == Nobody \notin Caller /\ Poll \notin Thread /\ Server \notin Caller
BY KeysAssumption, NodeAssumption DEF Caller, Poll, Server

-----------------------------------------------------------------------------
(* start(), step by step.                                                       *)
LEMMA StartReturnsRuns ==
    ASSUME NInv, NEW c \in Caller, Start(c), g_started
    PROVE  NInv'
<1> USE Somebody DEF Start, To, Free, Locks, flags, nodeHandles, managers, histories
<1>0. /\ at' = [at EXCEPT ![c] = back[c]] /\ at[c] = "start"
      /\ UNCHANGED <<flags, lock, histories, back, nodeHandles, managers>>
  OBVIOUS
<1> c \in Thread /\ at'[c] = back[c] /\ back[c] \in {"idle", "constructed"} /\ at[c] = "start"
    /\ \A d \in Caller : d # c => at'[d] = at[d]
  BY <1>0 DEF NInv, Places, PollLabels, ShutLabels, Caller
<1>1. NodeTypes'
  BY DEF NInv, NodeTypes
<1>2. Places'
  BY DEF NInv, Places, ThreadLabels, PollLabels, ShutLabels, Caller
<1>3. NodeMutexes'
  BY DEF NInv, NodeMutexes, Constructing, Destructing, StartLabels, ShutLabels, StartingThreads,
    Caller
<1>4. Counted'
  BY DEF NInv, Counted, Constructing, Destructing, Caller
<1>5. Lives'
  BY DEF NInv, Lives, NotAt, StartLabels, ShutLabels, StartingThreads
<1>6. StartOK'
  BY DEF NInv, StartOK, NotAt, StartLabels, StartingThreads
<1>7. ShutOK'
  <2>1. \A d \in Caller : at'[d] \in ShutLabels \/ at[d] \in ShutLabels => at'[d] = at[d]
    BY DEF ShutLabels
  <2>2. \A d \in Caller : at'[d] \in {"shut_internal", "shut_done"} => at'[d] \in ShutLabels
    BY DEF ShutLabels
  <2> QED BY <1>0, <2>1, <2>2 DEF NInv, ShutOK, NotAt
<1>8. Unasked'
  BY DEF NInv, Unasked, Constructing, Destructing, Counted, NodeMutexes, NotAt, Lives, Places,
    StartLabels, ShutLabels, StartingThreads, Caller
<1> QED BY <1>1, <1>2, <1>3, <1>4, <1>5, <1>6, <1>7, <1>8 DEF NInv

LEMMA StartBeginsRuns ==
    ASSUME NInv, NEW c \in Caller, Start(c), ~g_started
    PROVE  NInv'
<1> USE Somebody DEF Start, To, Free, Locks, flags, nodeHandles, managers, histories
<1>0. /\ at' = [at EXCEPT ![c] = "start_listeners"] /\ at[c] = "start" /\ UNCHANGED <<back, nodeHandles, managers>>
      /\ lock["start"] = Nobody /\ lock' = [lock EXCEPT !["start"] = c]
      /\ g_started' = TRUE /\ g_shutting_down' = FALSE /\ asked' = FALSE /\ cutShort' = FALSE
      /\ overlap' = (running # {} \/ lock["shutting_down"] # Nobody)
  OBVIOUS
<1> c \in Thread /\ at'[c] = "start_listeners" /\ at[c] = "start" /\ \A d \in Caller : d # c => at'[d] = at[d]
  BY <1>0 DEF NInv, Places, PollLabels, ShutLabels, Caller
<1> /\ lock' \in [Mutex -> Caller \union {Server, Nobody}] /\ lock'["start"] = c
    /\ \A n \in Mutex : n # "start" => lock'[n] = lock[n]
  BY <1>0, Locking DEF NInv, Mutex
<1>1. NodeTypes'
  BY DEF NInv, NodeTypes
<1>2. Places'
  BY DEF NInv, Places, ThreadLabels, PollLabels, StartLabels, ShutLabels, StartingThreads, Caller
<1>3. NodeMutexes'
  BY DEF NInv, NodeMutexes, Mutex, Constructing, Destructing, ShutLabels, Caller
<1>4. Counted'
  BY DEF NInv, Counted, Constructing, Destructing, ShutLabels, Caller
<1>5. Lives'
  <2>1. NotAt(StartLabels \ {"start_listeners", "start_managers"}) =>
          NotAt(StartLabels \ {"start_listeners", "start_managers"})'
    BY DEF NotAt
  <2>2. ~overlap' => \A d \in Caller : at[d] \notin ShutLabels /\ at'[d] \notin ShutLabels
    BY <1>0 DEF NInv, NodeMutexes, ShutLabels
  <2> QED BY <1>0, <2>1, <2>2 DEF NInv, Lives, NotAt
<1>6. StartOK'
  BY DEF NInv, StartOK, NotAt, StartLabels, StartingThreads
<1>7. ShutOK'
  BY DEF NInv, ShutOK
<1>8. Unasked'
  <2>1. ~overlap' => \A d \in Caller : at'[d] \notin ShutLabels
    BY <1>0 DEF NInv, NodeMutexes, ShutLabels
  <2> QED BY <1>0, <2>1 DEF Unasked
<1> QED BY <1>1, <1>2, <1>3, <1>4, <1>5, <1>6, <1>7, <1>8 DEF NInv

LEMMA StartListenersRuns ==
    ASSUME NInv, NEW c \in Caller, StartListeners(c)
    PROVE  NInv'
<1> USE Somebody DEF StartListeners, Go, To, Free, flags, nodeHandles, histories
<1>1. NodeTypes'
  BY DEF NInv, NodeTypes
<1>2. Places'
  BY DEF NInv, Places, ThreadLabels, PollLabels, StartLabels, ShutLabels, StartingThreads
<1>3. NodeMutexes'
  BY DEF NInv, NodeMutexes, Constructing, Destructing, StartLabels, ShutLabels, StartingThreads
<1>4. Counted'
  BY DEF NInv, Counted, Constructing, Destructing, StartLabels, ShutLabels, StartingThreads
<1>5. Lives'
  BY DEF NInv, Lives, NotAt, StartLabels, ShutLabels, StartingThreads
<1>6. StartOK'
  BY DEF NInv, StartOK, NotAt, StartLabels, StartingThreads
<1>7. ShutOK'
  BY DEF NInv, ShutOK, NotAt, Lives, StartingThreads
<1>8. Unasked'
  BY DEF NInv, Unasked, Constructing, Destructing, Counted, NodeMutexes, NotAt, Lives, Places,
    StartLabels, ShutLabels, StartingThreads, Caller
<1> QED BY <1>1, <1>2, <1>3, <1>4, <1>5, <1>6, <1>7, <1>8 DEF NInv

LEMMA StartManagersRuns ==
    ASSUME NInv, NEW c \in Caller, StartManagers(c)
    PROVE  NInv'
<1> USE Somebody DEF StartManagers, Go, To, Free, flags, nodeHandles, histories
<1>1. NodeTypes'
  BY DEF NInv, NodeTypes
<1>2. Places'
  BY DEF NInv, Places, ThreadLabels, PollLabels, StartLabels, ShutLabels, StartingThreads
<1>3. NodeMutexes'
  BY DEF NInv, NodeMutexes, Constructing, Destructing, StartLabels, ShutLabels, StartingThreads
<1>4. Counted'
  BY DEF NInv, Counted, Constructing, Destructing, StartLabels, ShutLabels, StartingThreads
<1>5. Lives'
  BY DEF NInv, Lives, NotAt, StartLabels, ShutLabels, StartingThreads
<1>6. StartOK'
  BY DEF NInv, StartOK, NotAt, StartLabels, StartingThreads
<1>7. ShutOK'
  BY DEF NInv, ShutOK, NotAt, Lives, StartingThreads
<1>8. Unasked'
  BY DEF NInv, Unasked, Constructing, Destructing, Counted, NodeMutexes, NotAt, Lives, Places,
    StartLabels, ShutLabels, StartingThreads, Caller
<1> QED BY <1>1, <1>2, <1>3, <1>4, <1>5, <1>6, <1>7, <1>8 DEF NInv

LEMMA StartPollRuns ==
    ASSUME NInv, NEW c \in Caller, StartPoll(c)
    PROVE  NInv'
<1> USE Somebody DEF StartPoll, flags, nodeHandles, histories
<1>0. /\ c \in Thread /\ c # Poll /\ at'[c] = "start_xmlrpc" /\ at'[Poll] = IF Poll \in running THEN at[Poll] ELSE "loop"
      /\ \A d \in Caller : d # c /\ d # Poll => at'[d] = at[d]
  BY DEF NInv, Places, PollLabels, ShutLabels, Caller
<1>1. NodeTypes'
  BY DEF NInv, NodeTypes
<1>2. Places'
  BY DEF NInv, Places, ThreadLabels, PollLabels, StartLabels, ShutLabels, StartingThreads, Caller
<1>3. NodeMutexes'
  BY DEF NInv, NodeMutexes, Constructing, Destructing, Places, StartLabels, ShutLabels,
    StartingThreads, Caller
<1>4. Counted'
  BY DEF NInv, Counted, Constructing, Destructing, Places, StartLabels, StartingThreads, Caller
<1>5. Lives'
  BY DEF NInv, Lives, NotAt, Places, StartLabels, ShutLabels, StartingThreads
<1>6. StartOK'
  <2>1. at[c] = "start_poll" /\ at[c] \in StartLabels /\ lock["start"] = c
    BY DEF NInv, NodeMutexes, StartLabels, StartingThreads
  <2>2. \A L : (L \subseteq StartLabels /\ NotAt(L)' /\ "start_poll" \notin L) => NotAt(L)
    <3>1. \A L : L \subseteq StartLabels => "loop" \notin L /\ at[Poll] \notin L
      BY DEF NInv, Places, PollLabels, ShutLabels, StartLabels, StartingThreads
    <3> QED BY <1>0, <2>1, <3>1 DEF NotAt
  <2> QED BY <1>0, <2>1, <2>2 DEF NInv, StartOK, Lives, NotAt, StartLabels, StartingThreads, Caller
<1>7. ShutOK'
  BY DEF NInv, ShutOK, NotAt, Lives, StartingThreads
<1>8. Unasked'
  BY DEF NInv, Unasked, Constructing, Destructing, Counted, NodeMutexes, NotAt, Lives, Places,
    StartLabels, ShutLabels, StartingThreads, Caller
<1> QED BY <1>1, <1>2, <1>3, <1>4, <1>5, <1>6, <1>7, <1>8 DEF NInv

LEMMA StartXmlrpcRuns ==
    ASSUME NInv, NEW c \in Caller, StartXmlrpc(c)
    PROVE  NInv'
<1> USE Somebody DEF StartXmlrpc, Free, flags, nodeHandles, histories
<1>0. /\ c \in Thread /\ c # Server /\ at'[c] = "start_rosout" /\ at[c] = "start_xmlrpc"
      /\ \A d \in Caller : d # c => at'[d] = at[d]
  BY DEF NInv, Places, PollLabels, ShutLabels, Caller, Poll, Server
<1>1. NodeTypes'
  BY DEF NInv, NodeTypes
<1>2. Places'
  BY DEF NInv, Places, ThreadLabels, PollLabels, StartLabels, ShutLabels, Caller
<1>3. NodeMutexes'
  BY DEF NInv, NodeMutexes, Constructing, Destructing, Places, StartLabels, ShutLabels,
    StartingThreads, Caller
<1>4. Counted'
  BY DEF NInv, Counted, Constructing, Destructing, Places, StartLabels, StartingThreads, Caller
<1>5. Lives'
  BY DEF NInv, Lives, NotAt, Places, StartLabels, ShutLabels, StartingThreads
<1>6. StartOK'
  BY <1>0 DEF NInv, StartOK, Lives, NotAt, StartLabels, StartingThreads, Caller
<1>7. ShutOK'
  BY DEF NInv, ShutOK, NotAt, Lives, StartingThreads
<1>8. Unasked'
  BY DEF NInv, Unasked, Constructing, Destructing, Counted, NodeMutexes, NotAt, Lives, Places,
    StartLabels, ShutLabels, StartingThreads, Caller
<1> QED BY <1>1, <1>2, <1>3, <1>4, <1>5, <1>6, <1>7, <1>8 DEF NInv

LEMMA StartRosoutRuns ==
    ASSUME NInv, NEW c \in Caller, StartRosout(c)
    PROVE  NInv'
<1> USE Somebody DEF StartRosout, Go, To, flags, nodeHandles, managers, histories
<1>1. NodeTypes'
  BY DEF NInv, NodeTypes
<1>2. Places'
  BY DEF NInv, Places, ThreadLabels, PollLabels, StartLabels, ShutLabels
<1>3. NodeMutexes'
  BY DEF NInv, NodeMutexes, Constructing, Destructing, StartLabels, ShutLabels
<1>4. Counted'
  BY DEF NInv, Counted, Constructing, Destructing, StartLabels, ShutLabels
<1>5. Lives'
  BY DEF NInv, Lives, NotAt, StartLabels, ShutLabels, StartingThreads
<1>6. StartOK'
  BY DEF NInv, StartOK, NotAt, StartLabels, StartingThreads
<1>7. ShutOK'
  BY DEF NInv, ShutOK, NotAt, ShutLabels
<1>8. Unasked'
  BY DEF NInv, Unasked, Constructing, Destructing, Counted, NodeMutexes, NotAt, Lives, Places,
    StartLabels, ShutLabels, StartingThreads, Caller
<1> QED BY <1>1, <1>2, <1>3, <1>4, <1>5, <1>6, <1>7, <1>8 DEF NInv

LEMMA StartServicesRuns ==
    ASSUME NInv, NEW c \in Caller, StartServices(c)
    PROVE  NInv'
<1> USE Somebody DEF StartServices, Go, To, Free, Locks, flags, nodeHandles, managers, histories
<1>1. NodeTypes'
  BY DEF NInv, NodeTypes
<1>2. Places'
  BY DEF NInv, Places, ThreadLabels, PollLabels, StartLabels, ShutLabels, Caller
<1>3. NodeMutexes'
  BY DEF NInv, NodeMutexes, NodeTypes, Mutex, Constructing, Destructing, Places, StartLabels,
    ShutLabels, Caller
<1>4. Counted'
  BY DEF NInv, Counted, Constructing, Destructing, Places, StartLabels, Caller
<1>5. Lives'
  BY DEF NInv, Lives, NotAt, Places, StartLabels, ShutLabels, StartingThreads
<1>6. StartOK'
  BY DEF NInv, StartOK, NotAt, Places, StartLabels, StartingThreads
<1>7. ShutOK'
  BY DEF NInv, ShutOK, NotAt, Places, ShutLabels
<1>8. Unasked'
  BY DEF NInv, Unasked, Constructing, Destructing, Counted, NodeMutexes, NotAt, Lives, Places,
    StartLabels, ShutLabels, StartingThreads, Caller
<1> QED BY <1>1, <1>2, <1>3, <1>4, <1>5, <1>6, <1>7, <1>8 DEF NInv

LEMMA StartRegisteredRuns ==
    ASSUME NInv, NEW c \in Caller, StartRegistered(c)
    PROVE  NInv'
<1> USE Somebody DEF StartRegistered, Go, To, Unlocks, flags, nodeHandles, managers, histories
<1>1. NodeTypes'
  BY DEF NInv, NodeTypes
<1>2. Places'
  BY DEF NInv, Places, ThreadLabels, PollLabels, StartLabels, ShutLabels
<1>3. NodeMutexes'
  BY DEF NInv, NodeMutexes, Constructing, Destructing, StartLabels, ShutLabels
<1>4. Counted'
  BY DEF NInv, Counted, Constructing, Destructing, StartLabels, ShutLabels
<1>5. Lives'
  BY DEF NInv, Lives, NotAt, StartLabels, ShutLabels, StartingThreads
<1>6. StartOK'
  BY DEF NInv, StartOK, NotAt, StartLabels, StartingThreads
<1>7. ShutOK'
  BY DEF NInv, ShutOK, NotAt, ShutLabels
<1>8. Unasked'
  BY DEF NInv, Unasked, Constructing, Destructing, Counted, NodeMutexes, NotAt, Lives, Places,
    StartLabels, ShutLabels, StartingThreads, Caller
<1> QED BY <1>1, <1>2, <1>3, <1>4, <1>5, <1>6, <1>7, <1>8 DEF NInv

LEMMA StartClockRuns ==
    ASSUME NInv, NEW c \in Caller, StartClock(c)
    PROVE  NInv'
<1> USE Somebody DEF StartClock, Go, To, flags, nodeHandles, managers, histories
<1>1. NodeTypes'
  BY DEF NInv, NodeTypes
<1>2. Places'
  BY DEF NInv, Places, ThreadLabels, PollLabels, StartLabels, ShutLabels
<1>3. NodeMutexes'
  BY DEF NInv, NodeMutexes, Constructing, Destructing, StartLabels, ShutLabels
<1>4. Counted'
  BY DEF NInv, Counted, Constructing, Destructing, StartLabels, ShutLabels
<1>5. Lives'
  BY DEF NInv, Lives, NotAt, StartLabels, ShutLabels, StartingThreads
<1>6. StartOK'
  BY DEF NInv, StartOK, NotAt, StartLabels, StartingThreads
<1>7. ShutOK'
  BY DEF NInv, ShutOK, NotAt, ShutLabels
<1>8. Unasked'
  BY DEF NInv, Unasked, Constructing, Destructing, Counted, NodeMutexes, NotAt, Lives, Places,
    StartLabels, ShutLabels, StartingThreads, Caller
<1> QED BY <1>1, <1>2, <1>3, <1>4, <1>5, <1>6, <1>7, <1>8 DEF NInv

LEMMA StartInternalRuns ==
    ASSUME NInv, NEW c \in Caller, StartInternal(c)
    PROVE  NInv'
<1> USE Somebody DEF StartInternal, Go, To, flags, nodeHandles, histories
<1>1. NodeTypes'
  BY DEF NInv, NodeTypes
<1>2. Places'
  BY DEF NInv, Places, ThreadLabels, PollLabels, StartLabels, ShutLabels
<1>3. NodeMutexes'
  BY DEF NInv, NodeMutexes, Constructing, Destructing, StartLabels, ShutLabels
<1>4. Counted'
  BY DEF NInv, Counted, Constructing, Destructing, StartLabels, ShutLabels
<1>5. Lives'
  BY DEF NInv, Lives, NotAt, StartLabels, ShutLabels, StartingThreads
<1>6. StartOK'
  BY DEF NInv, StartOK, NotAt, StartingThreads
<1>7. ShutOK'
  BY DEF NInv, ShutOK, NotAt, ShutLabels
<1>8. Unasked'
  BY DEF NInv, Unasked, Constructing, Destructing, Counted, NodeMutexes, NotAt, Lives, Places,
    StartLabels, ShutLabels, StartingThreads, Caller
<1> QED BY <1>1, <1>2, <1>3, <1>4, <1>5, <1>6, <1>7, <1>8 DEF NInv

LEMMA StartEndRuns ==
    ASSUME NInv, NEW c \in Caller, StartEnd(c)
    PROVE  NInv'
<1> USE Somebody DEF StartEnd, Go, To, Free, Unlocks, flags, nodeHandles, managers, histories
<1>1. NodeTypes'
  BY DEF NInv, NodeTypes
<1>2. Places'
  BY DEF NInv, Places, ThreadLabels, PollLabels, ShutLabels
<1>3. NodeMutexes'
  BY DEF NInv, NodeMutexes, Constructing, Destructing, Places, StartLabels, ShutLabels,
    StartingThreads, Caller
<1>4. Counted'
  BY DEF NInv, Counted, Constructing, Destructing, StartLabels, ShutLabels
<1>5. Lives'
  BY DEF NInv, Lives, NotAt, Places, StartLabels, ShutLabels, StartingThreads, Caller
<1>6. StartOK'
  BY DEF NInv, StartOK, NotAt, StartingThreads
<1>7. ShutOK'
  BY DEF NInv, ShutOK, NotAt, NodeMutexes, Down, Places, Caller
<1>8. Unasked'
  BY DEF NInv, Unasked, Constructing, Destructing, Counted, NodeMutexes, NotAt, Lives, Places,
    StartLabels, ShutLabels, StartingThreads, Caller
<1> QED BY <1>1, <1>2, <1>3, <1>4, <1>5, <1>6, <1>7, <1>8 DEF NInv

-----------------------------------------------------------------------------
(* shutdown(), step by step.                                                    *)
LEMMA ShutReturnsRuns ==
    ASSUME NInv, NEW c \in Caller, Shut(c), g_shutting_down
    PROVE  NInv'
<1> USE Somebody DEF Shut, To, flags, nodeHandles, managers, histories
<1>0. /\ at' = [at EXCEPT ![c] = back[c]] /\ at[c] = "shut"
      /\ UNCHANGED <<flags, lock, histories, back, nodeHandles, managers>>
  OBVIOUS
<1> at'[c] = back[c] /\ back[c] \in {"idle", "destructed", "checked"} /\ at[c] = "shut"
    /\ (c = Poll => back[c] = "checked") /\ (c \in Thread => back[c] \in {"idle", "destructed"})
    /\ \A d \in Caller : d # c => at'[d] = at[d]
  BY <1>0 DEF NInv, Places, PollLabels, ShutLabels, Caller
<1>1. NodeTypes'
  BY DEF NInv, NodeTypes
<1>2. Places'
  BY DEF NInv, Places, ThreadLabels, PollLabels, StartLabels, StartingThreads, Caller
<1>3. NodeMutexes'
  BY DEF NInv, NodeMutexes, Constructing, Destructing, StartLabels, ShutLabels, StartingThreads,
    Caller
<1>4. Counted'
  BY DEF NInv, Counted, Constructing, Destructing, Caller
<1>5. Lives'
  BY DEF NInv, Lives, NotAt, StartLabels, StartingThreads
<1>6. StartOK'
  BY DEF NInv, StartOK
<1>7. ShutOK'
  <2>1. \A d \in Caller : at'[d] \in ShutLabels \/ at[d] \in ShutLabels => at'[d] = at[d]
    BY DEF ShutLabels
  <2>2. \A d \in Caller : at'[d] \in {"shut_internal", "shut_done"} => at'[d] \in ShutLabels
    BY DEF ShutLabels
  <2> QED BY <1>0, <2>1, <2>2 DEF NInv, ShutOK, NotAt
<1>8. Unasked'
  BY DEF NInv, Unasked, Constructing, Destructing, Counted, NodeMutexes, NotAt, Lives, Places,
    StartLabels, ShutLabels, StartingThreads, Caller
<1> QED BY <1>1, <1>2, <1>3, <1>4, <1>5, <1>6, <1>7, <1>8 DEF NInv

LEMMA ShutBeginsRuns ==
    ASSUME NInv, NEW c \in Caller, Shut(c), ~g_shutting_down
    PROVE  NInv'
<1> USE Somebody DEF Shut, To, flags, nodeHandles, managers, histories
<1>0. /\ at' = [at EXCEPT ![c] = "shut_internal"] /\ at[c] = "shut" /\ UNCHANGED <<back, nodeHandles, managers>>
      /\ lock["shutting_down"] \in {Nobody, c} /\ lock' = [lock EXCEPT !["shutting_down"] = c]
      /\ g_shutting_down' = TRUE /\ asked' = (asked \/ back[c] # "destructed")
      /\ cutShort' = \E d \in Caller : at[d] \in StartingThreads
      /\ UNCHANGED <<g_started, overlap>>
  OBVIOUS
<1> /\ at'[c] = "shut_internal" /\ at[c] = "shut" /\ \A d \in Caller : d # c => at'[d] = at[d]
    /\ (c = Poll => back[c] = "checked") /\ (c \in Thread => back[c] \in {"idle", "destructed"})
  BY <1>0 DEF NInv, Places, PollLabels, ShutLabels, Caller
<1> /\ lock' \in [Mutex -> Caller \union {Server, Nobody}] /\ lock'["shutting_down"] = c
    /\ \A n \in Mutex : n # "shutting_down" => lock'[n] = lock[n]
  BY <1>0, Locking DEF NInv, Mutex
<1> \A d \in Caller : d # c => at[d] \notin ShutLabels
  BY <1>0 DEF NInv, NodeMutexes
<1>1. NodeTypes'
  BY DEF NInv, NodeTypes
<1>2. Places'
  BY DEF NInv, Places, ThreadLabels, PollLabels, StartLabels, ShutLabels, StartingThreads, Caller
<1>3. NodeMutexes'
  BY DEF NInv, NodeMutexes, Mutex, Constructing, Destructing, StartLabels, StartingThreads, Caller
<1>4. Counted'
  BY DEF NInv, Counted, Constructing, Destructing, Caller
<1>5. Lives'
  BY DEF NInv, Lives, NotAt, StartLabels, StartingThreads
<1>6. StartOK'
  BY DEF NInv, StartOK
<1>7. ShutOK'
  <2> SUFFICES ASSUME ~overlap, ~cutShort', constructed PROVE g_started /\ shutting_down_ = {}
    BY <1>0 DEF ShutOK, NotAt, Down, ShutLabels
  <2>1. g_started
    BY DEF NInv, Lives
  <2>2. NotAt(StartingThreads)
    BY <1>0 DEF NotAt
  <2>3. NotAt({"start_listeners", "start_managers"}) /\ NotAt({"start_listeners", "start_managers", "start_poll"})
    BY <2>2 DEF NotAt, StartingThreads
  <2> QED BY <2>1, <2>2, <2>3 DEF NInv, StartOK, NodeTypes, Manager
<1>8. Unasked'
  <2> SUFFICES ASSUME ~overlap, ~asked, back[c] = "destructed" PROVE Unasked'
    BY <1>0 DEF Unasked
  <2>1. c \in Thread /\ Destructing(c)
    BY DEF Destructing, Caller
  <2>2. lock["nh_refcount"] = c /\ handles = {}
    BY <2>1 DEF NInv, NodeMutexes, Counted
  <2>3. \A d \in Thread : ~Constructing(d)
    BY <2>1, <2>2 DEF NInv, NodeMutexes, Constructing, StartLabels, StartingThreads
  <2>4. \A d \in Thread : ~Constructing(d)'
    BY <1>0, <2>3 DEF Constructing, StartLabels, StartingThreads, Caller
  <2>5. \A d \in Caller : at'[d] \in ShutLabels => d = c
    OBVIOUS
  <2>6. at'[c] \in ShutLabels
    BY DEF ShutLabels
  <2> QED BY <1>0, <2>1, <2>2, <2>4, <2>5, <2>6 DEF Unasked
<1> QED BY <1>1, <1>2, <1>3, <1>4, <1>5, <1>6, <1>7, <1>8 DEF NInv

LEMMA ShutInternalRuns ==
    ASSUME NInv, NEW c \in Caller, ShutInternal(c)
    PROVE  NInv'
<1> USE Somebody DEF ShutInternal, Go, To, flags, nodeHandles, managers, histories
<1>1. NodeTypes'
  BY DEF NInv, NodeTypes
<1>2. Places'
  BY DEF NInv, Places, ThreadLabels, PollLabels, StartLabels, ShutLabels, StartingThreads
<1>3. NodeMutexes'
  BY DEF NInv, NodeMutexes, Constructing, Destructing, StartLabels, ShutLabels, StartingThreads
<1>4. Counted'
  BY DEF NInv, Counted, Constructing, Destructing, StartLabels, ShutLabels, StartingThreads
<1>5. Lives'
  BY DEF NInv, Lives, NotAt, StartLabels, ShutLabels, StartingThreads
<1>6. StartOK'
  BY DEF NInv, StartOK, NotAt, Lives, ShutLabels
<1>7. ShutOK'
  BY DEF NInv, ShutOK, NotAt, Down, ShutLabels
<1>8. Unasked'
  BY DEF NInv, Unasked, Constructing, Destructing, Counted, NodeMutexes, NotAt, Lives, Places,
    StartLabels, ShutLabels, StartingThreads, Caller
<1> QED BY <1>1, <1>2, <1>3, <1>4, <1>5, <1>6, <1>7, <1>8 DEF NInv

LEMMA ShutTopicsRuns ==
    ASSUME NInv, NEW c \in Caller, ShutTopics(c)
    PROVE  NInv'
<1> USE Somebody DEF ShutTopics, Go, To, Free, Locks, flags, nodeHandles, histories
<1>1. NodeTypes'
  <2>1. \/ lock' = lock /\ shutting_down_' = shutting_down_
        \/ lock' = [lock EXCEPT !["topics"] = c] /\ shutting_down_' = shutting_down_ \union {"topics"}
    OBVIOUS
  <2>2. UNCHANGED <<flags, nodeHandles, histories, running, functions_, constructed>>
    OBVIOUS
  <2>3. lock' \in [Mutex -> Caller \union {Server, Nobody}]
    BY <2>1, Locking DEF NInv, NodeTypes, Mutex
  <2> QED BY <2>1, <2>2, <2>3 DEF NInv, NodeTypes, Manager
<1>2. Places'
  BY DEF NInv, Places, ThreadLabels, PollLabels, StartLabels, ShutLabels, StartingThreads, Caller
<1>3. NodeMutexes'
  BY DEF NInv, NodeMutexes, NodeTypes, Mutex, Constructing, Destructing, Places, StartLabels,
    ShutLabels, StartingThreads, Caller
<1>4. Counted'
  BY DEF NInv, Counted, Constructing, Destructing, Places, ShutLabels, Caller
<1>5. Lives'
  BY DEF NInv, Lives, NotAt, Places, StartLabels, ShutLabels, StartingThreads
<1>6. StartOK'
  BY DEF NInv, StartOK, NotAt, Lives, ShutLabels
<1>7. ShutOK'
  BY DEF NInv, ShutOK, NotAt, NodeMutexes, Down, Places, ShutLabels
<1>8. Unasked'
  BY DEF NInv, Unasked, Constructing, Destructing, Counted, NodeMutexes, NotAt, Lives, Places,
    StartLabels, ShutLabels, StartingThreads, Caller
<1> QED BY <1>1, <1>2, <1>3, <1>4, <1>5, <1>6, <1>7, <1>8 DEF NInv

LEMMA ShutUnbindRuns ==
    ASSUME NInv, NEW c \in Caller, ShutUnbind(c)
    PROVE  NInv'
<1> USE Somebody DEF ShutUnbind, Go, To, flags, nodeHandles, histories
<1>1. NodeTypes'
  BY DEF NInv, NodeTypes
<1>2. Places'
  BY DEF NInv, Places, ThreadLabels, PollLabels, StartLabels, ShutLabels, StartingThreads
<1>3. NodeMutexes'
  BY DEF NInv, NodeMutexes, Constructing, Destructing, StartLabels, ShutLabels, StartingThreads
<1>4. Counted'
  BY DEF NInv, Counted, Constructing, Destructing, StartLabels, ShutLabels, StartingThreads
<1>5. Lives'
  BY DEF NInv, Lives, NotAt, StartLabels, ShutLabels, StartingThreads
<1>6. StartOK'
  BY DEF NInv, StartOK, NotAt, Lives, ShutLabels
<1>7. ShutOK'
  BY DEF NInv, ShutOK, NotAt, Down, ShutLabels
<1>8. Unasked'
  BY DEF NInv, Unasked, Constructing, Destructing, Counted, NodeMutexes, NotAt, Lives, Places,
    StartLabels, ShutLabels, StartingThreads, Caller
<1> QED BY <1>1, <1>2, <1>3, <1>4, <1>5, <1>6, <1>7, <1>8 DEF NInv

LEMMA ShutUnbindingRuns ==
    ASSUME NInv, NEW c \in Caller, ShutUnbinding(c)
    PROVE  NInv'
<1> USE Somebody DEF ShutUnbinding, Go, To, Free, flags, nodeHandles, histories
<1>1. NodeTypes'
  BY DEF NInv, NodeTypes
<1>2. Places'
  BY DEF NInv, Places, ThreadLabels, PollLabels, StartLabels, ShutLabels, StartingThreads
<1>3. NodeMutexes'
  BY DEF NInv, NodeMutexes, Constructing, Destructing, StartLabels, ShutLabels, StartingThreads
<1>4. Counted'
  BY DEF NInv, Counted, Constructing, Destructing, StartLabels, ShutLabels, StartingThreads
<1>5. Lives'
  BY DEF NInv, Lives, NotAt, StartLabels, ShutLabels, StartingThreads
<1>6. StartOK'
  BY DEF NInv, StartOK, NotAt, Lives, ShutLabels
<1>7. ShutOK'
  BY DEF NInv, ShutOK, NotAt, Down, ShutLabels
<1>8. Unasked'
  BY DEF NInv, Unasked, Constructing, Destructing, Counted, NodeMutexes, NotAt, Lives, Places,
    StartLabels, ShutLabels, StartingThreads, Caller
<1> QED BY <1>1, <1>2, <1>3, <1>4, <1>5, <1>6, <1>7, <1>8 DEF NInv

LEMMA ShutUnregisterRuns ==
    ASSUME NInv, NEW c \in Caller, ShutUnregister(c)
    PROVE  NInv'
<1> USE Somebody DEF ShutUnregister, Go, To, Unlocks, flags, nodeHandles, managers, histories
<1>1. NodeTypes'
  BY DEF NInv, NodeTypes
<1>2. Places'
  BY DEF NInv, Places, ThreadLabels, PollLabels, StartLabels, ShutLabels, StartingThreads
<1>3. NodeMutexes'
  BY DEF NInv, NodeMutexes, Constructing, Destructing, StartLabels, ShutLabels, StartingThreads
<1>4. Counted'
  BY DEF NInv, Counted, Constructing, Destructing, StartLabels, ShutLabels, StartingThreads
<1>5. Lives'
  BY DEF NInv, Lives, NotAt, StartLabels, ShutLabels, StartingThreads
<1>6. StartOK'
  BY DEF NInv, StartOK, NotAt, Lives, ShutLabels
<1>7. ShutOK'
  BY DEF NInv, ShutOK, NotAt, Down, ShutLabels
<1>8. Unasked'
  BY DEF NInv, Unasked, Constructing, Destructing, Counted, NodeMutexes, NotAt, Lives, Places,
    StartLabels, ShutLabels, StartingThreads, Caller
<1> QED BY <1>1, <1>2, <1>3, <1>4, <1>5, <1>6, <1>7, <1>8 DEF NInv

LEMMA ShutServicesRuns ==
    ASSUME NInv, NEW c \in Caller, ShutServices(c)
    PROVE  NInv'
<1> USE Somebody DEF ShutServices, Go, To, Free, flags, nodeHandles, histories
<1>1. NodeTypes'
  BY DEF NInv, NodeTypes, Manager
<1>2. Places'
  BY DEF NInv, Places, ThreadLabels, PollLabels, StartLabels, ShutLabels, StartingThreads
<1>3. NodeMutexes'
  BY DEF NInv, NodeMutexes, Constructing, Destructing, StartLabels, ShutLabels, StartingThreads
<1>4. Counted'
  BY DEF NInv, Counted, Constructing, Destructing, StartLabels, ShutLabels, StartingThreads
<1>5. Lives'
  BY DEF NInv, Lives, NotAt, StartLabels, ShutLabels, StartingThreads
<1>6. StartOK'
  BY DEF NInv, StartOK, NotAt, Lives, ShutLabels
<1>7. ShutOK'
  BY DEF NInv, ShutOK, NotAt, NodeMutexes, Down, Places, ShutLabels
<1>8. Unasked'
  BY DEF NInv, Unasked, Constructing, Destructing, Counted, NodeMutexes, NotAt, Lives, Places,
    StartLabels, ShutLabels, StartingThreads, Caller
<1> QED BY <1>1, <1>2, <1>3, <1>4, <1>5, <1>6, <1>7, <1>8 DEF NInv

LEMMA ShutPollRuns ==
    ASSUME NInv, NEW c \in Caller, ShutPoll(c)
    PROVE  NInv'
<1> USE Somebody DEF ShutPoll, Go, To, flags, nodeHandles, histories
<1>1. NodeTypes'
  BY DEF NInv, NodeTypes, Manager
<1>2. Places'
  BY DEF NInv, Places, ThreadLabels, PollLabels, StartLabels, ShutLabels, StartingThreads
<1>3. NodeMutexes'
  BY DEF NInv, NodeMutexes, Constructing, Destructing, StartLabels, ShutLabels, StartingThreads
<1>4. Counted'
  BY DEF NInv, Counted, Constructing, Destructing, StartLabels, ShutLabels, StartingThreads
<1>5. Lives'
  BY DEF NInv, Lives, NotAt, StartLabels, ShutLabels, StartingThreads
<1>6. StartOK'
  BY DEF NInv, StartOK, NotAt, Lives, ShutLabels
<1>7. ShutOK'
  BY DEF NInv, ShutOK, NotAt, NodeMutexes, Down, Places, ShutLabels
<1>8. Unasked'
  BY DEF NInv, Unasked, Constructing, Destructing, Counted, NodeMutexes, NotAt, Lives, Places,
    StartLabels, ShutLabels, StartingThreads, Caller
<1> QED BY <1>1, <1>2, <1>3, <1>4, <1>5, <1>6, <1>7, <1>8 DEF NInv

LEMMA ShutPollJoinRuns ==
    ASSUME NInv, NEW c \in Caller, ShutPollJoin(c)
    PROVE  NInv'
<1> USE Somebody DEF ShutPollJoin, Go, To, flags, nodeHandles, managers, histories
<1>1. NodeTypes'
  BY DEF NInv, NodeTypes
<1>2. Places'
  BY DEF NInv, Places, ThreadLabels, PollLabels, StartLabels, ShutLabels, StartingThreads
<1>3. NodeMutexes'
  BY DEF NInv, NodeMutexes, Constructing, Destructing, StartLabels, ShutLabels, StartingThreads
<1>4. Counted'
  BY DEF NInv, Counted, Constructing, Destructing, StartLabels, ShutLabels, StartingThreads
<1>5. Lives'
  BY DEF NInv, Lives, NotAt, StartLabels, ShutLabels, StartingThreads
<1>6. StartOK'
  BY DEF NInv, StartOK, NotAt, Lives, ShutLabels
<1>7. ShutOK'
  BY DEF NInv, ShutOK, NotAt, Down, ShutLabels
<1>8. Unasked'
  BY DEF NInv, Unasked, Constructing, Destructing, Counted, NodeMutexes, NotAt, Lives, Places,
    StartLabels, ShutLabels, StartingThreads, Caller
<1> QED BY <1>1, <1>2, <1>3, <1>4, <1>5, <1>6, <1>7, <1>8 DEF NInv

LEMMA ShutXmlrpcRuns ==
    ASSUME NInv, NEW c \in Caller, ShutXmlrpc(c)
    PROVE  NInv'
<1> USE Somebody DEF ShutXmlrpc, Go, To, flags, nodeHandles, histories
<1>1. NodeTypes'
  BY DEF NInv, NodeTypes, Manager
<1>2. Places'
  BY DEF NInv, Places, ThreadLabels, PollLabels, StartLabels, ShutLabels, StartingThreads
<1>3. NodeMutexes'
  BY DEF NInv, NodeMutexes, Constructing, Destructing, StartLabels, ShutLabels, StartingThreads
<1>4. Counted'
  BY DEF NInv, Counted, Constructing, Destructing, StartLabels, ShutLabels, StartingThreads
<1>5. Lives'
  BY DEF NInv, Lives, NotAt, StartLabels, ShutLabels, StartingThreads
<1>6. StartOK'
  BY DEF NInv, StartOK, NotAt, Lives, ShutLabels
<1>7. ShutOK'
  BY DEF NInv, ShutOK, NotAt, NodeMutexes, Down, Manager, Places, ShutLabels
<1>8. Unasked'
  BY DEF NInv, Unasked, Constructing, Destructing, Counted, NodeMutexes, NotAt, Lives, Places,
    StartLabels, ShutLabels, StartingThreads, Caller
<1> QED BY <1>1, <1>2, <1>3, <1>4, <1>5, <1>6, <1>7, <1>8 DEF NInv

LEMMA ShutXmlrpcJoinRuns ==
    ASSUME NInv, NEW c \in Caller, ShutXmlrpcJoin(c)
    PROVE  NInv'
<1> USE Somebody DEF ShutXmlrpcJoin, Go, To, Free, flags, nodeHandles, histories
<1>1. NodeTypes'
  BY DEF NInv, NodeTypes
<1>2. Places'
  BY DEF NInv, Places, ThreadLabels, PollLabels, StartLabels, ShutLabels, StartingThreads
<1>3. NodeMutexes'
  BY DEF NInv, NodeMutexes, Constructing, Destructing, StartLabels, ShutLabels, StartingThreads
<1>4. Counted'
  BY DEF NInv, Counted, Constructing, Destructing, StartLabels, ShutLabels, StartingThreads
<1>5. Lives'
  BY DEF NInv, Lives, NotAt, StartLabels, ShutLabels, StartingThreads
<1>6. StartOK'
  BY DEF NInv, StartOK, NotAt, Lives, ShutLabels
<1>7. ShutOK'
  BY DEF NInv, ShutOK, Down, ShutLabels
<1>8. Unasked'
  BY DEF NInv, Unasked, Constructing, Destructing, Counted, NodeMutexes, NotAt, Lives, Places,
    StartLabels, ShutLabels, StartingThreads, Caller
<1> QED BY <1>1, <1>2, <1>3, <1>4, <1>5, <1>6, <1>7, <1>8 DEF NInv

LEMMA ShutDoneRuns ==
    ASSUME NInv, NEW c \in Caller, ShutDone(c)
    PROVE  NInv'
<1> USE Somebody DEF ShutDone, Go, To, Unlocks, nodeHandles, managers, histories
<1>1. NodeTypes'
  <2>1. \/ lock' = lock
        \/ lock' = [lock EXCEPT !["shutting_down"] = Nobody]
    OBVIOUS
  <2>2. g_started' = FALSE /\ UNCHANGED <<g_shutting_down, nodeHandles, histories, managers>>
    OBVIOUS
  <2>3. lock' \in [Mutex -> Caller \union {Server, Nobody}]
    BY <2>1, Locking DEF NInv, NodeTypes, Mutex
  <2> QED BY <2>2, <2>3 DEF NInv, NodeTypes
<1>2. Places'
  BY DEF NInv, Places, ThreadLabels, PollLabels, StartLabels, StartingThreads
<1>3. NodeMutexes'
  BY DEF NInv, NodeMutexes, NodeTypes, Mutex, Constructing, Destructing, Places, StartLabels,
    ShutLabels, StartingThreads, Caller
<1>4. Counted'
  BY DEF NInv, Counted, Constructing, Destructing, Places, ShutLabels
<1>5. Lives'
  BY DEF NInv, Lives, NotAt, Places, StartLabels, ShutLabels, StartingThreads, Caller
<1>6. StartOK'
  BY DEF NInv, StartOK
<1>7. ShutOK'
  BY DEF NInv, ShutOK, Down, Manager, Places, ShutLabels, Caller
<1>8. Unasked'
  BY DEF NInv, Unasked, Constructing, Destructing, Counted, NodeMutexes, NotAt, Lives, Places,
    StartLabels, ShutLabels, StartingThreads, Caller
<1> QED BY <1>1, <1>2, <1>3, <1>4, <1>5, <1>6, <1>7, <1>8 DEF NInv

-----------------------------------------------------------------------------
(* The handles, and who asks for a start or a shutdown.                         *)
LEMMA ConstructRuns ==
    ASSUME NInv, NEW t \in Thread, Construct(t)
    PROVE  NInv'
<1> USE Somebody DEF Construct, Call, To, Ready, Locks, Free, Spend, flags, managers
<1>0. /\ at[t] = "idle" /\ t \notin handles
      /\ lock["nh_refcount"] = Nobody /\ lock' = [lock EXCEPT !["nh_refcount"] = t]
      /\ UNCHANGED <<flags, g_nh_refcount, handles, managers, asked, cutShort, overlap>>
      /\ \/ /\ g_nh_refcount = 0 /\ ~g_started
            /\ at' = [at EXCEPT ![t] = "start"] /\ back' = [back EXCEPT ![t] = "constructed"]
         \/ /\ ~(g_nh_refcount = 0 /\ ~g_started)
            /\ at' = [at EXCEPT ![t] = "constructed"] /\ back' = [back EXCEPT ![t] = "idle"]
  OBVIOUS
<1> /\ t \in Caller /\ at[t] = "idle" /\ at'[t] \in {"start", "constructed"}
    /\ \A d \in Caller : d # t => at'[d] = at[d] /\ back'[d] = back[d]
  BY <1>0 DEF NInv, Places, Caller
<1> /\ lock' \in [Mutex -> Caller \union {Server, Nobody}] /\ lock'["nh_refcount"] = t
    /\ \A n \in Mutex : n # "nh_refcount" => lock'[n] = lock[n]
  BY <1>0, Locking DEF NInv, Mutex, Caller
<1> \A d \in Thread : ~Constructing(d) /\ ~Destructing(d) /\ at[d] # "destructed"
  BY <1>0 DEF NInv, NodeMutexes, Caller
<1>1. NodeTypes'
  BY DEF NInv, NodeTypes
<1>2. Places'
  BY DEF NInv, Places, ThreadLabels, PollLabels, ShutLabels, Caller
<1>3. NodeMutexes'
  BY DEF NInv, NodeMutexes, Constructing, Destructing, StartLabels, ShutLabels, StartingThreads,
    Caller
<1>4. Counted'
  BY DEF NInv, Counted, Constructing, Destructing, ShutLabels, Caller
<1>5. Lives'
  BY DEF NInv, Lives, NotAt, StartLabels, ShutLabels, StartingThreads
<1>6. StartOK'
  BY DEF NInv, StartOK, NotAt, StartLabels, StartingThreads
<1>7. ShutOK'
  BY DEF NInv, ShutOK, NotAt, ShutLabels
<1>8. Unasked'
  <2>1. ASSUME ~overlap, ~asked, at'[t] # "start" PROVE g_started /\ ~g_shutting_down
    <3>1. g_nh_refcount # 0 => handles # {}
      BY FS_EmptySet DEF NInv, NodeTypes
    <3>2. g_shutting_down /\ g_started => FALSE
      <4> SUFFICES ASSUME g_shutting_down, g_started PROVE FALSE
        OBVIOUS
      <4>1. PICK d \in Thread : at[d] \in ShutLabels /\ back[d] = "destructed"
        BY <2>1 DEF NInv, Unasked
      <4> QED BY <4>1 DEF Destructing
    <3>3. ~(g_nh_refcount = 0 /\ ~g_started)
      BY <1>0, <2>1 DEF NInv, Places, Caller
    <3>4. handles # {} => g_started /\ ~g_shutting_down
      BY <2>1 DEF NInv, Unasked
    <3> QED BY <3>1, <3>2, <3>3, <3>4
  <2> QED BY <1>0, <2>1 DEF NInv, Unasked, Constructing, ShutLabels, StartLabels, StartingThreads, Caller
<1> QED BY <1>1, <1>2, <1>3, <1>4, <1>5, <1>6, <1>7, <1>8 DEF NInv

LEMMA ConstructedRuns ==
    ASSUME NInv, NEW t \in Thread, Constructed(t)
    PROVE  NInv'
<1> USE Somebody DEF Constructed, Go, To, Unlocks, flags, managers, histories
<1>0. /\ at[t] = "constructed" /\ at' = [at EXCEPT ![t] = "idle"]
      /\ UNCHANGED <<back, flags, managers, asked, cutShort, overlap>>
      /\ g_nh_refcount' = g_nh_refcount + 1 /\ handles' = handles \union {t}
      /\ lock["nh_refcount"] = t /\ lock' = [lock EXCEPT !["nh_refcount"] = Nobody]
  OBVIOUS
<1> /\ t \in Caller /\ at'[t] = "idle" /\ \A d \in Caller : d # t => at'[d] = at[d]
  BY <1>0 DEF NInv, Places, Caller
<1> /\ lock' \in [Mutex -> Caller \union {Server, Nobody}] /\ lock'["nh_refcount"] = Nobody
    /\ \A n \in Mutex : n # "nh_refcount" => lock'[n] = lock[n]
  BY <1>0, Locking DEF NInv, Mutex
<1> t \notin handles
  BY <1>0 DEF NInv, Counted, Constructing
<1> /\ \A d \in Thread : ~Destructing(d)
    /\ \A d \in Thread : Constructing(d) => d = t
  BY <1>0 DEF NInv, NodeMutexes, Constructing, Destructing, StartLabels, StartingThreads, ShutLabels, Caller
<1>1. NodeTypes'
  <2>1. Cardinality(handles \union {t}) = Cardinality(handles) + 1 /\ IsFiniteSet(handles \union {t})
    BY FS_AddElement DEF NInv, NodeTypes
  <2> QED BY <1>0, <2>1 DEF NInv, NodeTypes
<1>2. Places'
  BY DEF NInv, Places, ThreadLabels, PollLabels, StartLabels, ShutLabels, StartingThreads
<1>3. NodeMutexes'
  BY DEF NInv, NodeMutexes, Constructing, Destructing, StartLabels, ShutLabels, StartingThreads
<1>4. Counted'
  <2> SUFFICES ASSUME NEW d \in Thread PROVE (Destructing(d)' => handles' = {}) /\ (Constructing(d)' => d \notin handles')
    BY DEF Counted
  <2>1. ~Destructing(d)' /\ (Constructing(d)' => Constructing(d) /\ d # t)
    BY <1>0 DEF NInv, Constructing, Destructing, ShutLabels, StartLabels, StartingThreads, Caller
  <2> QED BY <1>0, <2>1
<1>5. Lives'
  BY DEF NInv, Lives, NotAt, StartLabels, ShutLabels, StartingThreads
<1>6. StartOK'
  BY DEF NInv, StartOK, NotAt, StartLabels, StartingThreads
<1>7. ShutOK'
  BY DEF NInv, ShutOK, NotAt, ShutLabels
<1>8. Unasked'
  BY DEF NInv, Unasked, Constructing, Destructing, Counted, NodeMutexes, NotAt, Lives, Places,
    StartLabels, ShutLabels, StartingThreads, Caller
<1> QED BY <1>1, <1>2, <1>3, <1>4, <1>5, <1>6, <1>7, <1>8 DEF NInv

LEMMA DestructRuns ==
    ASSUME NInv, NEW t \in Thread, Destruct(t)
    PROVE  NInv'
<1> USE Somebody DEF Destruct, Call, To, Ready, Locks, Free, flags, managers, histories
<1>0. /\ at[t] = "idle" /\ t \in handles /\ lock["nh_refcount"] = Nobody /\ lock' = [lock EXCEPT !["nh_refcount"] = t]
      /\ UNCHANGED <<flags, managers, asked, cutShort, overlap>>
      /\ g_nh_refcount' = g_nh_refcount - 1 /\ handles' = handles \ {t}
      /\ at' = [at EXCEPT ![t] = IF g_nh_refcount = 1 /\ g_node_started_by_nh THEN "shut" ELSE "destructed"]
      /\ back' = [back EXCEPT ![t] = "destructed"]
  OBVIOUS
<1> /\ t \in Caller /\ at'[t] \in {"shut", "destructed"} /\ (at'[t] = "shut" => g_nh_refcount = 1)
    /\ back'[t] = "destructed" /\ \A d \in Caller : d # t => at'[d] = at[d] /\ back'[d] = back[d]
  BY <1>0 DEF NInv, Places, Caller
<1> /\ lock' \in [Mutex -> Caller \union {Server, Nobody}] /\ lock'["nh_refcount"] = t
    /\ \A n \in Mutex : n # "nh_refcount" => lock'[n] = lock[n]
  BY <1>0, Locking DEF NInv, Mutex, Caller
<1> \A d \in Thread : ~Constructing(d) /\ ~Destructing(d) /\ at[d] # "destructed"
  BY <1>0 DEF NInv, NodeMutexes, Caller
<1>a. Cardinality(handles \ {t}) = Cardinality(handles) - 1 /\ IsFiniteSet(handles \ {t}) /\ Cardinality(handles) \in Nat
  BY <1>0, FS_RemoveElement, FS_CardinalityType DEF NInv, NodeTypes
<1>1. NodeTypes'
  BY <1>0, <1>a DEF NInv, NodeTypes
<1>2. Places'
  BY DEF NInv, Places, ThreadLabels, PollLabels, StartLabels, StartingThreads
<1>3. NodeMutexes'
  BY DEF NInv, NodeMutexes, Constructing, Destructing, StartLabels, ShutLabels, StartingThreads
<1>4. Counted'
  <2> SUFFICES ASSUME NEW d \in Thread PROVE (Destructing(d)' => handles' = {}) /\ (Constructing(d)' => d \notin handles')
    BY DEF Counted
  <2>1. CASE d # t
    <3>1. ~Destructing(d)' /\ ~Constructing(d)'
      BY <2>1, <1>0 DEF Destructing, Constructing, Caller
    <3> QED BY <3>1
  <2>2. CASE d = t
    <3>1. ~Constructing(t)' /\ (Destructing(t)' => g_nh_refcount = 1)
      BY <1>0 DEF Destructing, Constructing, StartLabels, StartingThreads, ShutLabels
    <3>2. g_nh_refcount = 1 => handles \ {t} = {}
      BY <1>a, FS_EmptySet DEF NInv, NodeTypes
    <3> QED BY <1>0, <2>2, <3>1, <3>2
  <2> QED BY <2>1, <2>2
<1>5. Lives'
  BY DEF NInv, Lives, NotAt, StartLabels, ShutLabels, StartingThreads
<1>6. StartOK'
  BY DEF NInv, StartOK, NotAt, StartLabels, StartingThreads
<1>7. ShutOK'
  BY DEF NInv, ShutOK, NotAt, ShutLabels
<1>8. Unasked'
  BY DEF NInv, Unasked, Constructing, Destructing, Counted, NodeMutexes, NotAt, Lives, Places,
    StartLabels, ShutLabels, StartingThreads, Caller
<1> QED BY <1>1, <1>2, <1>3, <1>4, <1>5, <1>6, <1>7, <1>8 DEF NInv

LEMMA DestructedRuns ==
    ASSUME NInv, NEW t \in Thread, Destructed(t)
    PROVE  NInv'
<1> USE Somebody DEF Destructed, Go, To, Unlocks, flags, nodeHandles, managers, histories
<1>1. NodeTypes'
  BY DEF NInv, NodeTypes
<1>2. Places'
  BY DEF NInv, Places, ThreadLabels, PollLabels, StartLabels, ShutLabels, StartingThreads
<1>3. NodeMutexes'
  BY DEF NInv, NodeMutexes, NodeTypes, Constructing, Destructing, Places, StartLabels, ShutLabels,
    StartingThreads
<1>4. Counted'
  BY DEF NInv, Counted, Constructing, Destructing, StartLabels, ShutLabels, StartingThreads
<1>5. Lives'
  BY DEF NInv, Lives, NotAt, StartLabels, ShutLabels, StartingThreads
<1>6. StartOK'
  BY DEF NInv, StartOK, NotAt, StartLabels, StartingThreads
<1>7. ShutOK'
  BY DEF NInv, ShutOK, NotAt, ShutLabels
<1>8. Unasked'
  BY DEF NInv, Unasked, Constructing, Destructing, Counted, NodeMutexes, NotAt, Lives, Places,
    StartLabels, ShutLabels, StartingThreads, Caller
<1> QED BY <1>1, <1>2, <1>3, <1>4, <1>5, <1>6, <1>7, <1>8 DEF NInv

LEMMA CallStartRuns ==
    ASSUME NInv, NEW t \in Thread, CallStart(t)
    PROVE  NInv'
<1> USE Somebody DEF CallStart, Call, To, Ready, Spend, flags, nodeHandles, managers
<1>1. NodeTypes'
  BY DEF NInv, NodeTypes
<1>2. Places'
  BY DEF NInv, Places, ThreadLabels, PollLabels, Caller
<1>3. NodeMutexes'
  BY DEF NInv, NodeMutexes, Constructing, Destructing, Places, StartLabels, ShutLabels,
    StartingThreads, Caller
<1>4. Counted'
  BY DEF NInv, Counted, Constructing, Destructing, Places, Caller
<1>5. Lives'
  BY DEF NInv, Lives, NotAt, StartLabels, ShutLabels, StartingThreads
<1>6. StartOK'
  BY DEF NInv, StartOK, NotAt, StartLabels, StartingThreads
<1>7. ShutOK'
  BY DEF NInv, ShutOK, NotAt, ShutLabels
<1>8. Unasked'
  BY DEF NInv, Unasked, Constructing, Destructing, Counted, NodeMutexes, NotAt, Lives, Places,
    StartLabels, ShutLabels, StartingThreads, Caller
<1> QED BY <1>1, <1>2, <1>3, <1>4, <1>5, <1>6, <1>7, <1>8 DEF NInv

LEMMA CallShutdownRuns ==
    ASSUME NInv, NEW t \in Thread, CallShutdown(t)
    PROVE  NInv'
<1> USE Somebody DEF CallShutdown, Call, To, Ready, Spend, flags, nodeHandles, managers
<1>1. NodeTypes'
  BY DEF NInv, NodeTypes
<1>2. Places'
  BY DEF NInv, Places, ThreadLabels, PollLabels, Caller
<1>3. NodeMutexes'
  BY DEF NInv, NodeMutexes, Constructing, Destructing, Places, StartLabels, ShutLabels,
    StartingThreads, Caller
<1>4. Counted'
  BY DEF NInv, Counted, Constructing, Destructing, Places, Caller
<1>5. Lives'
  BY DEF NInv, Lives, NotAt, StartLabels, ShutLabels, StartingThreads
<1>6. StartOK'
  BY DEF NInv, StartOK, NotAt, StartLabels, StartingThreads
<1>7. ShutOK'
  BY DEF NInv, ShutOK, NotAt, ShutLabels
<1>8. Unasked'
  BY DEF NInv, Unasked, Constructing, Destructing, Counted, NodeMutexes, NotAt, Lives, Places,
    StartLabels, ShutLabels, StartingThreads, Caller
<1> QED BY <1>1, <1>2, <1>3, <1>4, <1>5, <1>6, <1>7, <1>8 DEF NInv

LEMMA RequestShutdownRuns ==
    ASSUME NInv, RequestShutdown
    PROVE  NInv'
<1> USE Somebody DEF RequestShutdown, Spend, nodeHandles, managers
<1>1. NodeTypes'
  BY DEF NInv, NodeTypes
<1>2. Places'
  BY DEF NInv, Places, ThreadLabels, PollLabels
<1>3. NodeMutexes'
  BY DEF NInv, NodeMutexes, Constructing, Destructing
<1>4. Counted'
  BY DEF NInv, Counted, Constructing, Destructing
<1>5. Lives'
  BY DEF NInv, Lives, NotAt
<1>6. StartOK'
  BY DEF NInv, StartOK, NotAt
<1>7. ShutOK'
  BY DEF NInv, ShutOK, NotAt
<1>8. Unasked'
  BY DEF NInv, Unasked, Constructing, Destructing, Counted, NodeMutexes, NotAt, Lives, Places,
    StartLabels, ShutLabels, StartingThreads, Caller
<1> QED BY <1>1, <1>2, <1>3, <1>4, <1>5, <1>6, <1>7, <1>8 DEF NInv

-----------------------------------------------------------------------------
(* The threads of the node.                                                     *)
LEMMA PollLoopRuns ==
    ASSUME NInv, PollLoop
    PROVE  NInv'
<1> USE Somebody DEF PollLoop, To, Locks, Free, flags, nodeHandles, histories
<1>1. NodeTypes'
  BY DEF NInv, NodeTypes, Caller
<1>2. Places'
  BY DEF NInv, Places, ThreadLabels, PollLabels, ShutLabels, Caller
<1>3. NodeMutexes'
  BY DEF NInv, NodeMutexes, NodeTypes, Mutex, Constructing, Destructing, Places, StartLabels,
    ShutLabels, StartingThreads, Caller
<1>4. Counted'
  BY DEF NInv, Counted, Constructing, Destructing, Places, Caller
<1>5. Lives'
  BY DEF NInv, Lives, NotAt, Places, StartLabels, ShutLabels, StartingThreads
<1>6. StartOK'
  BY DEF NInv, StartOK, NotAt, Places, StartLabels, StartingThreads
<1>7. ShutOK'
  BY DEF NInv, ShutOK, NotAt, Places, ShutLabels
<1>8. Unasked'
  BY DEF NInv, Unasked, Constructing, Destructing, Counted, NodeMutexes, NotAt, Lives, Places,
    StartLabels, ShutLabels, StartingThreads, Caller
<1> QED BY <1>1, <1>2, <1>3, <1>4, <1>5, <1>6, <1>7, <1>8 DEF NInv

LEMMA CheckForShutdownRuns ==
    ASSUME NInv, CheckForShutdown
    PROVE  NInv'
<1> USE Somebody DEF CheckForShutdown, Call, To, Free, Locks, Unlocks, flags, nodeHandles,
  managers, histories
<1>1. NodeTypes'
  BY DEF NInv, NodeTypes, Caller
<1>2. Places'
  BY DEF NInv, Places, ThreadLabels, PollLabels, ShutLabels, Caller
<1>3. NodeMutexes'
  BY DEF NInv, NodeMutexes, NodeTypes, Mutex, Constructing, Destructing, Places, StartLabels,
    ShutLabels, StartingThreads, Caller
<1>4. Counted'
  BY DEF NInv, Counted, Constructing, Destructing, Places, Caller
<1>5. Lives'
  BY DEF NInv, Lives, NotAt, Places, StartLabels, ShutLabels, StartingThreads
<1>6. StartOK'
  BY DEF NInv, StartOK, NotAt, Places, StartLabels, StartingThreads
<1>7. ShutOK'
  BY DEF NInv, ShutOK, NotAt, Places, ShutLabels
<1>8. Unasked'
  BY DEF NInv, Unasked, Constructing, Destructing, Counted, NodeMutexes, NotAt, Lives, Places,
    StartLabels, ShutLabels, StartingThreads, Caller
<1> QED BY <1>1, <1>2, <1>3, <1>4, <1>5, <1>6, <1>7, <1>8 DEF NInv

LEMMA CheckedRuns ==
    ASSUME NInv, Checked
    PROVE  NInv'
<1> USE Somebody DEF Checked, Call, To, nodeHandles, managers, histories
<1>1. NodeTypes'
  BY DEF NInv, NodeTypes
<1>2. Places'
  BY DEF NInv, Places, ThreadLabels, PollLabels, ShutLabels
<1>3. NodeMutexes'
  BY DEF NInv, NodeMutexes, Mutex, Constructing, Destructing, StartLabels, ShutLabels,
    StartingThreads
<1>4. Counted'
  BY DEF NInv, Counted, Constructing, Destructing
<1>5. Lives'
  BY DEF NInv, Lives, NotAt, StartLabels, ShutLabels, StartingThreads
<1>6. StartOK'
  BY DEF NInv, StartOK, NotAt, StartLabels, StartingThreads
<1>7. ShutOK'
  BY DEF NInv, ShutOK, NotAt, ShutLabels
<1>8. Unasked'
  BY DEF NInv, Unasked, Constructing, Destructing, Counted, NodeMutexes, NotAt, Lives, Places,
    StartLabels, ShutLabels, StartingThreads, Caller
<1> QED BY <1>1, <1>2, <1>3, <1>4, <1>5, <1>6, <1>7, <1>8 DEF NInv

LEMMA InternalEndsRuns ==
    ASSUME NInv, InternalEnds
    PROVE  NInv'
<1> USE Somebody DEF InternalEnds, flags, nodeHandles, histories
<1>1. NodeTypes'
  BY DEF NInv, NodeTypes
<1>2. Places'
  BY DEF NInv, Places, ThreadLabels, PollLabels
<1>3. NodeMutexes'
  BY DEF NInv, NodeMutexes, Constructing, Destructing
<1>4. Counted'
  BY DEF NInv, Counted, Constructing, Destructing
<1>5. Lives'
  BY DEF NInv, Lives, NotAt
<1>6. StartOK'
  BY DEF NInv, StartOK
<1>7. ShutOK'
  BY DEF NInv, ShutOK, NotAt
<1>8. Unasked'
  BY DEF NInv, Unasked, Constructing, Destructing, Counted, NodeMutexes, NotAt, Lives, Places,
    StartLabels, ShutLabels, StartingThreads, Caller
<1> QED BY <1>1, <1>2, <1>3, <1>4, <1>5, <1>6, <1>7, <1>8 DEF NInv

LEMMA ServerLoopRuns ==
    ASSUME NInv, ServerLoop
    PROVE  NInv'
<1> USE Somebody DEF ServerLoop, To, Locks, Free, flags, nodeHandles, histories
<1>0. /\ at[Server] = "loop" /\ UNCHANGED <<flags, back, nodeHandles, histories, shutting_down_, functions_, constructed>>
      /\ \/ /\ "xmlrpc" \in shutting_down_
            /\ at' = [at EXCEPT ![Server] = "ended"] /\ running' = running \ {Server} /\ lock' = lock
         \/ /\ "xmlrpc" \notin shutting_down_ /\ running' = running /\ lock["functions"] = Nobody
            /\ at' = [at EXCEPT ![Server] = "work"] /\ lock' = [lock EXCEPT !["functions"] = Server]
  OBVIOUS
<1> Server # Poll /\ Poll \in Caller /\ Server \notin Caller
  BY Somebody DEF Caller, Poll, Server
<1> \A d \in Caller : at'[d] = at[d] /\ back'[d] = back[d]
  BY <1>0 DEF NInv, Places
<1> /\ lock' \in [Mutex -> Caller \union {Server, Nobody}]
    /\ \A n \in Mutex : n # "functions" => lock'[n] = lock[n]
  BY <1>0, Locking DEF NInv, Mutex, NodeTypes
<1>1. NodeTypes'
  BY DEF NInv, NodeTypes
<1>2. Places'
  BY DEF NInv, Places, ThreadLabels, PollLabels, Caller
<1>3. NodeMutexes'
  BY DEF NInv, NodeMutexes, Mutex, Constructing, Destructing, Caller
<1>4. Counted'
  BY DEF NInv, Counted, Constructing, Destructing, Caller
<1>5. Lives'
  BY DEF NInv, Lives, NotAt
<1>6. StartOK'
  BY DEF NInv, StartOK, NotAt, StartLabels, StartingThreads
<1>7. ShutOK'
  BY DEF NInv, ShutOK, NotAt
<1>8. Unasked'
  BY DEF NInv, Unasked, Constructing, Destructing, Counted, NodeMutexes, NotAt, Lives, Places,
    StartLabels, ShutLabels, StartingThreads, Caller
<1> QED BY <1>1, <1>2, <1>3, <1>4, <1>5, <1>6, <1>7, <1>8 DEF NInv

LEMMA ServerWorkedRuns ==
    ASSUME NInv, ServerWorked
    PROVE  NInv'
<1> USE Somebody DEF ServerWorked, To, Unlocks, flags, nodeHandles, managers, histories
<1>1. NodeTypes'
  BY DEF NInv, NodeTypes
<1>2. Places'
  BY DEF NInv, Places, ThreadLabels, PollLabels, Caller
<1>3. NodeMutexes'
  BY DEF NInv, NodeMutexes, Constructing, Destructing, Caller
<1>4. Counted'
  BY DEF NInv, Counted, Constructing, Destructing, Caller
<1>5. Lives'
  BY DEF NInv, Lives, NotAt
<1>6. StartOK'
  BY DEF NInv, StartOK, NotAt
<1>7. ShutOK'
  BY DEF NInv, ShutOK, NotAt
<1>8. Unasked'
  BY DEF NInv, Unasked, Constructing, Destructing, Counted, NodeMutexes, NotAt, Lives, Places,
    StartLabels, ShutLabels, StartingThreads, Caller
<1> QED BY <1>1, <1>2, <1>3, <1>4, <1>5, <1>6, <1>7, <1>8 DEF NInv

-----------------------------------------------------------------------------
(* The node, whatever it does.                                                  *)

\* The threads of the program, those of the node and the handles do not notice the
\* parameters.
LEMMA NothingRuns ==
    ASSUME NInv, UNCHANGED <<flags, lock, nodeHandles, at, back, managers, histories>>
    PROVE  NInv'
<1> USE DEF flags, nodeHandles, managers, histories
<1>1. NodeTypes' /\ Places' /\ NodeMutexes' /\ Counted'
  BY DEF NInv, NodeTypes, Places, NodeMutexes, Counted, Constructing, Destructing
<1>2. Lives' /\ StartOK' /\ ShutOK' /\ Unasked'
  BY DEF NInv, Lives, StartOK, ShutOK, Unasked, NotAt, Constructing, Destructing
<1> QED BY <1>1, <1>2 DEF NInv

LEMMA StartStepRuns ==
    ASSUME NInv, NEW c \in Caller, StartStep(c)
    PROVE  NInv'
BY StartReturnsRuns, StartBeginsRuns, StartListenersRuns, StartManagersRuns, StartPollRuns, StartXmlrpcRuns,
   StartRosoutRuns, StartServicesRuns, StartRegisteredRuns, StartClockRuns, StartInternalRuns, StartEndRuns
   DEF StartStep

LEMMA ShutStepRuns ==
    ASSUME NInv, NEW c \in Caller, ShutStep(c)
    PROVE  NInv'
BY ShutReturnsRuns, ShutBeginsRuns, ShutInternalRuns, ShutTopicsRuns, ShutUnbindRuns, ShutUnbindingRuns,
   ShutUnregisterRuns, ShutServicesRuns, ShutPollRuns, ShutPollJoinRuns, ShutXmlrpcRuns, ShutXmlrpcJoinRuns,
   ShutDoneRuns
   DEF ShutStep

LEMMA InitRuns == Init => NInv
<1> SUFFICES ASSUME Init PROVE NInv
  OBVIOUS
<1> USE Somebody DEF Init, Caller
<1>0. bound.up \in BOOLEAN
  BY NodeAssumption DEF ParamInit
<1>1. g_shutting_down = FALSE
  BY DEF ParamInit
<1>2. /\ at[Poll] = (IF bound.up THEN "loop" ELSE "ended") /\ back[Poll] = (IF bound.up THEN "loop" ELSE "idle")
      /\ \A t \in Thread : at[t] = "idle" /\ back[t] = "idle"
  BY DEF Poll, Server
<1>3. NodeTypes
  BY <1>0, <1>1, FS_EmptySet DEF NodeTypes, Mutex
<1>4. Places
  BY <1>2 DEF Places, ThreadLabels, PollLabels, StartLabels, ShutLabels, StartingThreads
<1>5. \A L : "idle" \notin L /\ "loop" \notin L /\ "ended" \notin L => NotAt(L)
  BY <1>2 DEF NotAt
<1>6. \A c \in Caller : at[c] \notin StartLabels /\ at[c] \notin ShutLabels
  BY <1>2 DEF StartLabels, StartingThreads, ShutLabels
<1>7. \A t \in Thread : ~Constructing(t) /\ ~Destructing(t) /\ at[t] # "destructed"
  BY <1>2, <1>6 DEF Constructing, Destructing
<1>8. NodeMutexes /\ Counted
  BY <1>6, <1>7 DEF NodeMutexes, Counted
<1>9. Lives
  BY <1>1, <1>6 DEF Lives, NotAt, StartLabels
<1>10. StartOK /\ ShutOK
  BY <1>1 DEF StartOK, ShutOK
<1>11. Unasked
  BY <1>1, <1>6, <1>7 DEF Unasked
<1> QED BY <1>3, <1>4, <1>8, <1>9, <1>10, <1>11 DEF NInv

LEMMA NodeRunStep ==
    ASSUME NInv, [Next]_vars
    PROVE  NInv'
<1>0. Thread \subseteq Caller /\ Poll \in Caller
  BY DEF Caller
<1>1. ASSUME NEW t \in Thread, Calls(t) PROVE NInv'
  BY <1>1, ConstructRuns, DestructRuns, CallStartRuns, CallShutdownRuns, NothingRuns DEF Calls
<1>2. ASSUME NEW t \in Thread, ThreadStep(t) PROVE NInv'
  BY <1>0, <1>2, StartStepRuns, ShutStepRuns, ConstructedRuns, DestructedRuns, NothingRuns DEF ThreadStep
<1>3. CASE RequestShutdown \/ InternalEnds
  BY <1>3, RequestShutdownRuns, InternalEndsRuns
<1>4. CASE OtherNodes
  BY <1>4, NothingRuns DEF OtherNodes
<1>5. CASE PollStep
  BY <1>0, <1>5, PollLoopRuns, CheckForShutdownRuns, CheckedRuns, ShutStepRuns DEF PollStep
<1>6. CASE ServerStep
  BY <1>6, ServerLoopRuns, ServerWorkedRuns, NothingRuns DEF ServerStep, ServerUpdate
<1>7. CASE UNCHANGED vars
  BY <1>7, NothingRuns DEF vars
<1> QED BY <1>1, <1>2, <1>3, <1>4, <1>5, <1>6, <1>7 DEF Next

\* The types, with those of the parameters.
LEMMA TypesOK == CInv /\ NInv => TypeOK
<1> SUFFICES ASSUME CInv, NInv PROVE TypeOK
  OBVIOUS
<1>1. ParamTypeOK
  BY ParamTypes
<1> QED BY <1>1 DEF NInv, NodeTypes, TypeOK

LEMMA NothingIsLeft == NInv => NothingLeftRunning
<1> SUFFICES ASSUME NInv, g_shutting_down, Free("shutting_down"), ~cutShort, ~overlap
             PROVE  /\ \A thread \in running : ToldToEnd(thread)
                    /\ constructed => shutting_down_ = Manager /\ functions_ = {}
  BY DEF NothingLeftRunning
<1>1. NotAt(ShutLabels)
  BY Somebody DEF NInv, NodeMutexes, NotAt, Free
<1>2. constructed => shutting_down_ = Manager /\ functions_ = {}
  BY <1>1 DEF NInv, ShutOK
<1>3. ASSUME NEW thread \in running PROVE ToldToEnd(thread)
  <2>1. shutting_down_ = Manager /\ thread \in {Poll, Server, Internal}
    BY <1>2, <1>3 DEF NInv, Lives, NodeTypes
  <2> QED BY <2>1 DEF ToldToEnd, Manager, Poll, Server, Internal
<1> QED BY <1>2, <1>3

LEMMA HandlesKeepIt == NInv => HandlesKeepNode
<1> SUFFICES ASSUME NInv PROVE HandlesKeepNode
  OBVIOUS
<1>1. g_nh_refcount = Cardinality(handles)
  BY DEF NInv, NodeTypes
<1>2. ASSUME handles # {}, ~asked, ~overlap PROVE g_started /\ ~g_shutting_down
  BY <1>2 DEF NInv, Unasked
<1>3. ASSUME g_started, ~g_shutting_down, ~overlap, Free("start")
      PROVE  running = {Poll, Server, Internal} /\ shutting_down_ = {}
  <2>1. \A c \in Caller : at[c] \notin StartLabels
    BY <1>3, Somebody DEF NInv, NodeMutexes, Free
  <2>2. \A L : L \subseteq StartLabels => NotAt(L)
    BY <2>1 DEF NotAt
  <2>3. /\ NotAt({"start_listeners", "start_managers"}) /\ NotAt({"start_listeners", "start_managers", "start_poll"})
        /\ NotAt(StartingThreads) /\ NotAt(StartLabels \ {"start_end"})
    BY <2>2 DEF StartLabels, StartingThreads
  <2> QED BY <1>3, <2>3 DEF NInv, StartOK, NodeTypes, Manager
<1> QED BY <1>1, <1>2, <1>3 DEF HandlesKeepNode

\* When shutdown() has returned nothing of the node is left that has not been told to end,
\* and whoever has a NodeHandle has a node that runs, for any number of threads that
\* construct and destruct handles, start the node, shut it down and ask for that in any order.
THEOREM NodeRunsWhileWanted == Spec => []RunsWhileWanted
<1>1. CInv /\ NInv => RunsWhileWanted
  BY TypesOK, NothingIsLeft, HandlesKeepIt DEF RunsWhileWanted
<1>2. Init => CInv /\ NInv
  BY InitInv, InitRuns
<1>3. CInv /\ NInv /\ [Next]_vars => (CInv /\ NInv)'
  BY NodeStep, NodeRunStep
<1> QED BY <1>1, <1>2, <1>3, PTL DEF Spec
=============================================================================
