------------------------- MODULE RateLimiterProofs -------------------------
(***************************************************************************)
(* The rate limiter for any keys, limit and window: it implements the      *)
(* sliding window it promises, tells the exact time to wait, and forgets   *)
(* the keys that nobody uses.  At the end, the stores of the prompts and   *)
(* of the feature flags, which share no name with it.                      *)
(***************************************************************************)
EXTENDS RateLimiter, Overrides, FiniteSetTheorems, SequenceTheorems, TLAPS

(* The promise counts the elements of a set as the limiter does.           *)
LEMMA SameCount ==
  ASSUME NEW S
  PROVE  Promise!Cardinality(S) = Cardinality(S)
BY Zenon DEF Promise!Cardinality, Cardinality

IsSuffix(log, all) ==
  /\ Len(log) <= Len(all)
  /\ \A i \in 1 .. Len(log) : log[i] = all[Len(all) - Len(log) + i]

Forgotten(log, all) == 1 .. Len(all) - Len(log)

Ordered(all) == \A i, j \in 1 .. Len(all) : i <= j => all[i] <= all[j]

Younger(all, t) == {i \in DOMAIN all : all[i] > t}

LEMMA LiveIsYounger ==
  ASSUME NEW log \in Seq(Nat), NEW all \in Seq(Nat), IsSuffix(log, all), Ordered(all),
         NEW t \in Int,
         \A i \in Forgotten(log, all) : all[i] <= t,
         log = <<>> \/ log[1] > t
  PROVE  /\ Younger(all, t) = Len(all) - Len(log) + 1 .. Len(all)
         /\ IsFiniteSet(Younger(all, t))
         /\ Cardinality(Younger(all, t)) = Len(log)
<1>1. Len(log) \in Nat /\ Len(all) \in Nat /\ DOMAIN all = 1 .. Len(all)
  OBVIOUS
<1>2. ASSUME NEW i \in 1 .. Len(all) PROVE all[i] > t <=> i > Len(all) - Len(log)
  <2>1. all[i] \in Nat
    OBVIOUS
  <2>2. CASE i <= Len(all) - Len(log)
    BY <1>1, <2>1, <2>2 DEF Forgotten
  <2>3. CASE i > Len(all) - Len(log)
    <3>1. log # <<>> /\ log[1] = all[Len(all) - Len(log) + 1]
      BY <1>1, <2>3 DEF IsSuffix
    <3>2. Len(all) - Len(log) + 1 \in 1 .. Len(all) /\ Len(all) - Len(log) + 1 <= i
      BY <1>1, <2>3 DEF IsSuffix
    <3>3. all[Len(all) - Len(log) + 1] <= all[i]
      BY <3>2 DEF Ordered
    <3>4. all[Len(all) - Len(log) + 1] \in Nat
      BY <3>2
    <3> QED BY <2>1, <2>3, <3>1, <3>3, <3>4
  <2> QED BY <1>1, <2>2, <2>3
<1>3. Younger(all, t) = Len(all) - Len(log) + 1 .. Len(all)
  BY <1>1, <1>2 DEF Younger, IsSuffix
<1>4. /\ IsFiniteSet(Len(all) - Len(log) + 1 .. Len(all))
      /\ Cardinality(Len(all) - Len(log) + 1 .. Len(all)) =
           IF Len(all) - Len(log) + 1 > Len(all) THEN 0 ELSE Len(all) - (Len(all) - Len(log) + 1) + 1
  <2>1. Len(all) - Len(log) + 1 \in Int /\ Len(all) \in Int
    BY <1>1
  <2> QED BY <2>1, FS_Interval, Zenon
<1> QED BY <1>1, <1>3, <1>4

LEMMA LastOfSuffix ==
  ASSUME NEW log \in Seq(Nat), NEW all \in Seq(Nat), IsSuffix(log, all), log # <<>>
  PROVE  Len(all) \in 1 .. Len(all) /\ log[Len(log)] = all[Len(all)]
<1>1. PICK l \in Nat, a \in Nat : l = Len(log) /\ a = Len(all) /\ l <= a /\ l >= 1
  BY DEF IsSuffix
<1>2. log[l] = all[a - l + l]
  BY <1>1 DEF IsSuffix
<1>3. a - l + l = a
  OBVIOUS
<1> QED BY <1>1, <1>2, <1>3

LEMMA EvictedLog ==
  ASSUME NEW log \in Seq(Nat), NEW all \in Seq(Nat), IsSuffix(log, all), NEW t \in Int,
         \A i \in Forgotten(log, all) : all[i] <= t,
         NEW n \in 0 .. Len(log), \A i \in 1 .. n : log[i] <= t
  PROVE  LET live == SubSeq(log, n + 1, Len(log))
         IN  /\ live \in Seq(Nat) /\ Len(live) = Len(log) - n
             /\ \A i \in 1 .. Len(live) : live[i] = log[n + i]
             /\ IsSuffix(live, all)
             /\ \A i \in Forgotten(live, all) : all[i] <= t
<1> DEFINE live == SubSeq(log, n + 1, Len(log))
<1>1. Len(log) \in Nat /\ Len(all) \in Nat /\ Len(log) <= Len(all)
  BY DEF IsSuffix
<1>p. /\ live \in Seq(Nat)
      /\ Len(live) = IF n + 1 <= Len(log) THEN Len(log) - (n + 1) + 1 ELSE 0
      /\ \A i \in 1 .. Len(log) - (n + 1) + 1 : live[i] = log[(n + 1) + i - 1]
  <2>1. n + 1 \in Int /\ Len(log) \in Int /\ \A i \in n + 1 .. Len(log) : log[i] \in Nat
    BY <1>1
  <2> QED BY <2>1, SubSeqProperties
<1> HIDE DEF live
<1>2. live \in Seq(Nat) /\ Len(live) = Len(log) - n
  BY <1>1, <1>p
<1>3. \A i \in 1 .. Len(live) : live[i] = log[n + i]
  <2> SUFFICES ASSUME NEW i \in 1 .. Len(live) PROVE live[i] = log[n + i]
    OBVIOUS
  <2>1. i \in 1 .. Len(log) - (n + 1) + 1 /\ (n + 1) + i - 1 = n + i
    BY <1>1, <1>2
  <2>2. live[i] = log[(n + 1) + i - 1]
    BY <1>p, <2>1
  <2> QED BY <2>1, <2>2
<1>4. IsSuffix(live, all)
  BY <1>1, <1>2, <1>3 DEF IsSuffix
<1>5. ASSUME NEW i \in Forgotten(live, all) PROVE all[i] <= t
  <2>1. i \in 1 .. Len(all) - Len(log) + n
    BY <1>1, <1>2 DEF Forgotten
  <2>2. CASE i > Len(all) - Len(log)
    <3> DEFINE j == i - (Len(all) - Len(log))
    <3>1. j \in 1 .. n /\ all[i] = log[j]
      BY <1>1, <2>1, <2>2 DEF IsSuffix
    <3> QED BY <3>1
  <2> QED BY <1>1, <2>1, <2>2 DEF Forgotten
<1> QED BY <1>2, <1>3, <1>4, <1>5 DEF live

LEMMA SuffixGrows ==
  ASSUME NEW log \in Seq(Nat), NEW all \in Seq(Nat), IsSuffix(log, all), Ordered(all),
         NEW x \in Nat,
         \A i \in 1 .. Len(all) : all[i] <= x
  PROVE  /\ IsSuffix(Append(log, x), Append(all, x))
         /\ Forgotten(Append(log, x), Append(all, x)) = Forgotten(log, all)
         /\ \A i \in 1 .. Len(all) : Append(all, x)[i] = all[i]
         /\ Ordered(Append(all, x))
<1> DEFINE longer == Append(log, x)
           grown  == Append(all, x)
<1>1. PICK l \in Nat, a \in Nat : l = Len(log) /\ a = Len(all) /\ l <= a
  BY DEF IsSuffix
<1>2. /\ Len(longer) = l + 1 /\ \A i \in 1 .. l : longer[i] = log[i]
      /\ longer[l + 1] = x
  BY <1>1, AppendProperties
<1>3. /\ Len(grown) = a + 1 /\ \A i \in 1 .. a : grown[i] = all[i]
      /\ grown[a + 1] = x
  BY <1>1, AppendProperties
<1> HIDE DEF longer, grown
<1>4. \A i \in 1 .. l : log[i] = all[a - l + i]
  BY <1>1 DEF IsSuffix
<1>5. ASSUME NEW i \in 1 .. l + 1 PROVE longer[i] = grown[a + 1 - (l + 1) + i]
  <2>1. CASE i = l + 1
    <3>1. a + 1 - (l + 1) + i = a + 1
      BY <1>1, <2>1
    <3> QED BY <1>2, <1>3, <2>1, <3>1
  <2>2. CASE i \in 1 .. l
    <3>1. a - l + i \in 1 .. a /\ a + 1 - (l + 1) + i = a - l + i
      BY <1>1, <2>2
    <3> QED BY <1>2, <1>3, <1>4, <2>2, <3>1
  <2> QED BY <2>1, <2>2
<1>6. IsSuffix(longer, grown)
  <2>1. Len(longer) <= Len(grown)
    BY <1>1, <1>2, <1>3
  <2>2. \A i \in 1 .. Len(longer) : longer[i] = grown[Len(grown) - Len(longer) + i]
    <3>1. ASSUME NEW i \in 1 .. Len(longer)
          PROVE  longer[i] = grown[Len(grown) - Len(longer) + i]
      <4>1. i \in 1 .. l + 1 /\ Len(grown) - Len(longer) + i = a + 1 - (l + 1) + i
        BY <1>2, <1>3
      <4> QED BY <1>5, <4>1, Zenon
    <3> QED BY <3>1
  <2> QED BY <2>1, <2>2 DEF IsSuffix
<1>7. Ordered(grown)
  <2>1. ASSUME NEW i \in 1 .. a + 1, NEW j \in 1 .. a + 1, i <= j PROVE grown[i] <= grown[j]
    <3>1. CASE j \in 1 .. a
      BY <1>1, <1>3, <2>1, <3>1 DEF Ordered
    <3>2. CASE j = a + 1 /\ i \in 1 .. a
      BY <1>1, <1>3, <3>2
    <3>3. CASE j = a + 1 /\ i = a + 1
      BY <1>3, <3>3
    <3> QED BY <2>1, <3>1, <3>2, <3>3
  <2> QED BY <1>3, <2>1 DEF Ordered
<1>8. Forgotten(longer, grown) = Forgotten(log, all)
  <2>1. a + 1 - (l + 1) = a - l
    OBVIOUS
  <2> QED BY <1>1, <1>2, <1>3, <2>1 DEF Forgotten
<1> QED BY <1>1, <1>3, <1>6, <1>7, <1>8 DEF longer, grown
-----------------------------------------------------------------------------
(* What the dict remembers of a key.                                       *)
LogOf(k) == IF k \in DOMAIN hits THEN hits[k] ELSE <<>>

LimiterTyped ==
  /\ now \in Nat
  /\ DOMAIN hits \subseteq Keys
  /\ \A k \in DOMAIN hits : hits[k] \in Seq(Nat) /\ hits[k] # <<>>
  /\ lastSweep \in Nat \cup {NoSweep}
  /\ granted \in [Keys -> Seq(Nat)]

(* The log of a key is what is left of its grants when the oldest, which   *)
(* have aged out, are forgotten; it never holds more than the limit.       *)
Remembers(k) ==
  /\ IsSuffix(LogOf(k), granted[k])
  /\ Ordered(granted[k])
  /\ \A i \in 1 .. Len(granted[k]) : granted[k][i] <= now
  /\ \A i \in Forgotten(LogOf(k), granted[k]) : granted[k][i] <= now - Window
  /\ Len(LogOf(k)) <= Limit

(* Since the last sweep the dict holds no key that had expired by then.    *)
Swept == lastSweep # NoSweep =>
           /\ lastSweep <= now
           /\ \A k \in DOMAIN hits : hits[k][Len(hits[k])] > lastSweep - Window

LimiterInv ==
  /\ LimiterTyped
  /\ \A k \in Keys : Remembers(k)
  /\ Swept
  /\ IsFiniteSet(DOMAIN hits)

LEMMA LimiterInit == ASSUME LimiterAssumption, Init PROVE LimiterInv
<1>1. LimiterTyped
  BY DEF Init, LimiterTyped
<1>2. ASSUME NEW k \in Keys PROVE Remembers(k)
  <2>1. LogOf(k) = <<>> /\ granted[k] = <<>> /\ Len(<<>>) = 0
    BY DEF Init, LogOf
  <2> QED BY <2>1 DEF Remembers, IsSuffix, Ordered, Forgotten, LimiterAssumption
<1>3. Swept /\ DOMAIN hits = {}
  BY DEF Init, Swept
<1> QED BY <1>1, <1>2, <1>3, FS_EmptySet DEF LimiterInv

LEMMA LimiterTick == ASSUME LimiterAssumption, LimiterInv, Tick PROVE LimiterInv'
<1>1. now \in Nat /\ now' = now + 1 /\ hits' = hits /\ lastSweep' = lastSweep /\ granted' = granted
  BY DEF LimiterInv, LimiterTyped, Tick
<1>2. LimiterTyped'
  BY <1>1 DEF LimiterInv, LimiterTyped, NoSweep
<1>3. ASSUME NEW k \in Keys PROVE Remembers(k)'
  <2>1. LogOf(k)' = LogOf(k) /\ granted[k]' = granted[k] /\ Remembers(k)
    BY <1>1 DEF LogOf, LimiterInv
  <2>2. granted[k] \in Seq(Nat) /\ LogOf(k) \in Seq(Nat) /\ Len(granted[k]) \in Nat /\ Len(LogOf(k)) \in Nat
    BY DEF LimiterInv, LimiterTyped, LogOf
  <2>3. ASSUME NEW i \in 1 .. Len(granted[k]) PROVE granted[k][i] <= now + 1
    <3>1. granted[k][i] \in Nat
      BY <2>2
    <3>2. granted[k][i] <= now
      BY <2>1 DEF Remembers
    <3> QED BY <1>1, <3>1, <3>2
  <2>4. ASSUME NEW i \in Forgotten(LogOf(k), granted[k]) PROVE granted[k][i] <= now + 1 - Window
    <3>0. Remembers(k)
      BY <2>1
    <3>1. i \in 1 .. Len(granted[k]) /\ granted[k][i] <= now - Window
      <4>1. \A j \in Forgotten(LogOf(k), granted[k]) : granted[k][j] <= now - Window
        BY <3>0 DEF Remembers
      <4>2. i \in 1 .. Len(granted[k])
        BY <2>2 DEF Forgotten
      <4> QED BY <4>1, <4>2
    <3>2. granted[k][i] \in Nat
      BY <2>2, <3>1
    <3> QED BY <1>1, <3>1, <3>2 DEF LimiterAssumption
  <2> QED BY <1>1, <2>1, <2>3, <2>4 DEF Remembers
<1>4. Swept'
  BY <1>1 DEF Swept, LimiterInv, LimiterTyped, NoSweep
<1> QED BY <1>1, <1>2, <1>3, <1>4 DEF LimiterInv

(* The log of a key that the sweep, if one is due, leaves in the dict.      *)
LogAfterSweep(k) == IF k \in KeysAfterSweep THEN hits[k] ELSE <<>>

LEMMA AfterSweep ==
  ASSUME LimiterAssumption, LimiterInv, NEW k \in Keys
  PROVE  /\ LogAfterSweep(k) \in Seq(Nat) /\ IsSuffix(LogAfterSweep(k), granted[k])
         /\ Len(LogAfterSweep(k)) <= Limit
         /\ \A i \in Forgotten(LogAfterSweep(k), granted[k]) : granted[k][i] <= now - Window
<1> DEFINE keys == KeysAfterSweep
           log  == LogAfterSweep(k)
           all  == granted[k]
<1>a. /\ now \in Nat /\ all \in Seq(Nat) /\ Len(all) \in Nat
      /\ LogOf(k) \in Seq(Nat) /\ Len(LogOf(k)) \in Nat /\ Remembers(k)
      /\ keys \subseteq DOMAIN hits
  BY DEF LimiterInv, LimiterTyped, LogOf, KeysAfterSweep, SweptKeys
<1>1. CASE k \in keys
  <2>1. log = LogOf(k)
    BY <1>a, <1>1 DEF LogOf, LogAfterSweep
  <2> QED BY <1>a, <2>1 DEF Remembers
<1>2. CASE k \notin keys
  <2>1. log = <<>> /\ Len(log) = 0 /\ IsSuffix(log, all) /\ Forgotten(log, all) = 1 .. Len(all)
    BY <1>a, <1>2 DEF IsSuffix, Forgotten, LogAfterSweep
  <2>2. ASSUME NEW i \in 1 .. Len(all) PROVE all[i] <= now - Window
    <3>1. CASE k \notin DOMAIN hits
      <4>1. LogOf(k) = <<>>
        BY <3>1 DEF LogOf
      <4> QED BY <1>a, <4>1 DEF Remembers, Forgotten
    <3>2. CASE k \in DOMAIN hits
      <4>1. LogOf(k) = hits[k] /\ hits[k] # <<>> /\ Len(hits[k]) \in Nat \ {0}
        BY <1>a, <3>2 DEF LogOf, LimiterInv, LimiterTyped
      <4>2. ~(hits[k][Len(hits[k])] > now - Window)
        BY <1>2, <3>2, <4>1 DEF KeysAfterSweep, SweptKeys
      <4>3. hits[k][Len(hits[k])] = all[Len(all)] /\ Len(all) \in 1 .. Len(all)
        <5>1. IsSuffix(hits[k], all)
          BY <1>a, <4>1 DEF Remembers
        <5> HIDE DEF all
        <5> QED BY <1>a, <4>1, <5>1, LastOfSuffix
      <4>4. all[i] <= all[Len(all)]
        <5>1. Ordered(all)
          BY <1>a DEF Remembers
        <5> HIDE DEF all
        <5> QED BY <1>a, <4>3, <5>1 DEF Ordered
      <4>5. all[i] \in Nat /\ all[Len(all)] \in Nat
        BY <1>a, <4>3
      <4> HIDE DEF all
      <4> QED BY <1>a, <4>2, <4>3, <4>4, <4>5 DEF LimiterAssumption
    <3> QED BY <3>1, <3>2
  <2>3. log \in Seq(Nat) /\ Len(log) <= Limit
    <3>1. log = <<>> /\ Len(log) = 0
      BY <2>1
    <3>2. Limit \in Nat
      BY DEF LimiterAssumption
    <3>3. log \in Seq(Nat)
      BY <3>1
    <3> QED BY <3>1, <3>2, <3>3
  <2>4. \A i \in Forgotten(log, all) : all[i] <= now - Window
    BY <2>1, <2>2
  <2> QED BY <2>1, <2>3, <2>4
<1> QED BY <1>1, <1>2

(* What Hit does, told once: it looks at the log of the key as the sweep   *)
(* left it, drops its aged head and stores what is live, with the hit if   *)
(* it is allowed.                                                          *)
Finds(k, live) ==
  /\ IsSuffix(live, granted[k]) /\ Len(live) <= Limit
  /\ \A i \in Forgotten(live, granted[k]) : granted[k][i] <= now - Window
  /\ live = <<>> \/ live[1] > now - Window
  /\ \/ live = <<>>
     \/ k \in KeysAfterSweep /\ live[Len(live)] = hits[k][Len(hits[k])]
  /\ \/ /\ Len(live) >= Limit
        /\ hits' = Store(KeysAfterSweep, k, live)
        /\ answer' = [allowed |-> FALSE, retryAfter |-> RetryAfter(live),
                      key |-> k, at |-> now]
        /\ granted' = granted
     \/ /\ Len(live) < Limit
        /\ hits' = Store(KeysAfterSweep, k, Append(live, now))
        /\ answer' = [allowed |-> TRUE, retryAfter |-> 0, key |-> k, at |-> now]
        /\ granted' = [granted EXCEPT ![k] = Append(@, now)]

LEMMA HitLive ==
  ASSUME LimiterAssumption, LimiterInv, NEW k \in Keys, Hit(k)
  PROVE  \E live \in Seq(Nat) : Finds(k, live)
<1> DEFINE keys == KeysAfterSweep
           log  == IF k \in keys THEN hits[k] ELSE <<>>
           all  == granted[k]
<1>1. PICK n \in 0 .. Len(log) :
        /\ EvictsFirst(log, n)
        /\ LET live == SubSeq(log, n + 1, Len(log))
           IN  \/ /\ Len(live) >= Limit
                  /\ hits' = Store(keys, k, live)
                  /\ answer' = [allowed |-> FALSE, retryAfter |-> RetryAfter(live),
                                key |-> k, at |-> now]
                  /\ UNCHANGED granted
               \/ /\ Len(live) < Limit
                  /\ hits' = Store(keys, k, Append(live, now))
                  /\ answer' = [allowed |-> TRUE, retryAfter |-> 0, key |-> k, at |-> now]
                  /\ granted' = [granted EXCEPT ![k] = Append(@, now)]
  BY DEF Hit
<1> DEFINE live == SubSeq(log, n + 1, Len(log))
<1>2. /\ now \in Nat /\ all \in Seq(Nat) /\ Len(all) \in Nat
      /\ LogOf(k) \in Seq(Nat) /\ Len(LogOf(k)) \in Nat /\ Remembers(k)
      /\ keys \subseteq DOMAIN hits
  BY DEF LimiterInv, LimiterTyped, LogOf, KeysAfterSweep, SweptKeys
<1>3. /\ log \in Seq(Nat) /\ IsSuffix(log, all) /\ Len(log) <= Limit
      /\ \A i \in Forgotten(log, all) : all[i] <= now - Window
  BY AfterSweep DEF LogAfterSweep
<1>4. Len(log) \in Nat /\ now - Window \in Int
  BY <1>2, <1>3 DEF LimiterAssumption
<1>5. \A i \in 1 .. n : log[i] <= now - Window
  BY <1>1 DEF EvictsFirst
<1>6. n < Len(log) => log[n + 1] > now - Window
  BY <1>1 DEF EvictsFirst
<1> HIDE DEF log
<1>7. /\ live \in Seq(Nat) /\ Len(live) = Len(log) - n
      /\ \A i \in 1 .. Len(live) : live[i] = log[n + i]
      /\ IsSuffix(live, all)
      /\ \A i \in Forgotten(live, all) : all[i] <= now - Window
  BY <1>2, <1>3, <1>4, <1>5, EvictedLog
<1>8. live # <<>> => /\ Len(live) \in Nat \ {0} /\ live[1] > now - Window
                     /\ live[Len(live)] = log[Len(log)]
  <2> HIDE DEF live
  <2> SUFFICES ASSUME live # <<>> PROVE /\ Len(live) \in Nat \ {0} /\ live[1] > now - Window
                     /\ live[Len(live)] = log[Len(log)]
    OBVIOUS
  <2>1. Len(live) \in Nat \ {0}
    BY <1>7
  <2>2. live[1] = log[n + 1] /\ live[Len(live)] = log[n + Len(live)] /\ n < Len(log) /\ n + Len(live) = Len(log)
    BY <1>4, <1>7, <2>1
  <2> QED BY <1>6, <2>1, <2>2
<1>9. live # <<>> => k \in keys /\ log = hits[k]
  <2>1. k \notin keys => log = <<>> /\ Len(log) = 0
    BY DEF log
  <2>2. Len(log) = 0 => live = <<>>
    <3> HIDE DEF live
    <3> QED BY <1>4, <1>7
  <2> QED BY <2>1, <2>2 DEF log
<1>10. Len(live) <= Limit
  BY <1>3, <1>4, <1>7 DEF LimiterAssumption
<1>11. live = <<>> \/ (k \in keys /\ live[Len(live)] = hits[k][Len(hits[k])])
  BY <1>8, <1>9
<1> QED
  <2> HIDE DEF live, keys
  <2>1. \/ /\ Len(live) >= Limit
           /\ hits' = Store(keys, k, live)
           /\ answer' = [allowed |-> FALSE, retryAfter |-> RetryAfter(live),
                         key |-> k, at |-> now]
           /\ UNCHANGED granted
        \/ /\ Len(live) < Limit
           /\ hits' = Store(keys, k, Append(live, now))
           /\ answer' = [allowed |-> TRUE, retryAfter |-> 0, key |-> k, at |-> now]
           /\ granted' = [granted EXCEPT ![k] = Append(@, now)]
    BY <1>1 DEF live
  <2>2. Finds(k, live)
    BY <1>7, <1>8, <1>10, <1>11, <2>1 DEF keys, Finds
  <2> QED BY <1>7, <2>2


(* What a call leaves behind: `kept` is the log of its key.                *)
Leaves(k, kept) ==
  /\ hits' = Store(KeysAfterSweep, k, kept) /\ Len(kept) <= Limit
  /\ granted' \in [Keys -> Seq(Nat)] /\ \A j \in Keys \ {k} : granted'[j] = granted[j]
  /\ IsSuffix(kept, granted'[k]) /\ Ordered(granted'[k])
  /\ \A i \in 1 .. Len(granted'[k]) : granted'[k][i] <= now
  /\ \A i \in Forgotten(kept, granted'[k]) : granted'[k][i] <= now - Window
  /\ \/ kept = <<>> \/ kept[Len(kept)] = now
     \/ k \in KeysAfterSweep /\ kept[Len(kept)] = hits[k][Len(hits[k])]

(* A call keeps the invariant.                                             *)
LEMMA HitInv == ASSUME LimiterAssumption, LimiterInv, NEW k \in Keys, Hit(k) PROVE LimiterInv'
<1> DEFINE keys == KeysAfterSweep
<1>1. PICK live \in Seq(Nat) : Finds(k, live)
  BY HitLive
<1>2. /\ now \in Nat /\ now' = now /\ Window \in Nat /\ Window > 0 /\ Limit \in Nat
      /\ lastSweep' = IF SweepDue THEN now ELSE lastSweep
      /\ granted \in [Keys -> Seq(Nat)] /\ granted[k] \in Seq(Nat) /\ Remembers(k)
  BY DEF LimiterInv, LimiterTyped, Hit, LimiterAssumption
<1>3. /\ keys \subseteq DOMAIN hits /\ DOMAIN hits \subseteq Keys /\ IsFiniteSet(DOMAIN hits)
      /\ \A j \in keys : hits[j] \in Seq(Nat) /\ hits[j] # <<>> /\ hits[j][Len(hits[j])] \in Nat
  <2>1. keys \subseteq DOMAIN hits /\ DOMAIN hits \subseteq Keys /\ IsFiniteSet(DOMAIN hits)
    BY DEF LimiterInv, LimiterTyped, KeysAfterSweep, SweptKeys
  <2>2. ASSUME NEW j \in keys PROVE hits[j] \in Seq(Nat) /\ hits[j] # <<>> /\ hits[j][Len(hits[j])] \in Nat
    <3>1. hits[j] \in Seq(Nat) /\ hits[j] # <<>>
      BY <2>1 DEF LimiterInv, LimiterTyped
    <3> QED BY <3>1
  <2> QED BY <2>1, <2>2
<1> HIDE DEF keys
<1>4. PICK kept \in Seq(Nat) : Leaves(k, kept)
  <2>1. CASE hits' = Store(keys, k, live) /\ granted' = granted
    <3>1. granted' = granted /\ granted'[k] = granted[k]
      BY <2>1
    <3>2. Leaves(k, live)
      BY <1>1, <1>2, <2>1, <3>1 DEF Finds, Remembers, Leaves, keys
    <3> QED BY <3>2
  <2>2. CASE /\ Len(live) < Limit
             /\ hits' = Store(keys, k, Append(live, now))
             /\ granted' = [granted EXCEPT ![k] = Append(@, now)]
    <3> DEFINE all == granted[k]
               kept == Append(live, now)
    <3>1. /\ kept \in Seq(Nat) /\ Len(kept) = Len(live) + 1 /\ kept[Len(kept)] = now
          /\ Append(all, now) \in Seq(Nat) /\ Len(Append(all, now)) = Len(all) + 1
          /\ Append(all, now)[Len(all) + 1] = now /\ Len(all) \in Nat /\ Len(live) \in Nat
      BY <1>2, AppendProperties
    <3>2. /\ granted'[k] = Append(all, now) /\ granted' \in [Keys -> Seq(Nat)]
          /\ \A j \in Keys \ {k} : granted'[j] = granted[j]
      BY <1>2, <2>2, <3>1
    <3>3. Ordered(all) /\ \A i \in 1 .. Len(all) : all[i] <= now
      BY <1>2 DEF Remembers
    <3>4. all \in Seq(Nat) /\ IsSuffix(live, all)
      BY <1>1, <1>2 DEF Finds
    <3>5. /\ IsSuffix(kept, Append(all, now)) /\ Forgotten(kept, Append(all, now)) = Forgotten(live, all)
          /\ \A i \in 1 .. Len(all) : Append(all, now)[i] = all[i]
          /\ Ordered(Append(all, now))
      <4> HIDE DEF all
      <4> QED BY <1>2, <3>3, <3>4, SuffixGrows
    <3>6. \A i \in Forgotten(live, all) : i \in 1 .. Len(all) /\ all[i] <= now - Window
      BY <1>1, <3>1 DEF Finds, Forgotten
    <3> HIDE DEF all
    <3>7. ASSUME NEW i \in 1 .. Len(all) + 1 PROVE Append(all, now)[i] <= now
      <4>1. CASE i \in 1 .. Len(all)
        BY <3>3, <3>5, <4>1
      <4>2. CASE i = Len(all) + 1
        BY <1>2, <3>1, <4>2
      <4> QED BY <3>1, <4>1, <4>2
    <3>8. ASSUME NEW i \in Forgotten(kept, Append(all, now)) PROVE Append(all, now)[i] <= now - Window
      BY <3>5, <3>6
    <3>9. Len(kept) <= Limit
      BY <1>2, <2>2, <3>1
    <3> HIDE DEF kept
    <3>10. hits' = Store(keys, k, kept)
      BY <2>2 DEF kept
    <3>11. Leaves(k, kept)
      BY <3>1, <3>2, <3>5, <3>7, <3>8, <3>9, <3>10 DEF Leaves, keys
    <3> QED BY <3>1, <3>11
  <2> QED BY <1>1, <2>1, <2>2 DEF Finds, keys
<1>5. /\ DOMAIN hits' = (keys \ {k}) \cup (IF kept = <<>> THEN {} ELSE {k})
      /\ \A j \in DOMAIN hits' : hits'[j] = IF j = k THEN kept ELSE hits[j]
  BY <1>4 DEF Leaves, Store, keys
<1>6. LimiterTyped'
  <2>1. DOMAIN hits' \subseteq Keys /\ \A j \in DOMAIN hits' : hits'[j] \in Seq(Nat) /\ hits'[j] # <<>>
    BY <1>3, <1>5
  <2>2. lastSweep' \in Nat \cup {NoSweep}
    BY <1>2 DEF LimiterInv, LimiterTyped
  <2> QED BY <1>2, <1>4, <2>1, <2>2 DEF LimiterTyped, Leaves
<1>7. ASSUME NEW j \in Keys PROVE Remembers(j)'
  <2>1. CASE j = k
    <3>1. LogOf(k)' = kept
      BY <1>5 DEF LogOf
    <3> QED BY <1>2, <1>4, <2>1, <3>1 DEF Remembers, Leaves
  <2>2. CASE j # k
    <3>1. LogOf(j)' = LogAfterSweep(j) /\ granted'[j] = granted[j]
      BY <1>4, <1>5, <2>2 DEF LogOf, LogAfterSweep, Leaves, keys
    <3>2. Remembers(j)
      BY DEF LimiterInv
    <3> QED BY <1>2, <3>1, <3>2, AfterSweep DEF Remembers
  <2> QED BY <2>1, <2>2
<1>8. Swept'
  <2> SUFFICES ASSUME lastSweep' # NoSweep
               PROVE  lastSweep' <= now /\ \A j \in DOMAIN hits' : hits'[j][Len(hits'[j])] > lastSweep' - Window
    BY <1>2 DEF Swept
  <2>1. lastSweep' \in Nat /\ lastSweep' <= now
    BY <1>2 DEF LimiterInv, LimiterTyped, Swept
  <2>2. ASSUME NEW j \in keys PROVE hits[j][Len(hits[j])] > lastSweep' - Window
    <3>1. CASE SweepDue
      BY <1>2, <2>2, <3>1 DEF keys, KeysAfterSweep, SweptKeys
    <3>2. CASE ~SweepDue
      BY <1>2, <1>3, <2>2, <3>2 DEF LimiterInv, Swept
    <3> QED BY <3>1, <3>2
  <2>3. kept # <<>> => kept[Len(kept)] > lastSweep' - Window
    BY <1>2, <1>4, <2>1, <2>2 DEF Leaves, keys
  <2> QED BY <1>5, <2>1, <2>2, <2>3
<1>9. IsFiniteSet(DOMAIN hits')
  <2>1. IsFiniteSet(DOMAIN hits \cup {k}) /\ DOMAIN hits' \subseteq DOMAIN hits \cup {k}
    BY <1>3, <1>5, FS_AddElement
  <2> QED BY <2>1, FS_Subset
<1> QED BY <1>6, <1>7, <1>8, <1>9 DEF LimiterInv

LEMMA LimiterStep ==
  ASSUME LimiterAssumption, LimiterInv, [Next]_vars PROVE LimiterInv'
<1>1. CASE Tick
  BY <1>1, LimiterTick
<1>2. ASSUME NEW k \in Keys, Hit(k) PROVE LimiterInv'
  BY <1>2, HitInv
<1>3. CASE UNCHANGED vars
  BY <1>3 DEF vars, LimiterInv, LimiterTyped, Remembers, LogOf, Swept
<1> QED BY <1>1, <1>2, <1>3 DEF Next

(* The dict and its sweep clock are consistent with the history of grants. *)
LEMMA LimiterKeeps == ASSUME LimiterAssumption PROVE Spec => []LimiterInv
<1>1. Init => LimiterInv
  BY LimiterInit
<1>2. LimiterInv /\ [Next]_vars => LimiterInv'
  BY LimiterStep
<1> QED BY <1>1, <1>2, PTL DEF Spec
-----------------------------------------------------------------------------
(* An answer of the limiter is the answer of the promise: what is live in  *)
(* the log is what was granted in the window.                              *)
LEMMA HitPromised ==
  ASSUME LimiterAssumption, LimiterInv, NEW k \in Keys, Hit(k)
  PROVE  Promise!Request(k)
<1>1. PICK live \in Seq(Nat) : Finds(k, live)
  BY HitLive
<1>2. now \in Nat /\ granted[k] \in Seq(Nat) /\ Ordered(granted[k]) /\ now - Window \in Int /\ now' = now
  BY DEF LimiterInv, LimiterTyped, Remembers, LimiterAssumption, Hit
<1>3. Cardinality(Promise!Recent(k)) = Len(live)
  BY <1>1, <1>2, LiveIsYounger DEF Finds, Promise!Recent, Younger
<1>4. Len(live) \in Nat /\ Limit \in Nat
  BY DEF LimiterAssumption
<1>5. CASE /\ Len(live) >= Limit /\ answer'.allowed = FALSE /\ granted' = granted
  <2>1. (Cardinality(Promise!Recent(k)) < Limit) = FALSE
    BY <1>3, <1>4, <1>5
  <2> QED BY <1>2, <1>5, <2>1, SameCount DEF Promise!Request
<1>6. CASE /\ Len(live) < Limit /\ answer'.allowed = TRUE
           /\ granted' = [granted EXCEPT ![k] = Append(@, now)]
  BY <1>2, <1>3, <1>4, <1>6, SameCount DEF Promise!Request
<1>7. \/ /\ Len(live) >= Limit /\ answer'.allowed = FALSE /\ granted' = granted
      \/ /\ Len(live) < Limit /\ answer'.allowed = TRUE
         /\ granted' = [granted EXCEPT ![k] = Append(@, now)]
  BY <1>1 DEF Finds
<1> QED BY <1>5, <1>6, <1>7

(* Whatever the dict forgets (a log's aged head, an emptied log, the keys  *)
(* a sweep drops), the limiter answers every caller as one that keeps all  *)
(* grants for ever: at most Limit of them in any window.                   *)
THEOREM LimiterIsSlidingWindow ==
  ASSUME LimiterAssumption PROVE Spec => ImplementsSlidingWindow
<1>1. Init => Promise!Init
  BY DEF Init, Promise!Init
<1>2. LimiterInv /\ [Next]_vars => [Promise!Next]_Promise!vars
  <2> SUFFICES ASSUME LimiterInv, [Next]_vars
               PROVE  [Promise!Next]_Promise!vars
    OBVIOUS
  <2>1. CASE Tick
    BY <2>1 DEF Tick, Promise!Next, Promise!Tick
  <2>2. ASSUME NEW k \in Keys, Hit(k) PROVE Promise!Next
    BY <2>2, HitPromised DEF Promise!Next
  <2>3. CASE UNCHANGED vars
    BY <2>3 DEF vars, Promise!vars
  <2> QED BY <2>1, <2>2, <2>3 DEF Next
<1> QED
  BY <1>1, <1>2, LimiterKeeps, PTL DEF Spec, ImplementsSlidingWindow, Promise!Spec

-----------------------------------------------------------------------------
(* Rounding a wait up to whole seconds: enough, and not a second too long. *)
LEMMA CeilIsExact ==
  ASSUME LimiterAssumption, NEW ticks \in Nat \ {0}
  PROVE  LET seconds == CeilSeconds(ticks)
         IN  /\ seconds \in Nat /\ seconds >= 1
             /\ seconds * TicksPerSecond \in Nat /\ seconds * TicksPerSecond >= ticks
             /\ (seconds - 1) * TicksPerSecond \in Nat /\ (seconds - 1) * TicksPerSecond < ticks
<1> DEFINE y == ticks + TicksPerSecond - 1
           seconds == y \div TicksPerSecond
<1>1. TicksPerSecond \in Nat \ {0} /\ y \in Nat /\ y >= TicksPerSecond
  BY DEF LimiterAssumption
<1>2. /\ seconds \in Nat /\ seconds * TicksPerSecond <= y
      /\ y < seconds * TicksPerSecond + TicksPerSecond
  <2> HIDE DEF y
  <2> QED BY <1>1
<1> HIDE DEF seconds
<1>3. seconds # 0
  BY <1>1, <1>2
<1>4. (seconds - 1) * TicksPerSecond = seconds * TicksPerSecond - TicksPerSecond
  BY <1>1, <1>2
<1>5. seconds * TicksPerSecond \in Nat /\ (seconds - 1) * TicksPerSecond \in Nat
  BY <1>1, <1>2, <1>3
<1>6. seconds * TicksPerSecond >= ticks /\ (seconds - 1) * TicksPerSecond < ticks
  <2> DEFINE p == seconds * TicksPerSecond
  <2>1. p \in Nat /\ p <= y /\ y < p + TicksPerSecond /\ (seconds - 1) * TicksPerSecond = p - TicksPerSecond
    BY <1>2, <1>4, <1>5
  <2> HIDE DEF p
  <2>2. p >= ticks /\ p - TicksPerSecond < ticks
    BY <1>1, <2>1
  <2> QED BY <2>1, <2>2 DEF p
<1> QED BY <1>2, <1>3, <1>5, <1>6 DEF seconds, CeilSeconds

(* The grants still counted when the oldest live one has aged out, and     *)
(* while it has not.                                                       *)
LEMMA OldestLiveDecides ==
  ASSUME NEW live \in Seq(Nat), NEW all \in Seq(Nat), IsSuffix(live, all), Ordered(all),
         live # <<>>,
         NEW t \in Int
  PROVE  /\ t >= live[1] => Cardinality(Younger(all, t)) < Len(live)
         /\ t < live[1] => Cardinality(Younger(all, t)) >= Len(live)
<1>1. PICK l \in Nat, a \in Nat : l = Len(live) /\ a = Len(all) /\ l <= a /\ l >= 1
  BY DEF IsSuffix
<1>2. live[1] = all[a - l + 1] /\ a - l + 1 \in 1 .. a
  <2>1. 1 \in 1 .. l /\ a - l + 1 \in 1 .. a
    BY <1>1
  <2> QED BY <1>1, <2>1 DEF IsSuffix
<1>3. DOMAIN all = 1 .. a /\ \A i \in 1 .. a : all[i] \in Nat
  BY <1>1
<1>4. IsFiniteSet(Younger(all, t))
  <2>1. IsFiniteSet(1 .. a)
    BY <1>1, FS_Interval
  <2> QED BY <1>3, <2>1, FS_Subset DEF Younger
<1>5. CASE t >= live[1]
  <2> DEFINE later == a - l + 2 .. a
  <2>1. Younger(all, t) \subseteq later
    <3>1. ASSUME NEW i \in 1 .. a, all[i] > t PROVE i >= a - l + 2
      <4>1. CASE i <= a - l + 1
        <5>1. all[i] <= all[a - l + 1]
          BY <1>1, <1>2, <4>1 DEF Ordered
        <5> QED BY <1>2, <1>3, <1>5, <3>1, <5>1
      <4> QED BY <1>1, <4>1
    <3> QED BY <1>1, <1>3, <3>1 DEF Younger
  <2>2. IsFiniteSet(later) /\ Cardinality(later) = l - 1
    <3>1. a - l + 2 \in Int /\ a \in Int
      BY <1>1
    <3>2. /\ IsFiniteSet(later)
          /\ Cardinality(later) = IF a - l + 2 > a THEN 0 ELSE a - (a - l + 2) + 1
      BY <3>1, FS_Interval, Zenon
    <3> QED BY <1>1, <3>2
  <2>3. Cardinality(Younger(all, t)) <= l - 1 /\ Cardinality(Younger(all, t)) \in Nat
    BY <1>4, <2>1, <2>2, FS_Subset, FS_CardinalityType
  <2> QED BY <1>1, <1>2, <1>3, <1>5, <2>3
<1>6. CASE t < live[1]
  <2> DEFINE window == a - l + 1 .. a
  <2>1. window \subseteq Younger(all, t)
    <3>1. ASSUME NEW i \in window PROVE i \in 1 .. a /\ all[i] > t
      <4>1. i \in 1 .. a /\ a - l + 1 <= i
        BY <1>1
      <4>2. all[a - l + 1] <= all[i]
        BY <1>1, <1>2, <4>1 DEF Ordered
      <4> QED BY <1>2, <1>3, <1>6, <4>1, <4>2
    <3> QED BY <1>3, <3>1 DEF Younger
  <2>2. Cardinality(window) = l
    <3>1. a - l + 1 \in Int /\ a \in Int
      BY <1>1
    <3>2. Cardinality(window) = IF a - l + 1 > a THEN 0 ELSE a - (a - l + 1) + 1
      BY <3>1, FS_Interval, Zenon
    <3> QED BY <1>1, <3>2
  <2>3. l <= Cardinality(Younger(all, t)) /\ Cardinality(Younger(all, t)) \in Nat
    BY <1>4, <2>1, <2>2, FS_Subset, FS_CardinalityType
  <2> QED BY <1>1, <1>2, <1>3, <1>6, <2>3
<1>7. live[1] \in Int
  BY <1>2, <1>3
<1> QED BY <1>5, <1>6, <1>7

LEMMA RefusalIsExact ==
  ASSUME LimiterAssumption, LimiterInv, NEW k \in Keys, Hit(k)
  PROVE  RetryAfterExact'
<1> DEFINE Counted(seconds) ==
      Younger(granted'[answer'.key], (answer'.at + seconds * TicksPerSecond) - Window)
<1> SUFFICES ASSUME ~answer'.allowed, Limit > 0
             PROVE  /\ Cardinality(Counted(answer'.retryAfter)) < Limit
                    /\ answer'.retryAfter > 1 => Cardinality(Counted(answer'.retryAfter - 1)) >= Limit
  <2>1. /\ LiveAt(answer.key, answer.at + answer.retryAfter * TicksPerSecond)'
             = Counted(answer'.retryAfter)
        /\ LiveAt(answer.key, answer.at + (answer.retryAfter - 1) * TicksPerSecond)'
             = Counted(answer'.retryAfter - 1)
    BY DEF LiveAt, Younger
  <2>2. RetryAfterExact' =
          (~answer'.allowed /\ Limit > 0 =>
             /\ Cardinality(LiveAt(answer.key, answer.at + answer.retryAfter * TicksPerSecond)') < Limit
             /\ answer'.retryAfter > 1 =>
                  Cardinality(LiveAt(answer.key, answer.at + (answer.retryAfter - 1) * TicksPerSecond)') >= Limit)
    BY SameCount, Zenon DEF RetryAfterExact
  <2> QED BY <2>1, <2>2, Zenon
<1>0. PICK live \in Seq(Nat) : Finds(k, live)
  BY HitLive
<1>1. /\ IsSuffix(live, granted[k]) /\ Len(live) = Limit
      /\ live = <<>> \/ live[1] > now - Window
      /\ answer' = [allowed |-> FALSE, retryAfter |-> RetryAfter(live), key |-> k, at |-> now]
      /\ granted' = granted
  <2>1. Limit \in Nat /\ Len(live) \in Nat
    BY DEF LimiterAssumption
  <2> QED BY <1>0, <2>1 DEF Finds
<1>2. now \in Nat /\ granted[k] \in Seq(Nat) /\ Ordered(granted[k]) /\ Window \in Nat /\ Limit \in Nat
  BY DEF LimiterInv, LimiterTyped, Remembers, LimiterAssumption
<1>3. live # <<>> /\ live[1] \in Nat /\ live[1] > now - Window
  BY <1>1, <1>2
<1> DEFINE wait    == live[1] + Window - now
           seconds == CeilSeconds(wait)
<1>4. wait \in Nat \ {0}
  BY <1>2, <1>3
<1>5. /\ seconds \in Nat /\ seconds >= 1
      /\ seconds * TicksPerSecond \in Nat /\ seconds * TicksPerSecond >= wait
      /\ (seconds - 1) * TicksPerSecond \in Nat /\ (seconds - 1) * TicksPerSecond < wait
  BY <1>4, CeilIsExact
<1>6. RetryAfter(live) = seconds
  <2>1. RetryAfter(live) = IF seconds < 1 THEN 1 ELSE seconds
    BY <1>3 DEF RetryAfter
  <2> QED BY <1>5, <2>1
<1> DEFINE free == seconds * TicksPerSecond
           held == (seconds - 1) * TicksPerSecond
<1>7. /\ free \in Nat /\ (now + free) - Window \in Int /\ (now + free) - Window >= live[1]
      /\ held \in Nat /\ (now + held) - Window \in Int /\ (now + held) - Window < live[1]
  <2>1. free \in Nat /\ held \in Nat /\ free >= wait /\ held < wait
    BY <1>5
  <2> HIDE DEF free, held
  <2> QED BY <1>2, <1>3, <2>1
<1>9. /\ Cardinality(Younger(granted[k], (now + free) - Window)) < Limit
      /\ Cardinality(Younger(granted[k], (now + held) - Window)) >= Limit
  <2> HIDE DEF free, held
  <2> QED BY <1>1, <1>2, <1>3, <1>7, OldestLiveDecides
<1>10. answer'.key = k /\ answer'.at = now /\ answer'.retryAfter = seconds
  BY <1>1, <1>6
<1> HIDE DEF seconds
<1> QED BY <1>1, <1>9, <1>10

(* The Retry-After of a 429 is exact, at any limit, window and resolution  *)
(* of the clock: after it the caller has a slot, a second earlier not.     *)
THEOREM RetryAfterIsExact ==
  ASSUME LimiterAssumption PROVE Spec => []RetryAfterExact
<1>1. Init => RetryAfterExact
  BY DEF Init, RetryAfterExact
<1>2. LimiterInv /\ RetryAfterExact /\ [Next]_vars => RetryAfterExact'
  <2> SUFFICES ASSUME LimiterInv, RetryAfterExact, [Next]_vars
               PROVE  RetryAfterExact'
    OBVIOUS
  <2>1. CASE UNCHANGED <<granted, answer>>
    BY <2>1 DEF RetryAfterExact, LiveAt
  <2>2. ASSUME NEW k \in Keys, Hit(k) PROVE RetryAfterExact'
    BY <2>2, RefusalIsExact
  <2> QED BY <2>1, <2>2 DEF Next, Tick, vars
<1> QED BY <1>1, <1>2, LimiterKeeps, PTL DEF Spec

-----------------------------------------------------------------------------
LEMMA HitReclaims ==
  ASSUME LimiterAssumption, LimiterInv, NEW k \in Keys, Hit(k)
  PROVE  StaleKeysReclaimed'
<1> DEFINE keys == KeysAfterSweep
<1>1. PICK live \in Seq(Nat) : Finds(k, live)
  BY HitLive
<1>2. PICK kept \in Seq(Nat) :
        /\ hits' = Store(keys, k, kept)
        /\ \/ kept = <<>> \/ kept[Len(kept)] = now
           \/ k \in keys /\ kept[Len(kept)] = hits[k][Len(hits[k])]
  <2>1. now \in Nat
    BY DEF LimiterInv, LimiterTyped
  <2>2. Append(live, now) \in Seq(Nat) /\ Append(live, now)[Len(Append(live, now))] = now
    BY <2>1, AppendProperties
  <2>3. CASE hits' = Store(keys, k, live)
    BY <1>1, <2>3 DEF Finds
  <2>4. CASE hits' = Store(keys, k, Append(live, now))
    BY <2>2, <2>4
  <2> QED BY <1>1, <2>3, <2>4 DEF Finds
<1>a. answer'.at = now
  BY <1>1 DEF Finds
<1>3. /\ now \in Nat /\ Window \in Nat \ {0} /\ MaxKeys \in Nat /\ IsFiniteSet(DOMAIN hits)
      /\ keys \subseteq DOMAIN hits
  BY DEF LimiterInv, LimiterTyped, KeysAfterSweep, SweptKeys, LimiterAssumption
<1> SUFFICES ASSUME Cardinality(DOMAIN hits') > MaxKeys + 1
             PROVE  \A j \in DOMAIN hits' : hits'[j][Len(hits'[j])] > now - 2 * Window
  BY <1>a, SameCount DEF StaleKeysReclaimed
<1>4. Cardinality(DOMAIN hits) > MaxKeys
  <2>1. DOMAIN hits' \subseteq DOMAIN hits \cup {k}
    BY <1>2, <1>3 DEF Store
  <2>2. /\ IsFiniteSet(DOMAIN hits \cup {k})
        /\ Cardinality(DOMAIN hits \cup {k}) <= Cardinality(DOMAIN hits) + 1
    <3>1. Cardinality(DOMAIN hits) \in Nat
      BY <1>3, FS_CardinalityType
    <3>2. Cardinality(DOMAIN hits \cup {k}) = IF k \in DOMAIN hits THEN Cardinality(DOMAIN hits)
                                               ELSE Cardinality(DOMAIN hits) + 1
      BY <1>3, FS_AddElement
    <3> QED BY <1>3, <3>1, <3>2, FS_AddElement
  <2>3. Cardinality(DOMAIN hits') <= Cardinality(DOMAIN hits \cup {k})
    BY <2>1, <2>2, FS_Subset
  <2>4. /\ Cardinality(DOMAIN hits) \in Nat /\ Cardinality(DOMAIN hits') \in Nat
        /\ Cardinality(DOMAIN hits \cup {k}) \in Nat
    BY <1>3, <2>1, <2>2, FS_CardinalityType, FS_Subset
  <2> QED BY <1>3, <2>2, <2>3, <2>4
<1>5. ASSUME NEW j \in keys PROVE hits[j][Len(hits[j])] > now - 2 * Window
  <2>0. j \in DOMAIN hits /\ hits[j][Len(hits[j])] \in Nat
    <3>1. j \in DOMAIN hits
      BY <1>3
    <3>2. hits[j] \in Seq(Nat) /\ hits[j] # <<>>
      BY <3>1 DEF LimiterInv, LimiterTyped
    <3> QED BY <3>1, <3>2
  <2>1. CASE SweepDue
    <3>1. hits[j][Len(hits[j])] > now - Window
      BY <2>1 DEF KeysAfterSweep, SweptKeys
    <3> QED BY <1>3, <2>0, <3>1
  <2>2. CASE ~SweepDue
    <3>1. lastSweep # NoSweep /\ ~(now - lastSweep >= Window) /\ lastSweep \in Nat
      BY <1>4, <2>2, SameCount DEF SweepDue, NoSweep, LimiterInv, LimiterTyped
    <3>2. hits[j][Len(hits[j])] > lastSweep - Window
      BY <2>0, <3>1 DEF LimiterInv, Swept
    <3> QED BY <1>3, <2>0, <3>1, <3>2
  <2> QED BY <2>1, <2>2
<1> HIDE DEF keys
<1>6. ASSUME NEW j \in DOMAIN hits' PROVE hits'[j][Len(hits'[j])] > now - 2 * Window
  <2>1. (j = k /\ kept # <<>>) \/ (j # k /\ j \in keys)
    BY <1>2 DEF Store
  <2>2. hits'[j] = IF j = k THEN kept ELSE hits[j]
    BY <1>2 DEF Store
  <2>3. now > now - 2 * Window
    BY <1>3
  <2> QED BY <1>2, <1>5, <2>1, <2>2, <2>3
<1> QED BY <1>6

(* The dict is bounded by use: above its soft cap it holds only keys that  *)
(* were allowed in the last two windows, however the sweeps are throttled. *)
THEOREM StaleKeysAreReclaimed ==
  ASSUME LimiterAssumption PROVE Spec => []StaleKeysReclaimed
<1>1. Init => StaleKeysReclaimed
  BY DEF Init, StaleKeysReclaimed
<1>2. LimiterInv /\ StaleKeysReclaimed /\ [Next]_vars => StaleKeysReclaimed'
  <2> SUFFICES ASSUME LimiterInv, StaleKeysReclaimed, [Next]_vars
               PROVE  StaleKeysReclaimed'
    OBVIOUS
  <2>1. CASE UNCHANGED <<hits, answer>>
    BY <2>1 DEF StaleKeysReclaimed
  <2>2. ASSUME NEW k \in Keys, Hit(k) PROVE StaleKeysReclaimed'
    BY <2>2, HitReclaims
  <2> QED BY <2>1, <2>2 DEF Next, Tick, vars
<1> QED BY <1>1, <1>2, LimiterKeeps, PTL DEF Spec

-----------------------------------------------------------------------------
(* What is in force for a TTL, as a grant of the limiter is for a window:  *)
(* the store of the prompts and that of the feature flags (Overrides), for *)
(* any number of callers and versions, and any TTL.                        *)

(* A prompt under way is of the map captured for it, as far as it is built.*)
Whole(r) == /\ r.pc \in {"build", "rest"} => r.map \in Snapshots
            /\ r.pc = "rest" => r.first \in {r.map, Defaults}
            /\ r.pc = "sent" => {r.first, r.rest} \subseteq {r.map, Defaults}

CallerType ==
  [pc : Stages, map : Snapshots \cup {Nothing},
   first : Snapshots \cup {Nothing}, rest : Snapshots \cup {Nothing}]

(* How long ago the table held what is in force, and what a read has seen. *)
(* An answer of the table is of a version it held since the read began.    *)
Recent ==
  /\ table \in Versions => gone[table] = 0
  /\ active \in Versions /\ age < Ttl => gone[active] <= age + ReadTicks
  /\ \A c \in Callers : At(c, "answer") =>
       caller[c].map \in Versions /\ gone[caller[c].map] <= late

StoreInv == StoreTypeOK /\ (\A c \in Callers : Whole(caller[c])) /\ Recent

(* A fragment comes from the map captured or from the code, never from     *)
(* another version.                                                        *)
LEMMA Fragmentary ==
  ASSUME NEW s \in Snapshots, NEW f
  PROVE  Resolved(s, f) \in {s, Defaults} /\ Rendered(s, f) \in {s, Defaults}
BY DEF Resolved, Rendered, Validated, Snapshots

(* A step of one caller leaves the others where they are.                  *)
LEMMA Becomes ==
  ASSUME StoreTypeOK, NEW c \in Callers, NEW r, Become(c, r), r \in CallerType
  PROVE  /\ caller' \in [Callers -> CallerType]
         /\ caller'[c] = r
         /\ \A d \in Callers \ {c} : caller'[d] = caller[d]
BY DEF StoreTypeOK, CallerType, Become

LEMMA IdleType == Idle \in CallerType /\ Idle.pc = "idle"
BY DEF Idle, CallerType, Stages

LEMMA ServedType ==
  ASSUME NEW m \in Snapshots
  PROVE  /\ [Idle EXCEPT !.pc = "served", !.map = m] \in CallerType
         /\ [Idle EXCEPT !.pc = "served", !.map = m].pc = "served"
         /\ [Idle EXCEPT !.pc = "served", !.map = m].map = m
BY DEF Idle, CallerType, Stages

(* The stage of a caller, and what it has of a prompt.                     *)
LEMMA GotoType ==
  ASSUME StoreInv, NEW c \in Callers, NEW stage \in Stages
  PROVE  /\ [caller[c] EXCEPT !.pc = stage] \in CallerType
         /\ [caller[c] EXCEPT !.pc = stage].pc = stage
BY DEF StoreInv, StoreTypeOK, CallerType

LEMMA StoreInvInit == ASSUME OverridesAssumption, StoreInit PROVE StoreInv
<1>1. caller \in [Callers -> CallerType] /\ \A c \in Callers : caller[c] = Idle
  BY IdleType DEF StoreInit, Stages, CallerType, Snapshots, Idle
<1>2. StoreTypeOK
  <2>1. gone \in [Versions -> 0 .. Stale] /\ age \in 0 .. Ttl /\ late \in 0 .. ReadTicks
    BY DEF StoreInit, Empty, OverridesAssumption, Stale
  <2>2. /\ \A c \in Callers : lock = c <=> (At(c, "read") \/ At(c, "answer"))
        /\ lock \in Callers \cup {"nobody"}
    BY <1>1, IdleType DEF StoreInit, Empty, OverridesAssumption, At
  <2>3. QED
    BY <1>1, <2>1, <2>2 DEF StoreInit, Empty, StoreTypeOK, CallerType
<1>3. QED
  BY <1>1, <1>2, IdleType DEF StoreInv, StoreInit, Empty, Whole, Recent,
     OverridesAssumption, Idle, At

LEMMA TickStep == ASSUME OverridesAssumption, StoreInv, StoreTick PROVE StoreInv'
<1>1. /\ caller' = caller /\ table' = table /\ active' = active
      /\ gone' = [v \in Versions |-> IF v = table THEN 0 ELSE Older(gone[v], Stale)]
      /\ age' = Older(age, Ttl)
  BY DEF StoreTick
<1>2. /\ gone \in [Versions -> 0 .. Stale] /\ age \in 0 .. Ttl /\ late \in 0 .. ReadTicks
      /\ Ttl \in Nat \ {0} /\ ReadTicks \in Nat /\ Stale = Ttl + ReadTicks + 1
  BY DEF StoreInv, StoreTypeOK, OverridesAssumption, Stale
<1>3. /\ gone' \in [Versions -> 0 .. Stale] /\ age' \in 0 .. Ttl /\ late' \in 0 .. ReadTicks
      /\ \A v \in Versions : gone'[v] <= gone[v] + 1
      /\ age < Ttl => age' = age + 1
      /\ age' < Ttl => age < Ttl
  BY <1>1, <1>2 DEF Older, StoreTick
<1>4. \A c \in Callers : At(c, "answer") => late' = late + 1
  BY DEF StoreTick, Reading
<1>5. StoreTypeOK'
  BY <1>1, <1>3 DEF StoreInv, StoreTypeOK, StoreTick, At
<1>6. Recent'
  <2>1. table' \in Versions => gone'[table'] = 0
    BY <1>1
  <2>2. active' \in Versions /\ age' < Ttl => gone'[active'] <= age' + ReadTicks
    BY <1>1, <1>2, <1>3 DEF StoreInv, Recent
  <2>3. ASSUME NEW c \in Callers, At(c, "answer")'
        PROVE  caller'[c].map \in Versions /\ gone'[caller'[c].map] <= late'
    <3>1. caller[c].map \in Versions /\ gone[caller[c].map] <= late /\ late' = late + 1
      BY <1>1, <1>4, <2>3 DEF StoreInv, Recent, At
    <3>2. QED
      BY <1>1, <1>2, <1>3, <3>1
  <2>4. QED
    BY <2>1, <2>2, <2>3 DEF Recent
<1>7. QED
  BY <1>1, <1>5, <1>6 DEF StoreInv

LEMMA HoldStep ==
  ASSUME OverridesAssumption, StoreInv, NEW v \in Versions, Hold(v)
  PROVE  StoreInv'
<1>1. /\ caller' = caller /\ table' = v /\ active' = active /\ age' = age /\ late' = late
      /\ gone' = [gone EXCEPT ![v] = 0] /\ store' = store /\ lock' = lock
  BY DEF Hold
<1>2. /\ gone \in [Versions -> 0 .. Stale] /\ age \in 0 .. Ttl /\ late \in 0 .. ReadTicks
      /\ Ttl \in Nat \ {0} /\ ReadTicks \in Nat /\ Stale \in Nat
  BY DEF StoreInv, StoreTypeOK, OverridesAssumption, Stale
<1>3. gone' \in [Versions -> 0 .. Stale] /\ \A w \in Versions : gone'[w] <= gone[w]
  BY <1>1, <1>2
<1>4. StoreTypeOK'
  BY <1>1, <1>3 DEF StoreInv, StoreTypeOK, At
<1>5. Recent'
  <2>1. table' \in Versions => gone'[table'] = 0
    BY <1>1, <1>2
  <2>2. active' \in Versions /\ age' < Ttl => gone'[active'] <= age' + ReadTicks
    BY <1>1, <1>2, <1>3 DEF StoreInv, Recent
  <2>3. ASSUME NEW c \in Callers, At(c, "answer")'
        PROVE  caller'[c].map \in Versions /\ gone'[caller'[c].map] <= late'
    <3>1. caller[c].map \in Versions /\ gone[caller[c].map] <= late
      BY <1>1, <2>3 DEF StoreInv, Recent, At
    <3>2. QED
      BY <1>1, <1>2, <1>3, <3>1
  <2>4. QED
    BY <2>1, <2>2, <2>3 DEF Recent
<1>6. QED
  BY <1>1, <1>4, <1>5 DEF StoreInv

(* A caller goes on, and is not at the table; the lock goes with it.       *)
LEMMA CallerStep ==
  ASSUME StoreInv, NEW c \in Callers, NEW r \in CallerType,
         Become(c, r), Whole(r),
         r.pc = "answer" => r.map \in Versions /\ gone[r.map] <= late',
         lock' = (IF r.pc \in {"read", "answer"} THEN c ELSE IF lock = c THEN "nobody" ELSE lock),
         r.pc \in {"read", "answer"} => lock \in {c, "nobody"},
         "nobody" \notin Callers, late' = late \/ lock = c,
         late' \in 0 .. ReadTicks, age' \in 0 .. Ttl, active' \in Snapshots \cup {Nothing},
         active' \in Versions /\ age' < Ttl => gone[active'] <= age' + ReadTicks,
         UNCHANGED <<store, table, gone>>
  PROVE  StoreInv'
<1>1. /\ caller' \in [Callers -> CallerType] /\ caller'[c] = r
      /\ \A d \in Callers \ {c} : caller'[d] = caller[d]
  BY Becomes DEF StoreInv
<1>2. /\ \A d \in Callers : lock = d <=> (At(d, "read") \/ At(d, "answer"))
      /\ lock \in Callers \cup {"nobody"}
  BY DEF StoreInv, StoreTypeOK
<1>3. /\ \A d \in Callers : lock' = d <=> (At(d, "read") \/ At(d, "answer"))'
      /\ lock' \in Callers \cup {"nobody"}
  BY <1>1, <1>2 DEF At
<1>4. StoreTypeOK'
  BY <1>1, <1>3 DEF StoreInv, StoreTypeOK, CallerType
<1>5. Recent'
  <2>1. ASSUME NEW d \in Callers, At(d, "answer")'
        PROVE  caller'[d].map \in Versions /\ gone'[caller'[d].map] <= late'
    <3>1. CASE d = c
      BY <1>1, <2>1, <3>1 DEF At
    <3>2. CASE d # c
      <4>1. At(d, "answer") /\ caller'[d] = caller[d]
        BY <1>1, <2>1, <3>2 DEF At
      <4>2. late' = late
        BY <1>2, <3>2, <4>1
      <4>3. QED
        BY <4>1, <4>2 DEF StoreInv, Recent
    <3>3. QED
      BY <3>1, <3>2
  <2>2. QED
    BY <2>1 DEF StoreInv, Recent
<1>6. \A d \in Callers : Whole(caller'[d])
  BY <1>1 DEF StoreInv
<1>7. QED
  BY <1>4, <1>5, <1>6 DEF StoreInv

(* A snapshot is served when it is fresh, or was just read.                *)
InTime(snapshot) ==
  /\ snapshot \in Snapshots
  /\ snapshot \in Versions => gone[snapshot] < Ttl + ReadTicks

(* Whoever is served gives the lock up, if it is its own.                  *)
LEMMA ServedStep ==
  ASSUME OverridesAssumption, StoreInv, NEW c \in Callers, NEW m \in Snapshots,
         Served(c, m),
         lock' = (IF lock = c THEN "nobody" ELSE lock),
         late' = late, age' \in 0 .. Ttl, active' \in Snapshots \cup {Nothing},
         active' \in Versions /\ age' < Ttl => gone[active'] <= age' + ReadTicks,
         UNCHANGED <<store, table, gone>>
  PROVE  StoreInv' /\ caller'[c].map = m
<1> DEFINE r == [Idle EXCEPT !.pc = "served", !.map = m]
<1>1. r \in CallerType /\ r.pc = "served" /\ r.map = m /\ Become(c, r)
  <2>1. Become(c, r)
    BY Zenon DEF Served
  <2>2. QED
    BY <2>1, ServedType
<1> HIDE DEF r
<1>2. Whole(r)
  BY <1>1 DEF Whole
<1>3. late' \in 0 .. ReadTicks /\ "nobody" \notin Callers
  BY DEF StoreInv, StoreTypeOK, OverridesAssumption
<1>4. StoreInv'
  BY <1>1, <1>2, <1>3, CallerStep
<1>5. caller'[c] = r
  BY <1>1, Becomes DEF StoreInv
<1>6. QED
  BY <1>1, <1>4, <1>5

(* What has not expired was in the table a TTL and an answer ago.          *)
LEMMA FreshSnapshot ==
  ASSUME OverridesAssumption, StoreInv
  PROVE  /\ ~Expired => active \in Snapshots /\ InTime(active)
         /\ active \in Snapshots \cup {Nothing}
         /\ active \in Versions /\ age < Ttl => gone[active] <= age + ReadTicks
         /\ age \in 0 .. Ttl
<1>1. /\ Ttl \in Nat /\ ReadTicks \in Nat /\ age \in 0 .. Ttl
      /\ gone \in [Versions -> 0 .. Stale] /\ Stale \in Nat
      /\ active \in Snapshots \cup {Nothing}
  BY DEF OverridesAssumption, StoreInv, StoreTypeOK, Stale
<1>2. active \in Versions /\ age < Ttl => gone[active] <= age + ReadTicks
  BY DEF StoreInv, Recent
<1>3. ~Expired => active # Nothing /\ age < Ttl
  BY <1>1 DEF Expired
<1>4. ~Expired => InTime(active)
  BY <1>1, <1>2, <1>3 DEF InTime
<1>5. QED
  BY <1>1, <1>2, <1>3, <1>4

LEMMA AskStep ==
  ASSUME OverridesAssumption, StoreInv, NEW c \in Callers, Ask(c)
  PROVE  StoreInv' /\ (At(c, "served")' => InTime(caller'[c].map))
<1>1. lock # c
  BY DEF Ask, At, StoreInv, StoreTypeOK
<1>2. CASE Expired
  <2> DEFINE r == [caller[c] EXCEPT !.pc = "wait"]
  <2>a. Become(c, r)
    BY <1>2, Zenon DEF Ask, Goto
  <2>1. Become(c, r) /\ r \in CallerType /\ r.pc = "wait"
    BY <2>a, GotoType DEF Stages
  <2>2. caller'[c] = r
    BY <2>1, Becomes DEF StoreInv
  <2> HIDE DEF r
  <2>3. Whole(r)
    BY <2>1 DEF Whole
  <2>4. /\ late' \in 0 .. ReadTicks /\ "nobody" \notin Callers /\ active' = active /\ age' = age
        /\ gone' = gone /\ late' = late
    BY DEF Ask, StoreInv, StoreTypeOK, OverridesAssumption
  <2>5. StoreInv'
    BY <1>1, <2>1, <2>3, <2>4, CallerStep, FreshSnapshot DEF Ask
  <2>6. QED
    BY <2>1, <2>2, <2>5 DEF At
<1>3. CASE ~Expired
  <2>1. Served(c, active) /\ active \in Snapshots /\ InTime(active)
    BY <1>3, FreshSnapshot DEF Ask
  <2>2. StoreInv' /\ caller'[c].map = active
    BY <1>1, <2>1, ServedStep, FreshSnapshot DEF Ask
  <2>3. QED
    BY <2>1, <2>2
<1>4. QED
  BY <1>2, <1>3

LEMMA EnterStep ==
  ASSUME OverridesAssumption, StoreInv, NEW c \in Callers, Enter(c)
  PROVE  StoreInv' /\ (At(c, "served")' => InTime(caller'[c].map))
<1>1. lock = "nobody" /\ lock # c
  BY DEF Enter, OverridesAssumption
<1>2. CASE Expired
  <2> DEFINE r == [caller[c] EXCEPT !.pc = "read"]
  <2>a. Become(c, r) /\ lock' = c
    BY <1>2, Zenon DEF Enter, Goto
  <2>1. Become(c, r) /\ r \in CallerType /\ r.pc = "read" /\ lock' = c
    BY <2>a, GotoType DEF Stages
  <2>2. caller'[c] = r
    BY <2>1, Becomes DEF StoreInv
  <2> HIDE DEF r
  <2>3. Whole(r)
    BY <2>1 DEF Whole
  <2>4. /\ late' \in 0 .. ReadTicks /\ "nobody" \notin Callers /\ active' = active /\ age' = age
        /\ gone' = gone /\ late' = late
    BY DEF Enter, StoreInv, StoreTypeOK, OverridesAssumption
  <2>5. StoreInv'
    BY <1>1, <2>1, <2>3, <2>4, CallerStep, FreshSnapshot DEF Enter
  <2>6. QED
    BY <2>1, <2>2, <2>5 DEF At
<1>3. CASE ~Expired
  <2>1. Served(c, active) /\ active \in Snapshots /\ InTime(active) /\ lock' = lock
    BY <1>3, FreshSnapshot DEF Enter
  <2>2. StoreInv' /\ caller'[c].map = active
    BY <1>1, <2>1, ServedStep, FreshSnapshot DEF Enter
  <2>3. QED
    BY <2>1, <2>2
<1>4. QED
  BY <1>2, <1>3

LEMMA SelectStep ==
  ASSUME OverridesAssumption, StoreInv, NEW c \in Callers, Select(c)
  PROVE  StoreInv'
<1> DEFINE r == [caller[c] EXCEPT !.pc = "answer", !.map = table]
<1>1. /\ Become(c, r) /\ r \in CallerType /\ r.pc = "answer" /\ r.map = table
      /\ table \in Versions /\ lock = c /\ lock' = lock /\ late' = 0
  <2>1. /\ Become(c, r) /\ table # Nothing /\ UNCHANGED lock
        /\ late' = 0 /\ At(c, "read")
    BY Zenon DEF Select
  <2>2. /\ table \in Versions /\ lock = c /\ caller[c] \in CallerType
    BY <2>1 DEF StoreInv, StoreTypeOK, CallerType
  <2>3. r \in CallerType /\ r.pc = "answer" /\ r.map = table
    BY <2>2 DEF CallerType, Stages, Snapshots
  <2>4. QED
    BY <2>1, <2>2, <2>3
<1> HIDE DEF r
<1>2. Whole(r)
  BY <1>1 DEF Whole
<1>3. gone[table] = 0 /\ late' \in 0 .. ReadTicks /\ "nobody" \notin Callers
  BY <1>1 DEF StoreInv, Recent, OverridesAssumption
<1>4. active' = active /\ age' = age /\ gone' = gone
  BY DEF Select
<1>5. gone[r.map] <= late'
  BY <1>1, <1>3
<1>6. QED
  BY <1>1, <1>2, <1>3, <1>4, <1>5, CallerStep, FreshSnapshot DEF Select

(* What a read installs is as old as its answer was late.                  *)
LEMMA InstallStep ==
  ASSUME OverridesAssumption, StoreInv, NEW c \in Callers, NEW m \in Snapshots,
         lock = c, Install(c, m),
         m \in Versions => gone[m] <= late
  PROVE  StoreInv' /\ InTime(caller'[c].map)
<1>1. /\ Ttl \in Nat \ {0} /\ ReadTicks \in Nat /\ late \in 0 .. ReadTicks
      /\ gone \in [Versions -> 0 .. Stale] /\ Stale \in Nat
  BY DEF OverridesAssumption, StoreInv, StoreTypeOK, Stale
<1>2. /\ Served(c, m) /\ active' = m /\ age' = 0
      /\ lock' = "nobody" /\ late' = late /\ gone' = gone
  BY DEF Install
<1>3. m \in Versions => gone[m] <= age' + ReadTicks /\ gone[m] < Ttl + ReadTicks
  BY <1>1, <1>2
<1>4. age' \in 0 .. Ttl /\ active' \in Snapshots \cup {Nothing}
  BY <1>1, <1>2
<1>5. StoreInv' /\ caller'[c].map = m
  BY <1>2, <1>3, <1>4, ServedStep DEF Install
<1>6. QED
  BY <1>3, <1>5 DEF InTime

LEMMA AnswerStep ==
  ASSUME OverridesAssumption, StoreInv, NEW c \in Callers, Answer(c) \/ ReadFails(c)
  PROVE  StoreInv' /\ InTime(caller'[c].map)
<1>1. lock = c
  BY DEF Answer, ReadFails, StoreInv, StoreTypeOK
<1>2. CASE Answer(c)
  <2>1. /\ caller[c].map \in Versions /\ gone[caller[c].map] <= late
        /\ Install(c, caller[c].map)
    BY <1>2 DEF Answer, StoreInv, Recent
  <2>2. QED
    BY <1>1, <2>1, InstallStep DEF Snapshots
<1>3. CASE ReadFails(c)
  <2>1. Install(c, Defaults) /\ Defaults \in Snapshots /\ Defaults \notin Versions
    BY <1>3 DEF ReadFails, Snapshots, OverridesAssumption
  <2>2. QED
    BY <1>1, <2>1, InstallStep
<1>4. QED
  BY <1>2, <1>3

(* Whoever is past the snapshot does not touch it.                         *)
LEMMA AwayStep ==
  ASSUME OverridesAssumption, StoreInv, NEW c \in Callers, NEW r \in CallerType,
         Become(c, r), Whole(r),
         r.pc \notin {"read", "answer", "served"},
         lock' = (IF lock = c THEN "nobody" ELSE lock),
         UNCHANGED <<store, table, gone, active, age, late>>
  PROVE  StoreInv' /\ ~At(c, "served")'
<1>1. late' \in 0 .. ReadTicks /\ "nobody" \notin Callers
  BY DEF StoreInv, StoreTypeOK, OverridesAssumption
<1>2. StoreInv'
  BY <1>1, CallerStep, FreshSnapshot
<1>3. caller'[c] = r
  BY Becomes DEF StoreInv
<1>4. QED
  BY <1>2, <1>3 DEF At

LEMMA FlagStep ==
  ASSUME OverridesAssumption, StoreInv, NEW c \in Callers,
         \/ PublicMap(c) \/ RequireFlag(c) \/ WordOfTheDay(c)
         \/ Sent(c) \/ Cancel(c)
  PROVE  StoreInv' /\ ~At(c, "served")'
<1>1. /\ lock' = (IF lock = c THEN "nobody" ELSE lock)
      /\ UNCHANGED <<store, table, gone, active, age, late>>
  BY DEF PublicMap, RequireFlag, WordOfTheDay, Sent,
     Cancel, At, StoreInv, StoreTypeOK
<1>2. Become(c, Idle) \/ Become(c, [caller[c] EXCEPT !.pc = "open"])
  BY DEF PublicMap, RequireFlag, WordOfTheDay, Sent,
     Cancel, Goto
<1>3. CASE Become(c, Idle)
  <2>1. Idle \in CallerType /\ Idle.pc = "idle"
    BY IdleType DEF Stages
  <2>2. Whole(Idle)
    BY <2>1 DEF Whole
  <2>3. QED
    BY <1>1, <1>3, <2>1, <2>2, AwayStep
<1>4. CASE Become(c, [caller[c] EXCEPT !.pc = "open"])
  <2> DEFINE r == [caller[c] EXCEPT !.pc = "open"]
  <2>1. Become(c, r) /\ r \in CallerType /\ r.pc = "open"
    BY <1>4, GotoType DEF Stages
  <2> HIDE DEF r
  <2>2. Whole(r)
    BY <2>1 DEF Whole
  <2>3. QED
    BY <1>1, <2>1, <2>2, AwayStep
<1>5. QED
  BY <1>2, <1>3, <1>4

(* A prompt is built of what was captured for it.                          *)
LEMMA BuildStep ==
  ASSUME OverridesAssumption, StoreInv, NEW c \in Callers,
         \/ Capture(c) \/ Build(c)
         \/ BuildRest(c) \/ BuildSuggestion(c)
  PROVE  StoreInv' /\ ~At(c, "served")'
<1>0. /\ lock' = (IF lock = c THEN "nobody" ELSE lock)
      /\ UNCHANGED <<store, table, gone, active, age, late>>
  BY DEF Capture, Build, BuildRest, BuildSuggestion, At,
     StoreInv, StoreTypeOK
<1>t. caller[c] \in CallerType /\ Whole(caller[c]) /\ active \in Snapshots \cup {Nothing}
  BY DEF StoreInv, StoreTypeOK, CallerType
<1>1. CASE Capture(c)
  <2> DEFINE r == [caller[c] EXCEPT !.pc = "build", !.map = Snapshot]
  <2>1. Become(c, r)
    BY <1>1, Zenon DEF Capture
  <2>2. Snapshot \in Snapshots
    BY <1>t DEF Snapshot, Snapshots
  <2>3. r \in CallerType /\ r.pc = "build" /\ r.map \in Snapshots
    BY <1>t, <2>2 DEF CallerType, Stages
  <2> HIDE DEF r
  <2>4. Whole(r)
    BY <2>3 DEF Whole
  <2>5. QED
    BY <1>0, <2>1, <2>3, <2>4, AwayStep
<1>2. CASE Build(c)
  <2> DEFINE first == Resolved(caller[c].map, "rules")
             r == [caller[c] EXCEPT !.pc = "rest", !.first = first]
  <2>1. Become(c, r)
    BY <1>2, Zenon DEF Build
  <2>2. /\ caller[c].map \in Snapshots
        /\ first \in {caller[c].map, Defaults} /\ first \in Snapshots
    BY <1>2, <1>t, Fragmentary DEF Build, At, Whole, Snapshots
  <2> HIDE DEF first
  <2>3. r \in CallerType /\ r.pc = "rest" /\ r.map = caller[c].map /\ r.first = first
    BY <1>t, <2>2 DEF CallerType, Stages, Snapshots
  <2> HIDE DEF r
  <2>4. Whole(r)
    BY <2>2, <2>3 DEF Whole
  <2>5. QED
    BY <1>0, <2>1, <2>3, <2>4, AwayStep
<1>3. CASE BuildRest(c)
  <2> DEFINE rest == Rendered(caller[c].map, "others")
             r == [caller[c] EXCEPT !.pc = "sent", !.rest = rest]
  <2>1. Become(c, r)
    BY <1>3, Zenon DEF BuildRest
  <2>2. /\ caller[c].first \in {caller[c].map, Defaults}
        /\ rest \in {caller[c].map, Defaults} /\ rest \in Snapshots
    BY <1>3, <1>t, Fragmentary DEF BuildRest, At, Whole, Snapshots
  <2> HIDE DEF rest
  <2>3. /\ r \in CallerType /\ r.pc = "sent" /\ r.map = caller[c].map
        /\ r.first = caller[c].first /\ r.rest = rest
    BY <1>t, <2>2 DEF CallerType, Stages, Snapshots
  <2> HIDE DEF r
  <2>4. Whole(r)
    BY <2>2, <2>3 DEF Whole
  <2>5. QED
    BY <1>0, <2>1, <2>3, <2>4, AwayStep
<1>4. CASE BuildSuggestion(c)
  <2> DEFINE whole == Rendered(caller[c].map, "suggestion")
             r == [caller[c] EXCEPT !.pc = "sent", !.first = whole, !.rest = whole]
  <2>1. Become(c, r)
    BY <1>4, Zenon DEF BuildSuggestion
  <2>2. whole \in {caller[c].map, Defaults} /\ whole \in Snapshots
    BY <1>4, <1>t, Fragmentary DEF BuildSuggestion, At, Whole, Snapshots
  <2> HIDE DEF whole
  <2>3. /\ r \in CallerType /\ r.pc = "sent" /\ r.map = caller[c].map
        /\ r.first = whole /\ r.rest = whole
    BY <1>t, <2>2 DEF CallerType, Stages, Snapshots
  <2> HIDE DEF r
  <2>4. Whole(r)
    BY <2>2, <2>3 DEF Whole
  <2>5. QED
    BY <1>0, <2>1, <2>3, <2>4, AwayStep
<1>5. QED
  BY <1>1, <1>2, <1>3, <1>4

(* A step keeps the invariant, and serves what is recent.                  *)
LEMMA StoreInvStep ==
  ASSUME OverridesAssumption, StoreInv, [StoreNext]_(storeVars)
  PROVE  /\ StoreInv'
         /\ \A c \in Callers : ~At(c, "served") /\ At(c, "served")' =>
              InTime(caller'[c].map) /\ gone' = gone
<1> DEFINE Good == /\ StoreInv'
                   /\ \A c \in Callers :
                        ~At(c, "served") /\ At(c, "served")' =>
                          InTime(caller'[c].map) /\ gone' = gone
<1>1. ASSUME UNCHANGED caller, StoreInv' PROVE Good
  BY <1>1 DEF At
<1>2. CASE StoreTick
  BY <1>1, <1>2, TickStep DEF StoreTick
<1>3. ASSUME NEW v \in Versions, Hold(v) PROVE Good
  BY <1>1, <1>3, HoldStep DEF Hold
<1>4. CASE \/ CreatePrompts \/ CreateFlags
           \/ \E v \in Versions : Publish(v) \/ Flip(v)
  BY <1>3, <1>4 DEF CreatePrompts, CreateFlags, Publish, Flip
<1>5. ASSUME NEW c \in Callers,
             \/ Ask(c) \/ Enter(c) \/ Select(c)
             \/ Answer(c) \/ ReadFails(c)
             \/ PublicMap(c) \/ RequireFlag(c) \/ WordOfTheDay(c)
             \/ Capture(c) \/ Build(c)
             \/ BuildRest(c) \/ BuildSuggestion(c)
             \/ Sent(c) \/ Cancel(c)
      PROVE  Good
  <2>1. StoreInv' /\ (At(c, "served")' => InTime(caller'[c].map))
    <3>1. CASE Select(c)
      <4>1. StoreInv'
        BY <3>1, SelectStep
      <4>2. ~At(c, "served")'
        BY <3>1 DEF Select, Become, At, StoreInv, StoreTypeOK
      <4>3. QED
        BY <4>1, <4>2
    <3>2. CASE ~Select(c)
      BY <1>5, <3>2, AskStep, EnterStep, AnswerStep, FlagStep, BuildStep
    <3>3. QED
      BY <3>1, <3>2
  <2>2. \E r : Become(c, r)
    BY <1>5 DEF Ask, Enter, Select, Answer, ReadFails,
       PublicMap, RequireFlag, WordOfTheDay, Capture,
       Build, BuildRest, BuildSuggestion, Sent, Cancel,
       Install, Served, Goto
  <2>3. \A d \in Callers \ {c} : caller'[d] = caller[d]
    BY <2>2 DEF Become, StoreInv, StoreTypeOK
  <2>4. gone' = gone
    BY <1>5 DEF Ask, Enter, Select, Answer, ReadFails,
       PublicMap, RequireFlag, WordOfTheDay, Capture,
       Build, BuildRest, BuildSuggestion, Sent, Cancel,
       Install
  <2>5. QED
    BY <2>1, <2>3, <2>4 DEF At
<1>6. CASE UNCHANGED storeVars
  <2>1. StoreInv'
    BY <1>6 DEF storeVars, StoreInv, StoreTypeOK, Recent, At
  <2>2. QED
    BY <1>1, <1>6, <2>1 DEF storeVars
<1>7. QED
  BY <1>2, <1>4, <1>5, <1>6 DEF StoreNext

(* For any number of callers, versions and any TTL: the types, one reader  *)
(* at a time (warm() under its lock), prompts built of one map, and        *)
(* a bound on how long ago the table held what is in force.                *)
THEOREM OverridesInvariant == ASSUME OverridesAssumption PROVE StoreSpec => []StoreInv
<1>1. StoreInit => StoreInv
  BY StoreInvInit
<1>2. StoreInv /\ [StoreNext]_(storeVars) => StoreInv'
  BY StoreInvStep
<1>3. QED
  BY <1>1, <1>2, PTL DEF StoreSpec

(* Every fragment of a prompt is of the version captured for it, or the    *)
(* code's own (_capture_overrides() is called once for each build).        *)
THEOREM PromptsAreWhole == ASSUME OverridesAssumption PROVE StoreSpec => []NotTorn
<1>1. StoreInv => NotTorn
  BY DEF StoreInv, Whole, NotTorn, At
<1>2. QED
  BY <1>1, OverridesInvariant, PTL

(* What a caller is handed was in the table less than a TTL and the time   *)
(* of an answer ago, however callers wait, fail and are cancelled (warm).  *)
THEOREM SnapshotsAreRecent == ASSUME OverridesAssumption PROVE StoreSpec => ServedInTime
<1>1. StoreInv /\ [StoreNext]_(storeVars) =>
        [\A c \in Callers :
           ~At(c, "served") /\ At(c, "served")' /\ caller'[c].map # Defaults
             => gone'[caller'[c].map] < Ttl + ReadTicks]_(storeVars)
  <2> SUFFICES ASSUME StoreInv, [StoreNext]_(storeVars), NEW c \in Callers,
                      ~At(c, "served"), At(c, "served")', caller'[c].map # Defaults
               PROVE  gone'[caller'[c].map] < Ttl + ReadTicks
    BY DEF storeVars
  <2>1. InTime(caller'[c].map) /\ gone' = gone
    BY StoreInvStep
  <2>2. QED
    BY <2>1 DEF InTime, Snapshots
<1>2. QED
  BY <1>1, OverridesInvariant, PTL DEF StoreSpec, ServedInTime
=============================================================================
