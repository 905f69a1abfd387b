--------------------------- MODULE DeliveryProofs ---------------------------
(***************************************************************************)
(* Proofs about Delivery, for any channels, workers, monitors, failures and *)
(* capacity: the blacklist is bounded and forgives at most one failing call *)
(* of each caller, what is recorded was pushed, and the alerts of the       *)
(* workers reach a channel in the order of their pushes.                    *)
(***************************************************************************)
EXTENDS Delivery, SequenceLemmas

-----------------------------------------------------------------------------
(* Sequences.                                                              *)

\* Taking an element out of an injective sequence leaves the others, in their order.
LEMMA Removed ==
  ASSUME NEW S, NEW s \in Seq(S), IsInjective(s), NEW e
  PROVE  /\ RemoveFirst(s, e) \in Seq(S)
         /\ IsInjective(RemoveFirst(s, e))
         /\ ToSet(RemoveFirst(s, e)) = ToSet(s) \ {e}
         /\ Len(RemoveFirst(s, e)) = IF e \in ToSet(s) THEN Len(s) - 1 ELSE Len(s)
<1>1. Len(s) \in Nat /\ DOMAIN s = 1..Len(s)
  BY LenProperties
<1>2. CASE e \notin ToSet(s)
  <2>1. ~ \E i \in 1..Len(s) : s[i] = e
    BY <1>1, <1>2 DEF ToSet
  <2>2. RemoveFirst(s, e) = s
    BY <2>1 DEF RemoveFirst
  <2> QED
    BY <1>2, <2>2
<1>3. CASE e \in ToSet(s)
  <2>1. \E i \in 1..Len(s) : s[i] = e
    BY <1>1, <1>3 DEF ToSet
  <2>2. PICK i \in 1..Len(s) : s[i] = e /\ RemoveFirst(s, e) = RemoveAt(s, i)
    BY <2>1, RemovedFirst
  <2> DEFINE r == RemoveAt(s, i)
  <2>3. /\ r \in Seq(S) /\ Len(r) = Len(s) - 1
        /\ \A k \in 1..Len(s) - 1 : r[k] = IF k < i THEN s[k] ELSE s[k + 1]
    BY RemovedAt
  <2> HIDE DEF r
  <2>4. DOMAIN r = 1..Len(s) - 1
    BY <2>3, LenProperties
  <2>5. IsInjective(r)
    <3>1. ASSUME NEW a \in 1..Len(s) - 1, NEW b \in 1..Len(s) - 1, r[a] = r[b]
          PROVE  a = b
      <4> DEFINE from(k) == IF k < i THEN k ELSE k + 1
      <4>1. from(a) \in 1..Len(s) /\ from(b) \in 1..Len(s)
        BY <1>1
      <4>2. s[from(a)] = s[from(b)]
        BY <2>3, <3>1
      <4>3. from(a) = from(b)
        BY <4>1, <4>2, <1>1 DEF IsInjective
      <4> QED
        BY <4>3, <1>1
    <3> QED
      BY <3>1, <2>4 DEF IsInjective
  <2>6. ToSet(r) \subseteq ToSet(s) \ {e}
    <3>1. ASSUME NEW k \in 1..Len(s) - 1 PROVE r[k] \in ToSet(s) \ {e}
      <4> DEFINE from == IF k < i THEN k ELSE k + 1
      <4>1. from \in 1..Len(s) /\ from # i /\ r[k] = s[from]
        BY <1>1, <2>3
      <4>2. s[from] # e
        BY <4>1, <2>2, <1>1 DEF IsInjective
      <4> QED
        BY <4>1, <4>2, <1>1 DEF ToSet
    <3> QED
      BY <3>1, <2>4 DEF ToSet
  <2>7. ToSet(s) \ {e} \subseteq ToSet(r)
    <3>1. ASSUME NEW j \in 1..Len(s), s[j] # e PROVE s[j] \in ToSet(r)
      <4> DEFINE to == IF j < i THEN j ELSE j - 1
      <4>1. j # i
        BY <2>2, <3>1
      <4>2. to \in 1..Len(s) - 1 /\ (IF to < i THEN to ELSE to + 1) = j
        BY <4>1, <1>1
      <4>3. r[to] = s[j]
        BY <4>2, <2>3
      <4> QED
        BY <4>2, <4>3, <2>4 DEF ToSet
    <3> QED
      BY <3>1, <1>1 DEF ToSet
  <2> QED
    BY <1>3, <2>2, <2>3, <2>5, <2>6, <2>7 DEF r
<1> QED
  BY <1>2, <1>3

\* An element put at the end is one more, and the sequence stays injective if it is new.
LEMMA Appended ==
  ASSUME NEW S, NEW s \in Seq(S), NEW e \in S
  PROVE  /\ Append(s, e) \in Seq(S) /\ Len(Append(s, e)) = Len(s) + 1
         /\ ToSet(Append(s, e)) = ToSet(s) \cup {e}
         /\ IsInjective(s) /\ e \notin ToSet(s) => IsInjective(Append(s, e))
<1> DEFINE r == Append(s, e)
<1>1. Len(s) \in Nat /\ DOMAIN s = 1..Len(s)
  BY LenProperties
<1>2. /\ r \in Seq(S) /\ Len(r) = Len(s) + 1
      /\ \A k \in 1..Len(s) : r[k] = s[k]
      /\ r[Len(s) + 1] = e
  BY AppendProperties
<1> HIDE DEF r
<1>3. DOMAIN r = 1..Len(s) + 1
  BY <1>2, LenProperties
<1>4. 1..Len(s) + 1 = (1..Len(s)) \cup {Len(s) + 1}
  BY <1>1
<1>5. ToSet(r) = ToSet(s) \cup {e}
  BY <1>1, <1>2, <1>3, <1>4 DEF ToSet
<1>6. ASSUME IsInjective(s), e \notin ToSet(s) PROVE IsInjective(r)
  BY <1>1, <1>2, <1>3, <1>4, <1>6 DEF IsInjective, ToSet
<1> QED
  BY <1>2, <1>5, <1>6 DEF r

\* The end of an injective sequence.
LEMMA Kept ==
  ASSUME NEW S, NEW s \in Seq(S), IsInjective(s), NEW m \in Nat \ {0}
  PROVE  LET r == SubSeq(s, m + 1, Len(s)) IN
         /\ r \in Seq(S) /\ IsInjective(r) /\ ToSet(r) \subseteq ToSet(s)
         /\ Len(s) # 0 => Len(r) < Len(s)
<1> DEFINE r == SubSeq(s, m + 1, Len(s))
<1>1. Len(s) \in Nat /\ DOMAIN s = 1..Len(s)
  BY LenProperties
<1>2. \A k \in m + 1..Len(s) : s[k] \in S
  BY <1>1, ElementOfSeq
<1>3. m + 1 \in Int /\ Len(s) \in Int
  BY <1>1
<1>4. /\ r \in Seq(S) /\ Len(r) = IF m + 1 <= Len(s) THEN Len(s) - (m + 1) + 1 ELSE 0
      /\ \A k \in 1..Len(s) - (m + 1) + 1 : r[k] = s[m + 1 + k - 1]
  BY <1>2, <1>3, SubSeqProperties
<1> HIDE DEF r
<1>5. DOMAIN r = 1..Len(r) /\ Len(r) \in Nat
  BY <1>4, LenProperties
<1>6. ASSUME NEW k \in 1..Len(r) PROVE m + k \in 1..Len(s) /\ r[k] = s[m + k]
  <2>0. m + 1 <= Len(s)
    <3>1. SUFFICES ASSUME ~(m + 1 <= Len(s)) PROVE FALSE
      OBVIOUS
    <3>2. Len(r) = 0
      BY <3>1, <1>4
    <3> QED
      BY <3>2
  <2>1. Len(r) = Len(s) - (m + 1) + 1
    BY <2>0, <1>4
  <2>2. k \in 1..Len(s) - (m + 1) + 1 /\ k \in Nat
    BY <2>1, <1>1
  <2>3. m + 1 + k - 1 = m + k /\ m + k \in 1..Len(s)
    BY <2>2, <1>1
  <2> QED
    BY <2>2, <2>3, <1>4
<1>7. IsInjective(r)
  <2>1. ASSUME NEW a \in 1..Len(r), NEW b \in 1..Len(r), r[a] = r[b] PROVE a = b
    <3>1. m + a = m + b
      BY <2>1, <1>1, <1>6 DEF IsInjective
    <3> QED
      BY <3>1
  <2> QED
    BY <2>1, <1>5 DEF IsInjective
<1>8. ToSet(r) \subseteq ToSet(s)
  BY <1>1, <1>5, <1>6 DEF ToSet
<1>9. Len(s) # 0 => Len(r) < Len(s)
  <2>1. CASE m + 1 <= Len(s)
    <3>1. Len(r) = Len(s) - (m + 1) + 1
      BY <2>1, <1>4
    <3> QED
      BY <3>1, <1>1
  <2>2. CASE ~(m + 1 <= Len(s))
    <3>1. Len(r) = 0
      BY <2>2, <1>4
    <3> QED
      BY <3>1, <1>1
  <2> QED
    BY <2>1, <2>2
<1> QED
  BY <1>4, <1>7, <1>8, <1>9 DEF r

\* Without its head a sequence is one shorter; an injective one has lost that element.
LEMMA Tailed ==
  ASSUME NEW S, NEW s \in Seq(S), s # <<>>
  PROVE  /\ Tail(s) \in Seq(S) /\ Len(Tail(s)) = Len(s) - 1 /\ Len(s) \in Nat \ {0}
         /\ Head(s) \in ToSet(s)
         /\ IsInjective(s) => IsInjective(Tail(s)) /\ ToSet(Tail(s)) = ToSet(s) \ {Head(s)}
<1>1. /\ Len(s) \in Nat \ {0} /\ DOMAIN s = 1..Len(s)
      /\ Tail(s) \in Seq(S) /\ Len(Tail(s)) = Len(s) - 1
      /\ \A k \in 1..Len(s) - 1 : Tail(s)[k] = s[k + 1]
  BY LenProperties, HeadTailProperties, EmptySeq
<1>2. DOMAIN Tail(s) = 1..Len(s) - 1
  BY <1>1, LenProperties
<1>3. Head(s) = s[1]
  OBVIOUS
<1>4. Head(s) \in ToSet(s)
  BY <1>1, <1>3 DEF ToSet
<1>5. ASSUME IsInjective(s)
      PROVE  IsInjective(Tail(s)) /\ ToSet(Tail(s)) = ToSet(s) \ {Head(s)}
  <2>1. ASSUME NEW a \in 1..Len(s) - 1, NEW b \in 1..Len(s) - 1, Tail(s)[a] = Tail(s)[b]
        PROVE  a = b
    <3>1. a + 1 = b + 1
      BY <2>1, <1>1, <1>5 DEF IsInjective
    <3> QED
      BY <3>1
  <2>2. ASSUME NEW a \in 1..Len(s) - 1 PROVE Tail(s)[a] \in ToSet(s) \ {Head(s)}
    <3>1. a + 1 \in 1..Len(s) /\ a + 1 # 1 /\ Tail(s)[a] = s[a + 1]
      BY <1>1
    <3> QED
      BY <3>1, <1>1, <1>3, <1>5 DEF IsInjective, ToSet
  <2>3. ASSUME NEW j \in 1..Len(s), s[j] # s[1] PROVE s[j] \in ToSet(Tail(s))
    <3>1. j - 1 \in 1..Len(s) - 1 /\ Tail(s)[j - 1] = s[j]
      BY <2>3, <1>1
    <3> QED
      BY <3>1, <1>2 DEF ToSet
  <2>4. IsInjective(Tail(s))
    BY <2>1, <1>2 DEF IsInjective
  <2>5. ToSet(Tail(s)) \subseteq ToSet(s) \ {Head(s)}
    BY <2>2, <1>2 DEF ToSet
  <2>6. ToSet(s) \ {Head(s)} \subseteq ToSet(Tail(s))
    BY <2>3, <1>1, <1>3 DEF ToSet
  <2> QED
    BY <2>4, <2>5, <2>6
<1> QED
  BY <1>1, <1>4, <1>5

-----------------------------------------------------------------------------
(* The blacklist.                                                          *)

\* The callers that have passed their check on a channel and may yet fail on it.
Past(c) == {d \in Callers : step[d] \in {"fetch", "send", "second"} /\ Head(rest[d]) = c}

CallsSound ==
  /\ step \in [Callers -> {"idle", "check", "fetch", "send", "second"}]
  /\ rest \in [Callers -> Seq(Channels)]
  /\ \A d \in Callers : step[d] # "idle" => rest[d] # <<>>

BlacklistSound ==
  /\ dead \in Seq(Channels) /\ IsInjective(dead)
  /\ IsFiniteSet(stale) /\ ToSet(dead) \cap stale = {}
  /\ Len(dead) + Cardinality(stale) <= Capacity

\* Every further failing call on a blacklisted channel is one caller less that is
\* past its check.
RepeatsCounted ==
  /\ repeats \in [Channels -> Nat]
  /\ \A c \in Channels :
       IF c \in ToSet(dead)
       THEN repeats[c] + Cardinality(Past(c)) < Cardinality(Callers)
       ELSE repeats[c] = 0

BlacklistInv == CallsSound /\ BlacklistSound /\ RepeatsCounted

\* There are finitely many callers, and one at least: the consumer.
LEMMA CallersFinite == IsFiniteSet(Callers) /\ Cardinality(Callers) \in Nat \ {0}
<1>1. IsFiniteSet(Callers)
  BY DeliveryAssumption, FS_Union, FS_Singleton DEF Callers
<1>2. Cardinality(Callers) \in Nat /\ Cardinality(Callers) # 0
  BY <1>1, FS_CardinalityType, FS_EmptySet DEF Callers
<1> QED
  BY <1>1, <1>2

\* So those past their check on a channel can be counted.
LEMMA PastFinite ==
  ASSUME NEW c
  PROVE  /\ IsFiniteSet(Past(c)) /\ Cardinality(Past(c)) \in Nat
         /\ Cardinality(Past(c)) <= Cardinality(Callers)
<1>1. Past(c) \subseteq Callers
  BY DEF Past
<1> QED
  BY <1>1, CallersFinite, FS_Subset, FS_CardinalityType

\* The head of what is left to serve is a channel.
LEMMA AtChannel ==
  ASSUME CallsSound, NEW d \in Callers, step[d] # "idle"
  PROVE  rest[d] \in Seq(Channels) /\ rest[d] # <<>> /\ Head(rest[d]) \in Channels
<1>1. rest[d] \in Seq(Channels) /\ rest[d] # <<>>
  BY DEF CallsSound
<1> QED
  BY <1>1, HeadTailProperties

\* A caller that goes on to its next channel is no longer past a check.
LEMMA GoingOn ==
  ASSUME CallsSound, NEW d \in Callers, step[d] # "idle", NextChannel(d)
  PROVE  CallsSound' /\ \A c \in Channels : Past(c)' \subseteq Past(c) \ {d}
<1>1. rest[d] \in Seq(Channels) /\ rest[d] # <<>>
  BY AtChannel
<1>2. /\ Tail(rest[d]) \in Seq(Channels) /\ Len(Tail(rest[d])) = Len(rest[d]) - 1
      /\ Len(rest[d]) \in Nat \ {0}
  BY <1>1, Tailed
<1>3. CASE Len(rest[d]) = 1
  <2>1. step' = [step EXCEPT ![d] = "idle"] /\ rest' = [rest EXCEPT ![d] = <<>>]
    BY <1>3 DEF NextChannel, EndCall
  <2>2. CallsSound'
    BY <2>1, EmptySeq DEF CallsSound
  <2> QED
    BY <2>1, <2>2 DEF CallsSound, Past
<1>4. CASE Len(rest[d]) # 1
  <2>1. step' = [step EXCEPT ![d] = "check"] /\ rest' = [rest EXCEPT ![d] = Tail(rest[d])]
    BY <1>4 DEF NextChannel
  <2>2. Tail(rest[d]) # <<>>
    <3>1. Len(Tail(rest[d])) # 0
      BY <1>2, <1>4
    <3>2. Len(<<>>) = 0
      BY EmptySeq
    <3> QED
      BY <3>1, <3>2
  <2>3. CallsSound'
    BY <2>1, <2>2, <1>2 DEF CallsSound
  <2> QED
    BY <2>1, <2>3 DEF CallsSound, Past
<1> QED
  BY <1>3, <1>4

\* The call on a channel goes on to a further step.
LEMMA StaysPast ==
  ASSUME CallsSound, NEW d \in Callers, step[d] \in {"fetch", "send", "second"},
         NEW place \in {"fetch", "send", "second"},
         step' = [step EXCEPT ![d] = place], rest' = rest
  PROVE  CallsSound' /\ \A c \in Channels : Past(c)' \subseteq Past(c)
BY DEF CallsSound, Past

\* The blacklist holds channels.
LEMMA RangeOfDead == BlacklistSound => ToSet(dead) \subseteq Channels
BY LenProperties DEF BlacklistSound, ToSet

\* With fewer callers past their check and the same blacklist the count still holds.
LEMMA CountShrinks ==
  ASSUME BlacklistInv, CallsSound', UNCHANGED <<dead, repeats>>,
         stale' \subseteq stale,
         \A c \in ToSet(dead) : Past(c)' \subseteq Past(c)
  PROVE  BlacklistInv'
<1>1. BlacklistSound'
  <2>1. IsFiniteSet(stale') /\ Cardinality(stale') <= Cardinality(stale)
        /\ Cardinality(stale) \in Nat /\ Cardinality(stale') \in Nat
    BY FS_Subset, FS_CardinalityType DEF BlacklistInv, BlacklistSound
  <2>2. Len(dead) \in Nat
    BY LenProperties DEF BlacklistInv, BlacklistSound
  <2> QED
    BY <2>1, <2>2, DeliveryAssumption DEF BlacklistInv, BlacklistSound
<1>2. RepeatsCounted'
  <2>1. ASSUME NEW c \in Channels, c \in ToSet(dead)
        PROVE  repeats[c] + Cardinality(Past(c)') < Cardinality(Callers)
    <3>1. /\ Cardinality(Past(c)') <= Cardinality(Past(c))
          /\ Cardinality(Past(c)') \in Nat /\ Cardinality(Past(c)) \in Nat
      BY <2>1, PastFinite, FS_Subset, FS_CardinalityType
    <3>2. repeats[c] + Cardinality(Past(c)) < Cardinality(Callers) /\ repeats[c] \in Nat
      BY <2>1 DEF BlacklistInv, RepeatsCounted
    <3> QED
      BY <3>1, <3>2, CallersFinite
  <2> QED
    BY <2>1 DEF BlacklistInv, RepeatsCounted
<1> QED
  BY <1>1, <1>2 DEF BlacklistInv

\* A full blacklist gives up one entry at least.
LEMMA EvictsSome == \A n \in Nat : EvictCount(n) \in Nat \ {0}
BY DEF EvictCount

\* A caller found the channel dead: it is blacklisted and the caller goes on.
LEMMA MarkKeeps ==
  ASSUME BlacklistInv, NEW c \in Channels, MarkChannelDead(c),
         NEW d \in Callers, d \in Past(c), CallsSound',
         \A x \in Channels : Past(x)' \subseteq Past(x) \ {d}
  PROVE  BlacklistInv'
<1> DEFINE known == c \in ToSet(dead) \cup stale
           full  == ~known /\ Cardinality(stale) + Len(dead) >= Capacity
           crowd == full /\ Len(dead) >= Capacity
           kept  == IF crowd THEN SubSeq(dead, EvictCount(Len(dead)) + 1, Len(dead))
                    ELSE RemoveFirst(dead, c)
<1>1. /\ dead' = Append(kept, c)
      /\ stale' = IF full THEN {} ELSE stale \ {c}
      /\ repeats' = [x \in Channels |->
           IF x = c /\ x \in ToSet(dead) THEN repeats[x] + 1
           ELSE IF x \in ToSet(kept) THEN repeats[x] ELSE 0]
  BY DEF MarkChannelDead
<1>2. /\ dead \in Seq(Channels) /\ IsInjective(dead) /\ Len(dead) \in Nat
      /\ IsFiniteSet(stale) /\ Cardinality(stale) \in Nat
      /\ ToSet(dead) \cap stale = {} /\ Len(dead) + Cardinality(stale) <= Capacity
      /\ Capacity \in Nat \ {0}
  BY FS_CardinalityType, LenProperties, DeliveryAssumption DEF BlacklistInv, BlacklistSound
<1>3. /\ kept \in Seq(Channels) /\ IsInjective(kept)
      /\ ToSet(kept) \subseteq ToSet(dead) \ {c}
      /\ crowd => Len(kept) < Len(dead)
      /\ ~crowd => Len(kept) = IF c \in ToSet(dead) THEN Len(dead) - 1 ELSE Len(dead)
      /\ Len(kept) \in Nat
  <2>1. CASE crowd
    <3> DEFINE m == EvictCount(Len(dead))
               r == SubSeq(dead, m + 1, Len(dead))
    <3>1. m \in Nat \ {0}
      BY <1>2, EvictsSome
    <3>2. /\ r \in Seq(Channels) /\ IsInjective(r) /\ ToSet(r) \subseteq ToSet(dead)
          /\ Len(dead) # 0 => Len(r) < Len(dead)
      BY <3>1, <1>2, Kept
    <3>3. Len(dead) # 0 /\ c \notin ToSet(dead)
      BY <2>1, <1>2
    <3>4. kept = r
      BY <2>1
    <3> QED
      BY <2>1, <3>2, <3>3, <3>4, LenProperties
  <2>2. CASE ~crowd
    <3>1. kept = RemoveFirst(dead, c)
      BY <2>2
    <3> QED
      BY <2>2, <3>1, <1>2, Removed, LenProperties
  <2> QED
    BY <2>1, <2>2
<1> HIDE DEF kept
<1>4. /\ dead' \in Seq(Channels) /\ IsInjective(dead') /\ Len(dead') = Len(kept) + 1
      /\ ToSet(dead') = ToSet(kept) \cup {c}
  BY <1>1, <1>3, Appended
<1>5. BlacklistSound'
  <2>1. CASE full
    <3>1. stale' = {}
      BY <2>1, <1>1
    <3>2. Len(kept) < Capacity
      <4>1. CASE crowd
        BY <4>1, <1>2, <1>3
      <4>2. CASE ~crowd
        <5>1. Len(dead) < Capacity /\ c \notin ToSet(dead)
          BY <4>2, <2>1, <1>2
        <5> QED
          BY <5>1, <4>2, <1>3
      <4> QED
        BY <4>1, <4>2
    <3> QED
      BY <3>1, <3>2, <1>2, <1>3, <1>4, FS_EmptySet DEF BlacklistSound
  <2>2. CASE ~full
    <3>1. stale' = stale \ {c} /\ IsFiniteSet(stale')
          /\ Cardinality(stale') = IF c \in stale THEN Cardinality(stale) - 1
                                  ELSE Cardinality(stale)
      BY <2>2, <1>1, <1>2, FS_RemoveElement
    <3>2. Len(kept) = IF c \in ToSet(dead) THEN Len(dead) - 1 ELSE Len(dead)
      BY <2>2, <1>3
    <3>3. Len(kept) + 1 + Cardinality(stale') <= Capacity
      <4>1. CASE c \in ToSet(dead)
        BY <4>1, <3>1, <3>2, <1>2
      <4>2. CASE c \in stale
        BY <4>2, <3>1, <3>2, <1>2
      <4>3. CASE ~known
        BY <4>3, <3>1, <3>2, <2>2, <1>2
      <4> QED
        BY <4>1, <4>2, <4>3
    <3> QED
      BY <3>1, <3>3, <1>2, <1>3, <1>4 DEF BlacklistSound
  <2> QED
    BY <2>1, <2>2
<1>6. RepeatsCounted'
  <2>1. ASSUME NEW x \in Channels
        PROVE  /\ repeats'[x] \in Nat
               /\ IF x \in ToSet(dead')
                  THEN repeats'[x] + Cardinality(Past(x)') < Cardinality(Callers)
                  ELSE repeats'[x] = 0
    <3>1. /\ Cardinality(Past(x)') <= Cardinality(Past(x))
          /\ Cardinality(Past(x)') \in Nat /\ Cardinality(Past(x)) \in Nat
          /\ Cardinality(Past(x)) <= Cardinality(Callers)
      BY PastFinite, FS_Subset, FS_CardinalityType
    <3>2. Past(c)' \subseteq Past(c) \ {d} /\ IsFiniteSet(Past(c))
          /\ Cardinality(Past(c) \ {d}) = Cardinality(Past(c)) - 1
          /\ IsFiniteSet(Past(c) \ {d})
      BY PastFinite, FS_RemoveElement
    <3>3. x = c => Cardinality(Past(x)') <= Cardinality(Past(x)) - 1
      BY <3>2, FS_Subset
    <3>4. /\ repeats[x] \in Nat
          /\ x \in ToSet(dead) => repeats[x] + Cardinality(Past(x)) < Cardinality(Callers)
      BY DEF BlacklistInv, RepeatsCounted
    <3>5. CASE x = c /\ x \in ToSet(dead)
      BY <3>5, <3>1, <3>3, <3>4, <1>1, <1>4, CallersFinite
    <3>6. CASE x = c /\ x \notin ToSet(dead)
      <4>1. repeats'[x] = 0 /\ x \in ToSet(dead')
        BY <3>6, <1>1, <1>3, <1>4
      <4> QED
        BY <4>1, <3>6, <3>1, <3>3, CallersFinite
    <3>7. CASE x # c /\ x \in ToSet(kept)
      BY <3>7, <3>1, <3>4, <1>1, <1>3, <1>4, CallersFinite
    <3>8. CASE x # c /\ x \notin ToSet(kept)
      BY <3>8, <1>1, <1>4
    <3> QED
      BY <3>5, <3>6, <3>7, <3>8
  <2>2. repeats' \in [Channels -> Nat]
    BY <2>1, <1>1
  <2> QED
    BY <2>1, <2>2 DEF RepeatsCounted
<1> QED
  BY <1>5, <1>6 DEF BlacklistInv

\* The oldest entry expires.
LEMMA ExpireKeeps ==
  ASSUME BlacklistInv, Expire
  PROVE  BlacklistInv'
<1> DEFINE c == Head(dead)
<1>1. /\ dead \in Seq(Channels) /\ IsInjective(dead) /\ dead # <<>>
      /\ IsFiniteSet(stale) /\ Cardinality(stale) \in Nat
      /\ ToSet(dead) \cap stale = {} /\ Len(dead) + Cardinality(stale) <= Capacity
      /\ Capacity \in Nat
  BY FS_CardinalityType, DeliveryAssumption DEF BlacklistInv, BlacklistSound, Expire
<1>2. /\ Tail(dead) \in Seq(Channels) /\ Len(Tail(dead)) = Len(dead) - 1
      /\ Len(dead) \in Nat \ {0} /\ c \in ToSet(dead) /\ c \in Channels
      /\ IsInjective(Tail(dead)) /\ ToSet(Tail(dead)) = ToSet(dead) \ {c}
  BY <1>1, Tailed, HeadTailProperties
<1>3. /\ dead' = Tail(dead) /\ stale' = stale \cup {c}
      /\ repeats' = [repeats EXCEPT ![c] = 0]
      /\ UNCHANGED <<step, rest>>
  BY DEF Expire, calls
<1>4. IsFiniteSet(stale') /\ Cardinality(stale') = Cardinality(stale) + 1
  BY <1>1, <1>2, <1>3, FS_AddElement
<1>5. BlacklistSound'
  BY <1>1, <1>2, <1>3, <1>4 DEF BlacklistSound
<1>6. CallsSound' /\ \A x \in Channels : Past(x)' = Past(x)
  BY <1>3 DEF BlacklistInv, CallsSound, Past
<1>7. RepeatsCounted'
  BY <1>2, <1>3, <1>6 DEF BlacklistInv, RepeatsCounted
<1> QED
  BY <1>5, <1>6, <1>7 DEF BlacklistInv

\* A caller that asks the blacklist passes only a channel that is not on it.
LEMMA CheckKeeps ==
  ASSUME BlacklistInv, NEW d \in Callers, CheckChannel(d)
  PROVE  BlacklistInv'
<1>1. step[d] = "check" /\ UNCHANGED <<dead, repeats>> /\ stale' \subseteq stale
  BY DEF CheckChannel
<1>2. CASE NextChannel(d)
  BY <1>1, <1>2, GoingOn, CountShrinks, RangeOfDead DEF BlacklistInv
<1>3. CASE ~NextChannel(d)
  <2>1. /\ Head(rest[d]) \notin ToSet(dead)
        /\ step' = [step EXCEPT ![d] = "fetch"] \/ step' = [step EXCEPT ![d] = "send"]
        /\ rest' = rest
    BY <1>3 DEF CheckChannel, IsChannelDead
  <2>2. CallsSound'
    BY <2>1, <1>1 DEF BlacklistInv, CallsSound
  <2>3. \A c \in ToSet(dead) : Past(c)' \subseteq Past(c)
    BY <2>1, <1>1 DEF BlacklistInv, CallsSound, Past
  <2> QED
    BY <2>2, <2>3, <1>1, CountShrinks
<1> QED
  BY <1>2, <1>3

\* fetch_channel or send answers, or raises.
LEMMA AnswerKeeps ==
  ASSUME BlacklistInv, NEW d \in Callers,
         FetchChannel(d) \/ SendMessage(d) \/ CallFails(d)
  PROVE  BlacklistInv'
<1> DEFINE c == Head(rest[d])
<1>1. step[d] \in {"fetch", "send", "second"} /\ step[d] # "idle"
  BY DEF FetchChannel, SendMessage, CallFails
<1>2. c \in Channels /\ d \in Past(c)
  BY <1>1, AtChannel DEF BlacklistInv, Past
<1>3. CASE NextChannel(d) /\ UNCHANGED blacklist
  BY <1>1, <1>3, GoingOn, CountShrinks, RangeOfDead DEF BlacklistInv, blacklist
<1>4. CASE NextChannel(d) /\ MarkChannelDead(c)
  BY <1>1, <1>2, <1>4, GoingOn, MarkKeeps DEF BlacklistInv
<1>5. CASE ~NextChannel(d)
  <2>1. /\ step' = [step EXCEPT ![d] = "send"] \/ step' = [step EXCEPT ![d] = "second"]
        /\ rest' = rest /\ UNCHANGED <<dead, stale, repeats>>
    BY <1>5 DEF FetchChannel, SendMessage, CallFails, blacklist
  <2> QED
    BY <2>1, <1>1, StaysPast, CountShrinks, RangeOfDead DEF BlacklistInv
<1> QED
  BY <1>3, <1>4, <1>5 DEF FetchChannel, SendMessage, CallFails

\* A call starts with its check.
LEMMA StartKeeps ==
  ASSUME BlacklistInv, NEW d \in Callers, NEW STATE serial, NEW n,
         NEW STATE targets, targets \in Seq(Channels),
         StartCall(d, serial, n, targets), UNCHANGED blacklist
  PROVE  BlacklistInv'
<1>1. CASE targets = <<>>
  BY <1>1, CountShrinks DEF StartCall, calls, blacklist, BlacklistInv, CallsSound, Past
<1>2. CASE targets # <<>>
  <2>1. step[d] = "idle" /\ step' = [step EXCEPT ![d] = "check"]
        /\ rest' = [rest EXCEPT ![d] = targets]
    BY <1>2 DEF StartCall
  <2>2. CallsSound' /\ \A c \in ToSet(dead) : Past(c)' \subseteq Past(c)
    BY <2>1, <1>2 DEF BlacklistInv, CallsSound, Past
  <2> QED
    BY <2>2, CountShrinks DEF blacklist
<1> QED
  BY <1>1, <1>2

\* A restart of the gateway forgets the blacklist and every call.
LEMMA RestartForgets == GatewayCrash => BlacklistInv'
<1> SUFFICES ASSUME GatewayCrash PROVE BlacklistInv'
  OBVIOUS
<1>1. /\ step' = [d \in Callers |-> "idle"] /\ rest' = [d \in Callers |-> <<>>]
      /\ dead' = <<>> /\ stale' = {} /\ repeats' = [c \in Channels |-> 0]
  BY DEF GatewayCrash
<1>2. CallsSound'
  BY <1>1, EmptySeq DEF CallsSound
<1>3. BlacklistSound'
  BY <1>1, EmptySeq, FS_EmptySet, DeliveryAssumption DEF BlacklistSound, IsInjective
<1>4. RepeatsCounted'
  BY <1>1, EmptySeq DEF RepeatsCounted, ToSet
<1> QED
  BY <1>2, <1>3, <1>4 DEF BlacklistInv

-----------------------------------------------------------------------------
(* The feed workers and the list.                                          *)

Handed(m, i) == i \in Old \/ Targets[m] = <<>> \/ <<m, i>> \in ToSet(pushes)

\* The list holds serials of pushed tasks, in the order of their pushes.
QueueSound ==
  /\ pushes \in Seq(Tasks)
  /\ queue \in Seq(Nat)
  /\ \A i \in 1..Len(queue) : queue[i] \in 1..Len(pushes)
  /\ \A i, j \in 1..Len(queue) : i < j => queue[i] < queue[j]

\* What a worker fetched and no longer has to process it has handed over.
WorkersSound ==
  /\ phase \in [Workers -> {"sleep", "fetch", "process", "mark"}]
  /\ at \in [Workers -> SUBSET Monitors]
  /\ got \in [Workers -> SUBSET Items] /\ todo \in [Workers -> SUBSET Items]
  /\ \A w \in Workers :
       /\ \A m, n \in at[w] : m = n
       /\ \A m \in at[w], i \in got[w] \ todo[w] : Handed(m, i)
       /\ phase[w] = "mark" => todo[w] = {}

LogSound == \A t \in logged : t \in Tasks /\ Handed(t[1], t[2])

\* A step pushes nothing, or one task whose serial is the newest.
AtMostOnePush ==
  \/ UNCHANGED <<pushes, queue>>
  \/ /\ Len(pushes') = Len(pushes) + 1
     /\ queue' \in {queue, Append(queue, Len(pushes) + 1)}

FeedInv == QueueSound /\ WorkersSound /\ LogSound

\* A push puts the newest serial at the end of the list, or nothing.
LEMMA PushKeeps ==
  ASSUME QueueSound, NEW w \in Workers, NEW t \in Tasks,
         pushes' = Append(pushes, t), Push(w, Len(pushes) + 1)
  PROVE  /\ QueueSound'
         /\ ToSet(pushes') = ToSet(pushes) \cup {t} /\ Len(pushes') = Len(pushes) + 1
         /\ queue' \in {queue, Append(queue, Len(pushes) + 1)}
<1>1. /\ pushes' \in Seq(Tasks) /\ Len(pushes') = Len(pushes) + 1 /\ Len(pushes) \in Nat
      /\ ToSet(pushes') = ToSet(pushes) \cup {t}
  BY Appended, LenProperties DEF QueueSound
<1>2. queue' \in {queue, Append(queue, Len(pushes) + 1)}
  BY DEF Push
<1>3. CASE queue' = queue
  BY <1>1, <1>2, <1>3 DEF QueueSound
<1>4. CASE queue' = Append(queue, Len(pushes) + 1)
  <2>1. /\ queue \in Seq(Nat) /\ Len(queue) \in Nat /\ Len(pushes) + 1 \in Nat
        /\ queue' \in Seq(Nat) /\ Len(queue') = Len(queue) + 1
        /\ \A i \in 1..Len(queue) : queue'[i] = queue[i]
        /\ queue'[Len(queue) + 1] = Len(pushes) + 1
    BY <1>1, <1>4, LenProperties, AppendProperties DEF QueueSound
  <2>2. \A i \in 1..Len(queue) : queue'[i] \in 1..Len(pushes)
    BY <2>1 DEF QueueSound
  <2>3. \A i \in 1..Len(queue') : i \in 1..Len(queue) \/ i = Len(queue) + 1
    BY <2>1
  <2>4. \A i \in 1..Len(queue') : queue'[i] \in 1..Len(pushes')
    BY <1>1, <2>1, <2>2, <2>3
  <2>5. ASSUME NEW i \in 1..Len(queue'), NEW j \in 1..Len(queue'), i < j
        PROVE  queue'[i] < queue'[j]
    <3>1. i \in 1..Len(queue)
      BY <2>1, <2>3, <2>5
    <3>2. CASE j \in 1..Len(queue)
      BY <3>1, <3>2, <2>1, <2>5 DEF QueueSound
    <3>3. CASE j = Len(queue) + 1
      BY <3>1, <3>3, <2>1, <2>2, <1>1
    <3> QED
      BY <3>2, <3>3, <2>3
  <2> QED
    BY <1>1, <2>1, <2>4, <2>5 DEF QueueSound
<1> QED
  BY <1>1, <1>2, <1>3, <1>4

\* Without its first serial the list is as sound.
LEMMA PopKeeps ==
  ASSUME QueueSound, queue # <<>>, queue' = RemoveAt(queue, FirstTask), UNCHANGED pushes
  PROVE  /\ QueueSound'
         /\ queue[1] \in 1..Len(pushes) /\ 1 \in 1..Len(queue)
         /\ \A k \in 1..Len(queue') : k + 1 \in 1..Len(queue) /\ queue'[k] = queue[k + 1]
<1>1. queue \in Seq(Nat) /\ Len(queue) \in Nat \ {0} /\ 1 \in 1..Len(queue)
  BY EmptySeq DEF QueueSound
<1>2. /\ queue' \in Seq(Nat) /\ Len(queue') = Len(queue) - 1
      /\ \A k \in 1..Len(queue) - 1 : queue'[k] = IF k < 1 THEN queue[k] ELSE queue[k + 1]
  BY <1>1, RemovedAt DEF FirstTask
<1>3. ASSUME NEW k \in 1..Len(queue')
      PROVE  k + 1 \in 1..Len(queue) /\ queue'[k] = queue[k + 1]
  BY <1>1, <1>2
<1>4. ASSUME NEW i \in 1..Len(queue'), NEW j \in 1..Len(queue'), i < j
      PROVE  queue'[i] < queue'[j]
  <2>1. i + 1 \in 1..Len(queue) /\ j + 1 \in 1..Len(queue) /\ i + 1 < j + 1
    BY <1>3, <1>4
  <2> QED
    BY <2>1, <1>3 DEF QueueSound
<1>5. \A k \in 1..Len(queue') : queue'[k] \in 1..Len(pushes)
  BY <1>3 DEF QueueSound
<1>6. QueueSound'
  BY <1>2, <1>4, <1>5 DEF QueueSound
<1> QED
  BY <1>1, <1>3, <1>6 DEF QueueSound

\* Steps that leave the workers and what was pushed alone.
LEMMA FeedKeeps ==
  ASSUME FeedInv, QueueSound', UNCHANGED <<phase, at, got, todo, logged, pushes>>
  PROVE  FeedInv'
BY DEF FeedInv, WorkersSound, LogSound, Handed

\* A worker is done with a monitor; what it records now was handed over.
LEMMA MonitorEnds ==
  ASSUME FeedInv, NEW w \in Workers, NextMonitor(w), UNCHANGED <<pushes, queue>>,
         \A t \in logged' \ logged : t \in Tasks /\ Handed(t[1], t[2])
  PROVE  FeedInv'
<1>1. /\ phase' = [phase EXCEPT ![w] = IF left[w] = {} THEN "sleep" ELSE "fetch"]
      /\ at' = [at EXCEPT ![w] = {}]
      /\ got' = [got EXCEPT ![w] = {}] /\ todo' = [todo EXCEPT ![w] = {}]
  BY DEF NextMonitor
<1>2. QueueSound' /\ LogSound'
  BY DEF FeedInv, QueueSound, LogSound, Handed
<1>3. WorkersSound'
  BY <1>1 DEF FeedInv, WorkersSound, Handed
<1> QED
  BY <1>2, <1>3 DEF FeedInv

\* A worker pushes one item of its monitor, or skips it.
LEMMA ProcessKeeps ==
  ASSUME FeedInv, NEW w \in Workers, NEW i \in Items, ProcessItem(w, i)
  PROVE  FeedInv' /\ AtMostOnePush
<1>1. /\ phase[w] = "process" /\ i \in todo[w]
      /\ todo' = [todo EXCEPT ![w] = @ \ {i}]
      /\ phase' = [phase EXCEPT ![w] = IF todo[w] = {i} THEN "mark" ELSE "process"]
      /\ UNCHANGED <<at, got, logged>>
  BY DEF ProcessItem, Processed
<1>2. PICK m \in at[w] :
        IF i \in Old \/ Targets[m] = <<>> THEN UNCHANGED <<broker, spent, pushes>>
        ELSE pushes' = Append(pushes, <<m, i>>) /\ Push(w, Len(pushes) + 1)
  BY DEF ProcessItem
<1>3. <<m, i>> \in Tasks
  BY DEF FeedInv, WorkersSound, Tasks
<1>4. /\ QueueSound' /\ ToSet(pushes) \subseteq ToSet(pushes')
      /\ Handed(m, i)'
      /\ AtMostOnePush
  <2>1. CASE i \in Old \/ Targets[m] = <<>>
    BY <2>1, <1>2 DEF FeedInv, QueueSound, Handed, broker, AtMostOnePush
  <2>2. CASE ~(i \in Old \/ Targets[m] = <<>>)
    BY <2>2, <1>2, <1>3, PushKeeps DEF FeedInv, Handed, AtMostOnePush
  <2> QED
    BY <2>1, <2>2
<1>5. \A n, k : Handed(n, k) => Handed(n, k)'
  BY <1>4 DEF Handed
<1>6. LogSound'
  BY <1>1, <1>5 DEF FeedInv, LogSound
<1>7. WorkersSound'
  <2>1. ASSUME NEW v \in Workers, NEW n \in at'[v], NEW k \in got'[v] \ todo'[v]
        PROVE  Handed(n, k)'
    <3>1. CASE v = w /\ k = i
      <4>1. n = m
        BY <3>1, <1>1, <1>2 DEF FeedInv, WorkersSound
      <4> QED
        BY <4>1, <3>1, <1>4
    <3>2. CASE ~(v = w /\ k = i)
      <4>1. k \in got[v] \ todo[v] /\ n \in at[v]
        BY <3>2, <1>1 DEF FeedInv, WorkersSound
      <4> QED
        BY <4>1, <1>5 DEF FeedInv, WorkersSound
    <3> QED
      BY <3>1, <3>2
  <2>2. \A v \in Workers : phase'[v] = "mark" => todo'[v] = {}
    BY <1>1 DEF FeedInv, WorkersSound
  <2>3. /\ phase' \in [Workers -> {"sleep", "fetch", "process", "mark"}]
        /\ at' \in [Workers -> SUBSET Monitors]
        /\ got' \in [Workers -> SUBSET Items] /\ todo' \in [Workers -> SUBSET Items]
        /\ \A v \in Workers : \A n, k \in at'[v] : n = k
    BY <1>1 DEF FeedInv, WorkersSound
  <2> QED
    BY <2>1, <2>2, <2>3 DEF WorkersSound
<1> QED
  BY <1>4, <1>6, <1>7 DEF FeedInv

\* A worker fetches the items of a monitor.
LEMMA FetchKeeps ==
  ASSUME FeedInv, NEW w \in Workers, NEW m \in Monitors, NEW items \in SUBSET Items,
         FetchItems(w, m, items)
  PROVE  FeedInv' /\ UNCHANGED <<pushes, queue>>
<1>1. UNCHANGED <<pushes, queue, logged>>
  BY DEF FetchItems, broker
<1>2. QueueSound' /\ LogSound'
  BY <1>1 DEF FeedInv, QueueSound, LogSound, Handed
<1>3. WorkersSound'
  <2>1. CASE items = {}
    BY <2>1, <1>1 DEF FetchItems, FeedInv, WorkersSound, Handed
  <2>2. CASE items # {}
    <3>1. /\ phase' = [phase EXCEPT ![w] = "process"]
          /\ at' = [at EXCEPT ![w] = {m}]
          /\ got' = [got EXCEPT ![w] = items] /\ todo' = [todo EXCEPT ![w] = items]
      BY <2>2 DEF FetchItems
    <3> QED
      BY <3>1, <1>1 DEF FeedInv, WorkersSound, Handed
  <2> QED
    BY <2>1, <2>2
<1> QED
  BY <1>1, <1>2, <1>3 DEF FeedInv

\* The steps of a worker.
LEMMA WorkKeeps ==
  ASSUME FeedInv, NEW w \in Workers, Work(w)
  PROVE  FeedInv' /\ AtMostOnePush
<1>1. CASE StartCycle(w)
  <2>1. phase' = [phase EXCEPT ![w] = "fetch"]
        /\ UNCHANGED <<at, got, todo, logged, pushes, queue>>
    BY <1>1 DEF StartCycle, broker
  <2>2. QueueSound' /\ LogSound' /\ WorkersSound'
    BY <2>1 DEF FeedInv, QueueSound, LogSound, WorkersSound, Handed
  <2> QED
    BY <2>1, <2>2 DEF FeedInv, AtMostOnePush
<1>2. CASE MarkPublished(w)
  <2>1. phase[w] = "mark" /\ NextMonitor(w) /\ UNCHANGED <<pushes, queue>>
        /\ logged' \subseteq logged \cup (at[w] \X got[w])
    BY <1>2 DEF MarkPublished, broker
  <2>2. \A m \in at[w], i \in got[w] : Handed(m, i) /\ <<m, i>> \in Tasks
    BY <2>1 DEF FeedInv, WorkersSound, Tasks
  <2>3. \A t \in logged' \ logged : t \in Tasks /\ Handed(t[1], t[2])
    BY <2>1, <2>2
  <2> QED
    BY <2>1, <2>3, MonitorEnds DEF AtMostOnePush
<1>3. ASSUME NEW m \in Monitors, NEW items \in SUBSET Items, FetchItems(w, m, items)
      PROVE  FeedInv' /\ pushes' = pushes /\ queue' = queue
  BY <1>3, FetchKeeps
<1>4. ASSUME NEW i \in Items, ProcessItem(w, i)
      PROVE  FeedInv' /\ AtMostOnePush
  BY <1>4, ProcessKeeps
<1>5. ASSUME NEW i \in Items, ProcessRaises(w, i)
      PROVE  FeedInv' /\ pushes' = pushes /\ queue' = queue
  BY <1>5, MonitorEnds DEF ProcessRaises, broker
<1> QED
  BY <1>1, <1>2, <1>3, <1>4, <1>5 DEF Work, AtMostOnePush

\* A worker crashes and starts over; what it recorded stays.
LEMMA CrashedWorkerKeeps ==
  ASSUME FeedInv, NEW w \in Workers, WorkerCrash(w)
  PROVE  FeedInv' /\ UNCHANGED <<pushes, queue>>
<1>1. /\ phase' = [phase EXCEPT ![w] = "sleep"]
      /\ at' = [at EXCEPT ![w] = {}]
      /\ got' = [got EXCEPT ![w] = {}] /\ todo' = [todo EXCEPT ![w] = {}]
      /\ UNCHANGED <<pushes, queue, logged>>
  BY DEF WorkerCrash
<1>2. QueueSound' /\ LogSound' /\ WorkersSound'
  BY <1>1 DEF FeedInv, QueueSound, LogSound, WorkersSound, Handed
<1> QED
  BY <1>1, <1>2 DEF FeedInv

\* The consumer pops the first task and starts its delivery, or loses it.
LEMMA PopSteps ==
  ASSUME FeedInv, ProcessOne \/ PopLosesReply
  PROVE  /\ FeedInv' /\ queue # <<>> /\ queue' = RemoveAt(queue, FirstTask)
         /\ UNCHANGED <<pushes, wire, blacklist>> /\ step[Consumer] = "idle"
         /\ Targets[pushes[queue[1]][1]] \in Seq(Channels)
<1>1. /\ queue # <<>> /\ queue' = RemoveAt(queue, FirstTask) /\ step[Consumer] = "idle"
      /\ UNCHANGED <<pushes, wire, blacklist, feeders, logged>>
  BY DEF ProcessOne, PopLosesReply
<1>2. QueueSound' /\ queue[1] \in 1..Len(pushes)
  BY <1>1, PopKeeps DEF FeedInv
<1>3. pushes[queue[1]] \in Tasks
  BY <1>2, ElementOfSeq DEF FeedInv, QueueSound
<1>4. Targets[pushes[queue[1]][1]] \in Seq(Channels)
  BY <1>3, DeliveryAssumption DEF Tasks
<1> QED
  BY <1>1, <1>2, <1>4, FeedKeeps DEF feeders

\* Both invariants hold at the start.
LEMMA SafeInit == Init => FeedInv /\ BlacklistInv
<1> SUFFICES ASSUME Init PROVE FeedInv /\ BlacklistInv
  OBVIOUS
<1>1. FeedInv
  BY EmptySeq DEF Init, FeedInv, QueueSound, WorkersSound, LogSound
<1>2. CallsSound
  BY EmptySeq DEF Init, CallsSound
<1>3. BlacklistSound
  BY EmptySeq, FS_EmptySet, DeliveryAssumption DEF Init, BlacklistSound, IsInjective
<1>4. RepeatsCounted
  BY EmptySeq DEF Init, RepeatsCounted, ToSet
<1> QED
  BY <1>1, <1>2, <1>3, <1>4 DEF BlacklistInv

\* Every step keeps what is known of workers, list and log.
LEMMA FeedStep == FeedInv /\ [Next]_vars => FeedInv'
<1> SUFFICES ASSUME FeedInv, [Next]_vars PROVE FeedInv'
  OBVIOUS
<1> DEFINE Aside == UNCHANGED <<queue, pushes, phase, at, got, todo, logged>>
<1>1. Aside => FeedInv'
  BY FeedKeeps DEF FeedInv, QueueSound
<1>2. CASE UNCHANGED vars
  BY <1>2, <1>1 DEF vars, broker, feeders
<1>3. ASSUME NEW d \in Callers, Deliver(d) \/ CallFails(d) PROVE FeedInv'
  BY <1>3, <1>1 DEF Deliver, CheckChannel, FetchChannel, SendMessage, CallFails, broker, feeders
<1>4. ASSUME NEW d \in Runs, NEW m \in Monitors, NEW n \in Sizes, RunDelivers(d, m, n)
      PROVE  FeedInv'
  BY <1>4, <1>1 DEF RunDelivers, broker, feeders
<1>5. ASSUME NEW w \in Workers, Work(w) \/ WorkerCrash(w) PROVE FeedInv'
  BY <1>5, WorkKeeps, CrashedWorkerKeeps
<1>6. ASSUME NEW c \in Channels, ChannelChanges(c) PROVE FeedInv'
  BY <1>6, <1>1 DEF ChannelChanges, broker, feeders
<1>7. CASE ProcessOne \/ PopLosesReply
  BY <1>7, PopSteps
<1>8. CASE RedisReturns \/ Expire \/ RedisStops \/ GatewayCrash
  BY <1>8, <1>1 DEF RedisReturns, Expire, RedisStops, GatewayCrash, broker, feeders
<1>9. CASE RedisEvicts
  <2>1. queue' = <<>> /\ UNCHANGED <<pushes, phase, at, got, todo, logged>>
    BY <1>9 DEF RedisEvicts, feeders
  <2>2. QueueSound'
    BY <2>1, EmptySeq DEF FeedInv, QueueSound
  <2> QED
    BY <2>1, <2>2, FeedKeeps
<1> QED
  BY <1>2, <1>3, <1>4, <1>5, <1>6, <1>7, <1>8, <1>9 DEF Next, Outage

\* Every step keeps what is known of the blacklist and its callers.
LEMMA BlacklistStep == FeedInv /\ BlacklistInv /\ [Next]_vars => BlacklistInv'
<1> SUFFICES ASSUME FeedInv, BlacklistInv, [Next]_vars PROVE BlacklistInv'
  OBVIOUS
<1>1. UNCHANGED <<dead, stale, repeats, step, rest>> => BlacklistInv'
  BY DEF BlacklistInv, CallsSound, BlacklistSound, RepeatsCounted, Past
<1>2. CASE UNCHANGED vars
  BY <1>2, <1>1 DEF vars, blacklist, calls
<1>3. ASSUME NEW d \in Callers, Deliver(d) \/ CallFails(d) PROVE BlacklistInv'
  BY <1>3, CheckKeeps, AnswerKeeps DEF Deliver
<1>4. ASSUME NEW d \in Runs, NEW m \in Monitors, NEW n \in Sizes, RunDelivers(d, m, n)
      PROVE  BlacklistInv'
  <2>1. Targets[m] \in Seq(Channels) /\ d \in Callers
    BY DeliveryAssumption DEF Callers
  <2> QED
    BY <1>4, <2>1, StartKeeps DEF RunDelivers
<1>5. ASSUME NEW w \in Workers, Work(w) \/ WorkerCrash(w) PROVE BlacklistInv'
  BY <1>5, <1>1 DEF Work, StartCycle, MarkPublished, FetchItems, ProcessItem, ProcessRaises,
     WorkerCrash, blacklist, calls
<1>6. ASSUME NEW c \in Channels, ChannelChanges(c) PROVE BlacklistInv'
  BY <1>6, <1>1 DEF ChannelChanges, blacklist, calls
<1>7. CASE ProcessOne
  <2>1. Targets[pushes[queue[1]][1]] \in Seq(Channels) /\ Consumer \in Callers
        /\ UNCHANGED blacklist
    BY <1>7, PopSteps DEF Callers
  <2>2. StartCall(Consumer, queue[1], 1, Targets[pushes[queue[1]][1]])
    BY <1>7 DEF ProcessOne, FirstTask
  <2> QED
    BY <2>1, <2>2, StartKeeps
<1>8. CASE RedisReturns \/ RedisStops \/ RedisEvicts \/ PopLosesReply
  BY <1>8, <1>1 DEF RedisReturns, RedisStops, RedisEvicts, PopLosesReply, blacklist, calls
<1>9. CASE Expire
  BY <1>9, ExpireKeeps
<1>10. CASE GatewayCrash
  BY <1>10, RestartForgets
<1> QED
  BY <1>2, <1>3, <1>4, <1>5, <1>6, <1>7, <1>8, <1>9, <1>10 DEF Next, Outage

\* The two invariants, for any channels, workers, callers and failures.
THEOREM DeliveryInvariant == Spec => [](FeedInv /\ BlacklistInv)
BY SafeInit, FeedStep, BlacklistStep, PTL DEF Spec

\* The blacklist never outgrows its capacity and holds a channel once
\* (discord_delivery_adapter.py:43-53).
THEOREM BlacklistAlwaysBounded == Spec => []BlacklistBounded
<1>1. BlacklistInv => BlacklistBounded
  BY DEF BlacklistInv, BlacklistSound, BlacklistBounded
<1> QED
  BY <1>1, DeliveryInvariant, PTL

\* Once a channel is blacklisted, each other caller fails on it at most once more
\* (discord_delivery_adapter.py:96-117).
THEOREM FailingCallsAlwaysBounded == Spec => []FailingCallsBounded
<1>1. BlacklistInv => FailingCallsBounded
  <2> SUFFICES ASSUME BlacklistInv, NEW c \in Channels
      PROVE  repeats[c] < Cardinality(Callers)
    BY DEF FailingCallsBounded
  <2>1. Cardinality(Past(c)) \in Nat /\ repeats[c] \in Nat
    BY PastFinite DEF BlacklistInv, RepeatsCounted
  <2> QED
    BY <2>1, CallersFinite DEF BlacklistInv, RepeatsCounted
<1> QED
  BY <1>1, DeliveryInvariant, PTL

\* A worker records only what it pushed, or what needs no push
\* (feed_worker.py:49-55).
THEOREM LoggedAlwaysPushed == Spec => []LoggedWasPushed
<1>1. FeedInv => LoggedWasPushed
  <2> SUFFICES ASSUME FeedInv, NEW t \in logged
      PROVE  t[2] \in Old \/ Targets[t[1]] = <<>> \/ t \in ToSet(pushes)
    BY DEF LoggedWasPushed
  <2>1. t \in Tasks /\ Handed(t[1], t[2]) /\ t = <<t[1], t[2]>>
    BY DEF FeedInv, LogSound, Tasks
  <2> QED
    BY <2>1 DEF Handed
<1> QED
  BY <1>1, DeliveryInvariant, PTL

-----------------------------------------------------------------------------
(* The order of the alerts, for monitors that name each channel once.      *)

DistinctTargets == \A m \in Monitors : IsInjective(Targets[m])

\* Runs of the gateway's own scheduler have no serial; the consumer's task is older
\* than what is on the list and makes one message.
SerialsSound ==
  /\ job \in [Callers -> Nat] /\ \A d \in Runs : job[d] = 0
  /\ parts \in [Callers -> Nat] /\ parts[Consumer] # 2 /\ step[Consumer] # "second"
  /\ step[Consumer] # "idle" => job[Consumer] \in 1..Len(pushes)
  /\ step[Consumer] = "idle" => job[Consumer] = 0
  /\ IsInjective(rest[Consumer])
  /\ \A i \in 1..Len(queue) : job[Consumer] < queue[i]

\* What reached a channel is older than what is on the list and than the task that
\* is still to reach it.
WireSound ==
  /\ wire \in [Channels -> Seq(Nat)]
  /\ \A c \in Channels : \A n \in ToSet(wire[c]) :
       /\ n <= Len(pushes) /\ \A i \in 1..Len(queue) : n < queue[i]
       /\ step[Consumer] # "idle" =>
            n <= job[Consumer] /\ (c \in ToSet(rest[Consumer]) => n < job[Consumer])

OrderInv == SerialsSound /\ WireSound /\ InOrder

\* The consumer and the runs of the scheduler are different callers.
LEMMA ConsumerCalls == Consumer \in Callers /\ \A d \in Runs : d \in Callers /\ d # Consumer
BY DeliveryAssumption DEF Callers

\* What a channel has received are serials.
LEMMA WireNat ==
  ASSUME WireSound, NEW c \in Channels, NEW n \in ToSet(wire[c])
  PROVE  n \in Nat
<1>1. wire[c] \in Seq(Nat)
  BY DEF WireSound
<1> QED
  BY <1>1, LenProperties, ElementOfSeq DEF ToSet

\* Steps that leave the wire and the consumer's call alone.
LEMMA OrderAside ==
  ASSUME OrderInv, QueueSound, AtMostOnePush, UNCHANGED wire,
         UNCHANGED <<step[Consumer], job[Consumer], parts[Consumer], rest[Consumer]>>,
         job' \in [Callers -> Nat], \A d \in Runs : job'[d] = 0,
         parts' \in [Callers -> Nat]
  PROVE  OrderInv'
<1>1. Len(pushes) \in Nat /\ Len(pushes') \in {Len(pushes), Len(pushes) + 1}
  BY LenProperties DEF QueueSound, AtMostOnePush
<1>2. \A i \in 1..Len(queue') :
        \/ i \in 1..Len(queue) /\ queue'[i] = queue[i]
        \/ queue'[i] = Len(pushes) + 1
  <2>1. CASE queue' = queue
    BY <2>1
  <2>2. CASE queue' # queue
    <3>1. queue \in Seq(Nat) /\ Len(queue) \in Nat /\ Len(pushes) + 1 \in Nat
          /\ queue' = Append(queue, Len(pushes) + 1)
      BY <2>2, <1>1, LenProperties DEF QueueSound, AtMostOnePush
    <3>2. /\ Len(queue') = Len(queue) + 1 /\ queue'[Len(queue) + 1] = Len(pushes) + 1
          /\ \A i \in 1..Len(queue) : queue'[i] = queue[i]
      BY <3>1, AppendProperties
    <3> QED
      BY <3>1, <3>2
  <2> QED
    BY <2>1, <2>2
<1>3. job[Consumer] \in Nat /\ job[Consumer] <= Len(pushes)
  BY <1>1, ConsumerCalls DEF OrderInv, SerialsSound
<1>4. SerialsSound'
  <2>1. ASSUME NEW i \in 1..Len(queue') PROVE job[Consumer] < queue'[i]
    <3>1. CASE i \in 1..Len(queue) /\ queue'[i] = queue[i]
      BY <3>1 DEF OrderInv, SerialsSound
    <3>2. CASE queue'[i] = Len(pushes) + 1
      BY <3>2, <1>1, <1>3
    <3> QED
      BY <3>1, <3>2, <1>2
  <2> QED
    BY <2>1, <1>1 DEF OrderInv, SerialsSound
<1>5. WireSound'
  <2>1. ASSUME NEW c \in Channels, NEW n \in ToSet(wire[c])
        PROVE  n <= Len(pushes') /\ \A i \in 1..Len(queue') : n < queue'[i]
    <3>1. n \in Nat /\ n <= Len(pushes)
      BY WireNat DEF OrderInv, WireSound
    <3>2. ASSUME NEW i \in 1..Len(queue') PROVE n < queue'[i]
      <4>1. CASE i \in 1..Len(queue) /\ queue'[i] = queue[i]
        BY <4>1 DEF OrderInv, WireSound
      <4>2. CASE queue'[i] = Len(pushes) + 1
        BY <4>2, <1>1, <3>1
      <4> QED
        BY <4>1, <4>2, <1>2
    <3>3. n <= Len(pushes')
      BY <3>1, <1>1
    <3> QED
      BY <3>2, <3>3
  <2> QED
    BY <2>1 DEF OrderInv, WireSound
<1>6. InOrder'
  BY DEF OrderInv, InOrder
<1> QED
  BY <1>4, <1>5, <1>6 DEF OrderInv

\* The consumer goes on to the next channel; the one it leaves it does not meet again.
LEMMA ConsumerGoesOn ==
  ASSUME CallsSound, SerialsSound, step[Consumer] # "idle", NextChannel(Consumer)
  PROVE  /\ job' \in [Callers -> Nat] /\ \A d \in Runs : job'[d] = 0
         /\ parts' \in [Callers -> Nat] /\ parts'[Consumer] # 2 /\ step'[Consumer] # "second"
         /\ IsInjective(rest'[Consumer])
         /\ Head(rest[Consumer]) \in Channels
         /\ \/ step'[Consumer] = "idle" /\ job'[Consumer] = 0
            \/ /\ step'[Consumer] = "check" /\ job'[Consumer] = job[Consumer]
               /\ ToSet(rest'[Consumer]) = ToSet(rest[Consumer]) \ {Head(rest[Consumer])}
<1>1. /\ rest[Consumer] \in Seq(Channels) /\ rest[Consumer] # <<>>
      /\ Head(rest[Consumer]) \in Channels
  BY AtChannel, ConsumerCalls
<1>2. /\ IsInjective(Tail(rest[Consumer]))
      /\ ToSet(Tail(rest[Consumer])) = ToSet(rest[Consumer]) \ {Head(rest[Consumer])}
  BY <1>1, Tailed DEF SerialsSound
<1>3. CASE Len(rest[Consumer]) = 1
  <2>1. /\ step' = [step EXCEPT ![Consumer] = "idle"]
        /\ job' = [job EXCEPT ![Consumer] = 0]
        /\ parts' = [parts EXCEPT ![Consumer] = 0]
        /\ rest' = [rest EXCEPT ![Consumer] = <<>>]
    BY <1>3 DEF NextChannel, EndCall
  <2>2. rest'[Consumer] = <<>>
    BY <2>1, ConsumerCalls DEF CallsSound
  <2>3. IsInjective(rest'[Consumer])
    BY <2>2 DEF IsInjective
  <2> QED
    BY <1>1, <2>1, <2>3, ConsumerCalls DEF SerialsSound, CallsSound
<1>4. CASE Len(rest[Consumer]) # 1
  <2>1. /\ step' = [step EXCEPT ![Consumer] = "check"] /\ UNCHANGED <<job, parts>>
        /\ rest' = [rest EXCEPT ![Consumer] = Tail(rest[Consumer])]
    BY <1>4 DEF NextChannel
  <2> QED
    BY <1>1, <1>2, <2>1, ConsumerCalls DEF SerialsSound, CallsSound
<1> QED
  BY <1>3, <1>4

\* It does so without having sent anything.
LEMMA SkipKeepsOrder ==
  ASSUME CallsSound, QueueSound, OrderInv, step[Consumer] # "idle", NextChannel(Consumer),
         UNCHANGED <<wire, queue, pushes>>
  PROVE  OrderInv'
<1>1. SerialsSound'
  <2>1. job'[Consumer] \in {0, job[Consumer]} /\ job[Consumer] \in Nat
    BY ConsumerGoesOn, ConsumerCalls DEF OrderInv, SerialsSound
  <2>2. \A i \in 1..Len(queue) : job'[Consumer] < queue[i]
    <3>1. ASSUME NEW i \in 1..Len(queue)
          PROVE  job[Consumer] < queue[i] /\ queue[i] \in Nat
      <4>1. queue[i] \in 1..Len(pushes) /\ Len(pushes) \in Nat
        BY LenProperties DEF QueueSound
      <4> QED
        BY <4>1 DEF OrderInv, SerialsSound
    <3> QED
      BY <3>1, <2>1
  <2> QED
    BY <2>2, ConsumerGoesOn DEF OrderInv, SerialsSound
<1>2. WireSound'
  BY ConsumerGoesOn DEF OrderInv, WireSound
<1>3. InOrder'
  BY DEF OrderInv, InOrder
<1> QED
  BY <1>1, <1>2, <1>3 DEF OrderInv

\* A message of the consumer's task is newer than what the channel has.
LEMMA SendKeepsOrder ==
  ASSUME CallsSound, OrderInv, step[Consumer] = "send", NextChannel(Consumer),
         UNCHANGED <<queue, pushes>>, QueueSound,
         wire' = [wire EXCEPT ![Head(rest[Consumer])] = Append(@, job[Consumer])]
  PROVE  OrderInv'
<1> DEFINE c == Head(rest[Consumer])
           n == job[Consumer]
<1>1. /\ c \in Channels /\ c \in ToSet(rest[Consumer])
      /\ n \in 1..Len(pushes) /\ n \in Nat /\ Len(pushes) \in Nat
      /\ wire[c] \in Seq(Nat)
  <2>1. rest[Consumer] \in Seq(Channels) /\ rest[Consumer] # <<>>
    BY AtChannel, ConsumerCalls
  <2> QED
    BY <2>1, AtChannel, Tailed, ConsumerCalls, LenProperties
       DEF OrderInv, SerialsSound, WireSound, QueueSound
<1>2. \A k \in ToSet(wire[c]) : k \in Nat /\ k < n
  BY <1>1, WireNat DEF OrderInv, WireSound
<1>3. /\ wire'[c] = Append(wire[c], n) /\ wire'[c] \in Seq(Nat)
      /\ ToSet(wire'[c]) = ToSet(wire[c]) \cup {n}
      /\ Len(wire[c]) \in Nat /\ Len(wire'[c]) = Len(wire[c]) + 1
      /\ \A k \in 1..Len(wire[c]) : wire'[c][k] = wire[c][k]
      /\ wire'[c][Len(wire[c]) + 1] = n
      /\ \A x \in Channels \ {c} : wire'[x] = wire[x]
  <2>1. /\ wire'[c] = Append(wire[c], n)
        /\ \A x \in Channels \ {c} : wire'[x] = wire[x]
    BY <1>1 DEF OrderInv, WireSound
  <2>2. /\ Append(wire[c], n) \in Seq(Nat)
        /\ ToSet(Append(wire[c], n)) = ToSet(wire[c]) \cup {n}
        /\ Len(Append(wire[c], n)) = Len(wire[c]) + 1
    BY <1>1, Appended
  <2>3. /\ \A k \in 1..Len(wire[c]) : Append(wire[c], n)[k] = wire[c][k]
        /\ Append(wire[c], n)[Len(wire[c]) + 1] = n
        /\ Len(wire[c]) \in Nat
    BY <1>1, AppendProperties, LenProperties
  <2> QED
    BY <2>1, <2>2, <2>3
<1>4. SerialsSound'
  <2>1. \A i \in 1..Len(queue) : job'[Consumer] < queue[i]
    <3>1. \A i \in 1..Len(queue) : n < queue[i]
      BY DEF OrderInv, SerialsSound
    <3>2. job'[Consumer] \in {0, n}
      BY ConsumerGoesOn DEF OrderInv
    <3>3. \A i \in 1..Len(queue) : queue[i] \in Nat
      BY <1>1 DEF QueueSound
    <3> QED
      BY <3>1, <3>2, <3>3, <1>1
  <2> QED
    BY <2>1, ConsumerGoesOn DEF OrderInv, SerialsSound
<1>5. WireSound'
  <2>1. ASSUME NEW x \in Channels, NEW k \in ToSet(wire'[x])
        PROVE  /\ k <= Len(pushes) /\ \A i \in 1..Len(queue) : k < queue[i]
               /\ step'[Consumer] # "idle" =>
                    /\ k <= job'[Consumer]
                    /\ x \in ToSet(rest'[Consumer]) => k < job'[Consumer]
    <3>1. CASE k \in ToSet(wire[x])
      BY <3>1, ConsumerGoesOn DEF OrderInv, WireSound
    <3>2. CASE k \notin ToSet(wire[x])
      <4>1. x = c /\ k = n
        BY <3>2, <2>1, <1>3
      <4>2. \A i \in 1..Len(queue) : n < queue[i]
        BY DEF OrderInv, SerialsSound
      <4>3. step'[Consumer] # "idle" => job'[Consumer] = n /\ c \notin ToSet(rest'[Consumer])
        BY ConsumerGoesOn DEF OrderInv
      <4> QED
        BY <4>1, <4>2, <4>3, <1>1
    <3> QED
      BY <3>1, <3>2
  <2>2. wire' \in [Channels -> Seq(Nat)]
    BY <1>3 DEF OrderInv, WireSound
  <2> QED
    BY <2>1, <2>2 DEF WireSound
<1>6. InOrder'
  <2>1. ASSUME NEW x \in Channels, NEW k \in 2..Len(wire'[x])
        PROVE  wire'[x][k - 1] < wire'[x][k]
    <3>1. CASE x # c
      BY <3>1, <2>1, <1>3 DEF OrderInv, InOrder
    <3>2. CASE x = c /\ k = Len(wire[c]) + 1
      <4>1. k - 1 \in 1..Len(wire[c]) /\ k - 1 = Len(wire[c])
        BY <3>2, <2>1, <1>3
      <4>2. wire[c][k - 1] \in ToSet(wire[c])
        BY <4>1, <1>1, LenProperties DEF ToSet
      <4>3. wire'[c][k - 1] = wire[c][k - 1] /\ wire'[c][k] = n
        BY <4>1, <3>2, <1>3
      <4> QED
        BY <4>2, <4>3, <3>2, <1>2
    <3>3. CASE x = c /\ k # Len(wire[c]) + 1
      <4>1. k \in 2..Len(wire[c]) /\ k \in 1..Len(wire[c]) /\ k - 1 \in 1..Len(wire[c])
        BY <3>3, <2>1, <1>3
      <4> QED
        BY <4>1, <3>3, <1>1, <1>3 DEF OrderInv, InOrder
    <3> QED
      BY <3>1, <3>2, <3>3
  <2> QED
    BY <2>1 DEF InOrder
<1> QED
  BY <1>4, <1>5, <1>6 DEF OrderInv

\* The consumer passes its check, or gets the channel, and stays with it.
LEMMA StayKeepsOrder ==
  ASSUME CallsSound, OrderInv, step[Consumer] # "idle", NEW place \in {"fetch", "send"},
         step' = [step EXCEPT ![Consumer] = place],
         UNCHANGED <<job, parts, rest, wire, queue, pushes>>
  PROVE  OrderInv'
<1>1. step'[Consumer] = place
  BY ConsumerCalls DEF CallsSound
<1> QED
  BY <1>1 DEF OrderInv, SerialsSound, WireSound, InOrder

\* The consumer's steps.
LEMMA ConsumerKeepsOrder ==
  ASSUME CallsSound, QueueSound, OrderInv, Deliver(Consumer) \/ CallFails(Consumer)
  PROVE  OrderInv'
<1>1. /\ UNCHANGED <<queue, pushes>> /\ step[Consumer] \in {"check", "fetch", "send"}
  BY DEF Deliver, CheckChannel, FetchChannel, SendMessage, CallFails, broker, OrderInv,
         SerialsSound
<1>2. CASE CheckChannel(Consumer) \/ FetchChannel(Consumer) \/ CallFails(Consumer)
  <2>1. UNCHANGED wire
    BY <1>2 DEF CheckChannel, FetchChannel, CallFails
  <2>2. CASE NextChannel(Consumer)
    BY <2>1, <2>2, <1>1, SkipKeepsOrder
  <2>3. CASE ~NextChannel(Consumer)
    <3>1. /\ step' = [step EXCEPT ![Consumer] = "fetch"] \/ step' = [step EXCEPT ![Consumer] = "send"]
          /\ UNCHANGED <<job, parts, rest>>
      BY <1>2, <2>3 DEF CheckChannel, FetchChannel, CallFails
    <3> QED
      BY <3>1, <2>1, <1>1, StayKeepsOrder
  <2> QED
    BY <2>2, <2>3
<1>3. CASE SendMessage(Consumer)
  <2>1. step[Consumer] = "send" /\ parts[Consumer] # 2
    BY <1>1, <1>3 DEF SendMessage, OrderInv, SerialsSound
  <2>2. NextChannel(Consumer)
    BY <1>3, <2>1 DEF SendMessage
  <2>3. CASE wire' = wire
    BY <2>1, <2>2, <2>3, <1>1, SkipKeepsOrder
  <2>4. CASE wire' # wire
    <3>1. wire' = [wire EXCEPT ![Head(rest[Consumer])] = Append(@, job[Consumer])]
      BY <2>4, <1>3 DEF SendMessage
    <3> QED
      BY <3>1, <2>1, <2>2, <1>1, SendKeepsOrder
  <2> QED
    BY <2>3, <2>4
<1> QED
  BY <1>2, <1>3 DEF Deliver

\* The runs of the gateway's scheduler carry no serial.
LEMMA RunsKeepOrder ==
  ASSUME CallsSound, QueueSound, OrderInv, NEW d \in Runs,
         \/ Deliver(d) \/ CallFails(d)
         \/ \E m \in Monitors, n \in Sizes : RunDelivers(d, m, n)
  PROVE  OrderInv'
<1>1. d \in Callers /\ d # Consumer /\ job[d] = 0 /\ Consumer \in Callers
  BY ConsumerCalls DEF OrderInv, SerialsSound
<1>2. UNCHANGED <<queue, pushes, wire>>
  BY <1>1 DEF Deliver, CheckChannel, FetchChannel, SendMessage, CallFails, RunDelivers, broker
<1> DEFINE Elsewhere ==
             /\ UNCHANGED <<step[Consumer], job[Consumer], parts[Consumer], rest[Consumer]>>
             /\ job' \in [Callers -> Nat] /\ \A r \in Runs : job'[r] = 0
             /\ parts' \in [Callers -> Nat]
<1> USE <1>1 DEF CallsSound, OrderInv, SerialsSound
<1>3. ASSUME NextChannel(d) PROVE Elsewhere
  BY <1>3 DEF NextChannel, EndCall
<1>4. ASSUME ~NextChannel(d), Deliver(d) \/ CallFails(d) PROVE Elsewhere
  BY <1>4 DEF Deliver, CheckChannel, FetchChannel, SendMessage, CallFails
<1>5. ASSUME NEW m \in Monitors, NEW n \in Sizes, RunDelivers(d, m, n) PROVE Elsewhere
  <2>1. n \in Nat
    BY DeliveryAssumption
  <2>2. CASE Targets[m] = <<>>
    BY <2>2, <1>5 DEF RunDelivers, StartCall, calls
  <2>3. CASE Targets[m] # <<>>
    <3>1. /\ step' = [step EXCEPT ![d] = "check"] /\ job' = [job EXCEPT ![d] = 0]
          /\ parts' = [parts EXCEPT ![d] = n] /\ rest' = [rest EXCEPT ![d] = Targets[m]]
      BY <2>3, <1>5 DEF RunDelivers, StartCall
    <3> QED
      BY <2>1, <3>1
  <2> QED
    BY <2>2, <2>3
<1>6. Elsewhere
  BY <1>3, <1>4, <1>5
<1> QED
  BY <1>2, <1>6, OrderAside DEF AtMostOnePush

\* The popped task is older than what stays on the list, newer than what has arrived.
LEMMA PopKeepsOrder ==
  ASSUME DistinctTargets, FeedInv, CallsSound, OrderInv, ProcessOne \/ PopLosesReply
  PROVE  OrderInv'
<1> DEFINE n == queue[1]
           targets == Targets[pushes[n][1]]
<1>1. /\ queue # <<>> /\ queue' = RemoveAt(queue, FirstTask)
      /\ UNCHANGED <<pushes, wire>> /\ step[Consumer] = "idle" /\ QueueSound
  BY PopSteps DEF FeedInv
<1>2. /\ n \in 1..Len(pushes) /\ 1 \in 1..Len(queue) /\ Len(pushes) \in Nat
      /\ \A k \in 1..Len(queue') : k + 1 \in 1..Len(queue) /\ queue'[k] = queue[k + 1]
      /\ \A i \in 1..Len(queue) : queue[i] \in Nat
  <2>1. Len(pushes) \in Nat
    BY <1>1, LenProperties DEF QueueSound
  <2> QED
    BY <2>1, <1>1, PopKeeps DEF QueueSound
<1>3. \A k \in 1..Len(queue') : n < queue'[k]
  <2>1. ASSUME NEW k \in 1..Len(queue') PROVE n < queue'[k]
    <3>1. k + 1 \in 1..Len(queue) /\ 1 < k + 1 /\ queue'[k] = queue[k + 1]
      BY <1>2
    <3> QED
      BY <3>1, <1>1, <1>2 DEF QueueSound
  <2> QED
    BY <2>1
<1>4. \A c \in Channels : \A k \in ToSet(wire[c]) :
        k <= Len(pushes) /\ k < n /\ \A i \in 1..Len(queue') : k < queue'[i]
  BY <1>2 DEF OrderInv, WireSound
<1>5. InOrder' /\ wire' \in [Channels -> Seq(Nat)]
  BY <1>1 DEF OrderInv, InOrder, WireSound
<1>6. CASE UNCHANGED <<step, job, parts, rest>>
  <2>1. \A i \in 1..Len(queue') : job[Consumer] < queue'[i]
    BY <1>2 DEF OrderInv, SerialsSound
  <2>2. SerialsSound'
    BY <2>1, <1>1, <1>6 DEF OrderInv, SerialsSound
  <2>3. WireSound'
    BY <1>1, <1>4, <1>5, <1>6 DEF OrderInv, WireSound
  <2> QED
    BY <2>2, <2>3, <1>5 DEF OrderInv
<1>7. CASE ~UNCHANGED <<step, job, parts, rest>>
  <2>1. StartCall(Consumer, n, 1, targets)
    BY <1>7 DEF ProcessOne, PopLosesReply, FirstTask, calls
  <2>2. /\ step' = [step EXCEPT ![Consumer] = "check"]
        /\ job' = [job EXCEPT ![Consumer] = n]
        /\ parts' = [parts EXCEPT ![Consumer] = 1]
        /\ rest' = [rest EXCEPT ![Consumer] = targets]
    BY <2>1, <1>7 DEF StartCall, calls
  <2>3. step'[Consumer] = "check" /\ job'[Consumer] = n /\ parts'[Consumer] = 1
        /\ rest'[Consumer] = targets /\ n \in Nat
    BY <2>2, <1>2, ConsumerCalls DEF CallsSound, OrderInv, SerialsSound
  <2>4. IsInjective(targets)
    <3>1. pushes[n] \in Tasks
      BY <1>1, <1>2, ElementOfSeq DEF QueueSound
    <3> QED
      BY <3>1 DEF Tasks, DistinctTargets
  <2>5. SerialsSound'
    <3>1. /\ job' \in [Callers -> Nat] /\ parts' \in [Callers -> Nat]
          /\ \A d \in Runs : job'[d] = 0
      BY <2>2, <2>3, ConsumerCalls DEF OrderInv, SerialsSound
    <3> QED
      BY <3>1, <2>3, <2>4, <1>1, <1>2, <1>3 DEF SerialsSound
  <2>6. WireSound'
    <3>1. ASSUME NEW c \in Channels, NEW k \in ToSet(wire[c])
          PROVE  k <= n /\ k < n
      <4>1. k \in Nat /\ n \in Nat
        BY <1>2, WireNat DEF OrderInv
      <4>2. k < n
        BY <1>4
      <4> QED
        BY <4>1, <4>2
    <3> QED
      BY <3>1, <2>3, <1>1, <1>4, <1>5 DEF WireSound
  <2> QED
    BY <2>5, <2>6, <1>5 DEF OrderInv
<1> QED
  BY <1>6, <1>7

\* A restart of the gateway or the eviction of the list only takes away.
LEMMA LossKeepsOrder ==
  ASSUME QueueSound, CallsSound, OrderInv, GatewayCrash \/ RedisEvicts
  PROVE  OrderInv'
<1>1. UNCHANGED <<pushes, wire>>
  BY DEF GatewayCrash, RedisEvicts
<1>2. CASE GatewayCrash
  <2>1. /\ step'[Consumer] = "idle" /\ rest'[Consumer] = <<>> /\ parts'[Consumer] = 0
        /\ job' \in [Callers -> Nat] /\ parts' \in [Callers -> Nat]
        /\ \A d \in Callers : job'[d] = 0
        /\ queue' = queue
    BY <1>2, ConsumerCalls DEF GatewayCrash, broker
  <2>2. \A i \in 1..Len(queue) : 0 < queue[i]
    <3>1. Len(pushes) \in Nat
      BY LenProperties DEF QueueSound
    <3> QED
      BY <3>1 DEF QueueSound
  <2>3. IsInjective(rest'[Consumer])
    BY <2>1 DEF IsInjective
  <2>4. SerialsSound'
    BY <2>1, <2>2, <2>3, ConsumerCalls DEF SerialsSound
  <2> QED
    BY <2>1, <2>4, <1>1 DEF OrderInv, WireSound, InOrder
<1>3. CASE RedisEvicts
  <2>1. queue' = <<>> /\ Len(queue') = 0 /\ UNCHANGED <<step, job, parts, rest>>
    BY <1>3, EmptySeq DEF RedisEvicts, calls
  <2> QED
    BY <2>1, <1>1 DEF OrderInv, SerialsSound, WireSound, InOrder
<1> QED
  BY <1>2, <1>3

\* Every step keeps the order.
LEMMA OrderStep ==
  ASSUME DistinctTargets
  PROVE  FeedInv /\ BlacklistInv /\ OrderInv /\ [Next]_vars => OrderInv'
<1> SUFFICES ASSUME FeedInv, BlacklistInv, OrderInv, [Next]_vars PROVE OrderInv'
  OBVIOUS
<1>1. QueueSound /\ CallsSound
  BY DEF FeedInv, BlacklistInv
<1>2. ASSUME AtMostOnePush, UNCHANGED <<wire, step, job, parts, rest>> PROVE OrderInv'
  <2>1. job' \in [Callers -> Nat] /\ parts' \in [Callers -> Nat] /\ \A d \in Runs : job'[d] = 0
    BY <1>2 DEF OrderInv, SerialsSound
  <2> QED
    BY <2>1, <1>1, <1>2, OrderAside
<1>3. CASE UNCHANGED vars
  BY <1>3, <1>2 DEF vars, calls, broker, AtMostOnePush
<1>4. ASSUME NEW d \in Callers, Deliver(d) \/ CallFails(d) PROVE OrderInv'
  BY <1>1, <1>4, ConsumerKeepsOrder, RunsKeepOrder DEF Callers
<1>5. ASSUME NEW d \in Runs, NEW m \in Monitors, NEW n \in Sizes, RunDelivers(d, m, n)
      PROVE  OrderInv'
  BY <1>1, <1>5, RunsKeepOrder
<1>6. ASSUME NEW w \in Workers, Work(w) PROVE OrderInv'
  <2>1. UNCHANGED <<wire, step, job, parts, rest>>
    BY <1>6 DEF Work, StartCycle, MarkPublished, FetchItems, ProcessItem, ProcessRaises, calls
  <2> QED
    BY <2>1, <1>2, <1>6, WorkKeeps
<1>7. ASSUME NEW w \in Workers, WorkerCrash(w) PROVE OrderInv'
  BY <1>7, <1>2 DEF WorkerCrash, calls, AtMostOnePush
<1>8. ASSUME NEW c \in Channels, ChannelChanges(c) PROVE OrderInv'
  BY <1>8, <1>2 DEF ChannelChanges, calls, broker, AtMostOnePush
<1>9. CASE ProcessOne \/ PopLosesReply
  BY <1>1, <1>9, PopKeepsOrder
<1>10. CASE RedisReturns \/ RedisStops \/ Expire
  BY <1>10, <1>2 DEF RedisReturns, RedisStops, Expire, calls, broker, AtMostOnePush
<1>11. CASE GatewayCrash \/ RedisEvicts
  BY <1>1, <1>11, LossKeepsOrder
<1> QED
  BY <1>3, <1>4, <1>5, <1>6, <1>7, <1>8, <1>9, <1>10, <1>11 DEF Next, Outage

\* Nothing has been sent at the start.
LEMMA OrderInit == Init => OrderInv
<1> SUFFICES ASSUME Init PROVE OrderInv
  OBVIOUS
<1>1. SerialsSound
  BY EmptySeq, ConsumerCalls DEF Init, SerialsSound, IsInjective
<1>2. WireSound /\ InOrder
  BY EmptySeq DEF Init, WireSound, InOrder, ToSet
<1> QED
  BY <1>1, <1>2 DEF OrderInv

\* Where no monitor names a channel twice, the workers' alerts reach a channel in the
\* order of their pushes and each at most once, whatever is lost, fails or crashes on
\* the way (queue_service.py:73-91, queue_consumer.py:27-55).
THEOREM AlwaysInOrder ==
  ASSUME DistinctTargets
  PROVE  Spec => []InOrder
<1>1. Init => OrderInv
  BY OrderInit
<1>2. FeedInv /\ BlacklistInv /\ OrderInv /\ [Next]_vars => OrderInv'
  BY OrderStep
<1>3. OrderInv => InOrder
  BY DEF OrderInv
<1> QED
  BY <1>1, <1>2, <1>3, DeliveryInvariant, PTL DEF Spec
=============================================================================
