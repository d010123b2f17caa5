--------------------------- MODULE QueryPathProofs ---------------------------
(***************************************************************************)
(* The domain filter means what its lists say, for all names and patterns; *)
(* and what handleQuery takes from the cache keeps its promises, for every *)
(* number of handlers, keys and entries, every choice of TTLs and every    *)
(* sequence of reloads.                                                    *)
(*                                                                         *)
(* The first part is about texts only: the code's comparisons (prefix,     *)
(* suffix, tail) are restated index by index, and shown to be what lying   *)
(* in a zone means.  The second is an invariance proof.  TTLs and ages     *)
(* need that an entry bears the time of a query that was older than its    *)
(* response (EntriesDated) which the handler brings along                  *)
(* (HandlersInStep); the rules need that a verdict recorded for a query is *)
(* the one of the rules in force (VerdictsCurrent).                        *)
(***************************************************************************)
EXTENDS QueryPath, SequenceTheorems, FiniteSetTheorems, TLAPS

\* names and patterns
Text == Seq(Char)

\* IsPrefix, character by character.
LEMMA PrefixByIndex ==
  ASSUME NEW s \in Text, NEW t \in Text
  PROVE  IsPrefix(s, t) <=> Len(s) <= Len(t) /\ \A i \in 1..Len(s) : s[i] = t[i]
<1> USE DEF Text
<1>1. SubSeq(s, 1, Len(s)) = s
  BY SubSeqFull
<1>2. CASE Len(s) <= Len(t)
  <2> DEFINE u == SubSeq(t, 1, Len(s))
  <2>1. \A i \in 1..Len(s) : t[i] \in Char
    BY <1>2, ElementOfSeq, LenProperties
  <2>2. u \in Seq(Char) /\ Len(u) = Len(s) /\ \A i \in 1..Len(s) : u[i] = t[i]
    BY <2>1, SubSeqProperties, LenProperties
  <2> HIDE DEF u
  <2>3. s = u <=> \A i \in 1..Len(s) : s[i] = t[i]
    BY <2>2, SeqEqual
  <2> QED
    BY <1>1, <1>2, <2>3 DEF IsPrefix, u
<1> QED
  BY <1>2, LenProperties DEF IsPrefix

\* A text read backwards.
LEMMA ReverseByIndex ==
  ASSUME NEW s \in Text
  PROVE  /\ Reverse(s) \in Text /\ Len(Reverse(s)) = Len(s)
         /\ \A i \in 1..Len(s) : Reverse(s)[i] = s[Len(s) - i + 1]
<1> USE DEF Text
<1>1. Len(s) \in Nat /\ \A i \in 1..Len(s) : Len(s) - i + 1 \in 1..Len(s)
  BY LenProperties
<1>2. \A i \in 1..Len(s) : s[Len(s) - i + 1] \in Char
  BY <1>1, ElementOfSeq
<1> QED
  BY <1>1, <1>2 DEF Reverse

\* The end of t that is as long as s equals s: what IsSuffix, which compares
\* reversed sequences, comes to.
LEMMA SuffixByIndex ==
  ASSUME NEW s \in Text, NEW t \in Text
  PROVE  IsSuffix(s, t) <=> /\ Len(s) <= Len(t)
                            /\ \A i \in 1..Len(s) : s[i] = t[Len(t) - Len(s) + i]
<1> DEFINE rs == Reverse(s)
           rt == Reverse(t)
           m == Len(s)
           n == Len(t)
<1>1. m \in Nat /\ n \in Nat
  BY LenProperties DEF Text
<1>2. IsSuffix(s, t) <=> m <= n /\ \A i \in 1..m : rs[i] = rt[i]
  BY PrefixByIndex, ReverseByIndex DEF IsSuffix
<1>3. m <= n => \A i \in 1..m : rs[i] = s[m - i + 1] /\ rt[i] = t[n - i + 1]
  BY <1>1, ReverseByIndex
<1> HIDE DEF m, n, rs, rt
<1>4. ASSUME m <= n
      PROVE  (\A i \in 1..m : s[m - i + 1] = t[n - i + 1])
               <=> \A i \in 1..m : s[i] = t[n - m + i]
  <2>1. ASSUME \A i \in 1..m : s[m - i + 1] = t[n - i + 1], NEW j \in 1..m
        PROVE  s[j] = t[n - m + j]
    <3>1. m - j + 1 \in 1..m /\ m - (m - j + 1) + 1 = j /\ n - (m - j + 1) + 1 = n - m + j
      BY <1>1
    <3> QED
      BY <2>1, <3>1
  <2>2. ASSUME \A i \in 1..m : s[i] = t[n - m + i], NEW j \in 1..m
        PROVE  s[m - j + 1] = t[n - j + 1]
    <3>1. m - j + 1 \in 1..m /\ n - m + (m - j + 1) = n - j + 1
      BY <1>1
    <3> QED
      BY <2>2, <3>1
  <2> QED
    BY <2>1, <2>2
<1> QED
  BY <1>2, <1>3, <1>4 DEF m, n

\* The rest of a name behind a dot.
LEMMA ZoneByIndex ==
  ASSUME NEW name \in Text, NEW zone \in Text
  PROVE  (\E i \in 1..Len(name) : name[i] = "." /\ SubSeq(name, i + 1, Len(name)) = zone)
           <=> /\ Len(zone) < Len(name)
               /\ name[Len(name) - Len(zone)] = "."
               /\ \A j \in 1..Len(zone) : zone[j] = name[Len(name) - Len(zone) + j]
<1> USE DEF Text
<1> DEFINE m == Len(zone)
           n == Len(name)
<1>1. m \in Nat /\ n \in Nat
  BY LenProperties
<1>2. ASSUME NEW i \in 1..n
      PROVE  /\ SubSeq(name, i + 1, n) \in Text
             /\ Len(SubSeq(name, i + 1, n)) = n - i
             /\ \A j \in 1..(n - i) : SubSeq(name, i + 1, n)[j] = name[i + j]
  <2>1. \A j \in (i + 1)..n : name[j] \in Char
    BY <1>1, ElementOfSeq
  <2>2. i + 1 \in Int /\ n \in Int /\ n - (i + 1) + 1 = n - i
    BY <1>1
  <2>3. /\ SubSeq(name, i + 1, n) \in Seq(Char)
        /\ Len(SubSeq(name, i + 1, n)) = IF i + 1 <= n THEN n - (i + 1) + 1 ELSE 0
        /\ \A j \in 1..(n - (i + 1) + 1) : SubSeq(name, i + 1, n)[j] = name[(i + 1) + j - 1]
    BY <2>1, <2>2, SubSeqProperties
  <2>4. Len(SubSeq(name, i + 1, n)) = n - i
    BY <1>1, <2>3
  <2>5. ASSUME NEW j \in 1..(n - i) PROVE SubSeq(name, i + 1, n)[j] = name[i + j]
    <3>1. (i + 1) + j - 1 = i + j
      BY <1>1
    <3> QED
      BY <2>2, <2>3, <3>1
  <2> QED
    BY <2>3, <2>4, <2>5
<1>3. ASSUME NEW i \in 1..n, name[i] = ".", SubSeq(name, i + 1, n) = zone
      PROVE  m < n /\ name[n - m] = "." /\ \A j \in 1..m : zone[j] = name[n - m + j]
  <2>1. m = n - i /\ i = n - m
    BY <1>1, <1>2, <1>3
  <2> QED
    BY <1>1, <1>2, <1>3, <2>1
<1>4. ASSUME m < n, name[n - m] = ".", \A j \in 1..m : zone[j] = name[n - m + j]
      PROVE  \E i \in 1..n : name[i] = "." /\ SubSeq(name, i + 1, n) = zone
  <2> DEFINE i == n - m
             u == SubSeq(name, i + 1, n)
  <2>1. i \in 1..n /\ n - i = m
    BY <1>1, <1>4
  <2>2. u \in Text /\ Len(u) = m /\ \A j \in 1..m : u[j] = name[i + j]
    BY <1>2, <2>1
  <2>3. u = zone
    BY <1>4, <2>2, SeqEqual
  <2> QED
    BY <1>4, <2>1, <2>3
<1> QED
  BY <1>3, <1>4

\* A pattern that begins with "*." is that and a zone.
LEMMA WildcardByIndex ==
  ASSUME NEW p \in Text
  PROVE  LET zone == SubSeq(p, 3, Len(p)) IN
         /\ zone \in Text
         /\ p = <<"*", ".">> \o zone <=> IsPrefix(<<"*", ".">>, p)
         /\ IsPrefix(<<"*", ".">>, p) =>
              /\ Len(p) >= 2 /\ p[1] = "*" /\ p[2] = "." /\ Len(zone) = Len(p) - 2
              /\ \A j \in 1..Len(zone) : zone[j] = p[j + 2]
<1> USE DEF Text
<1> DEFINE star == <<"*", ".">>
           zone == SubSeq(p, 3, Len(p))
<1>1. /\ star \in Text /\ Len(star) = 2 /\ star[1] = "*" /\ star[2] = "."
      /\ Len(p) \in Nat
  <2>1. star \in Text
    BY CharAssumption
  <2>2. Len(star) = 2 /\ star[1] = "*" /\ star[2] = "."
    OBVIOUS
  <2>3. Len(p) \in Nat
    BY LenProperties
  <2> QED
    BY <2>1, <2>2, <2>3
<1>2. /\ zone \in Text
      /\ Len(zone) = IF 3 <= Len(p) THEN Len(p) - 3 + 1 ELSE 0
      /\ \A j \in 1..(Len(p) - 3 + 1) : zone[j] = p[3 + j - 1]
  <2>1. \A j \in 3..Len(p) : p[j] \in Char
    BY <1>1, ElementOfSeq
  <2> QED
    BY <1>1, <2>1, SubSeqProperties
<1> HIDE DEF star, zone
<1>3. IsPrefix(star, p) <=> Len(p) >= 2 /\ p[1] = "*" /\ p[2] = "."
  <2>1. IsPrefix(star, p) <=> Len(star) <= Len(p) /\ \A i \in 1..Len(star) : star[i] = p[i]
    BY <1>1, PrefixByIndex
  <2> QED
    BY <1>1, <2>1
<1>4. /\ star \o zone \in Text /\ Len(star \o zone) = 2 + Len(zone)
      /\ \A i \in 1..(2 + Len(zone)) :
           (star \o zone)[i] = IF i <= 2 THEN star[i] ELSE zone[i - 2]
  <2>1. /\ star \o zone \in Seq(Char) /\ Len(star \o zone) = Len(star) + Len(zone)
        /\ \A i \in 1..(Len(star) + Len(zone)) :
             (star \o zone)[i] = IF i <= Len(star) THEN star[i] ELSE zone[i - Len(star)]
    BY <1>1, <1>2, ConcatProperties
  <2> QED
    BY <1>1, <2>1, Zenon
<1>5. p = star \o zone => IsPrefix(star, p)
  BY <1>1, <1>2, <1>3, <1>4
<1>6. IsPrefix(star, p) => /\ Len(zone) = Len(p) - 2
                          /\ \A j \in 1..Len(zone) : zone[j] = p[j + 2]
  BY <1>1, <1>2, <1>3
<1>7. ASSUME IsPrefix(star, p) PROVE p = star \o zone
  <2>1. Len(p) = Len(star \o zone)
    BY <1>1, <1>4, <1>6, <1>7
  <2>2. ASSUME NEW i \in 1..Len(p) PROVE p[i] = (star \o zone)[i]
    <3>1. CASE i <= 2
      BY <1>1, <1>3, <1>4, <1>7, <2>1, <3>1
    <3>2. CASE i > 2
      <4>1. i - 2 \in 1..Len(zone) /\ (i - 2) + 2 = i
        BY <1>1, <1>6, <1>7, <3>2
      <4>2. zone[i - 2] = p[i]
        BY <1>6, <1>7, <4>1
      <4> QED
        BY <1>1, <1>4, <2>1, <3>2, <4>2
    <3>3. i <= 2 \/ i > 2
      BY <1>1
    <3> QED
      BY <3>1, <3>2, <3>3
  <2> QED
    BY <1>4, <2>1, <2>2, SeqEqual
<1> QED
  BY <1>2, <1>3, <1>5, <1>6, <1>7 DEF star, zone

\* A name without its trailing dot is a name.
LEMMA NormalizedIsText == ASSUME NEW s \in Text PROVE Normalized(s) \in Text
<1>1. CASE s # <<>>
  <2>1. Len(s) \in Nat \ {0} /\ \A i \in 1..(Len(s) - 1) : s[i] \in Char
    BY <1>1, EmptySeq, LenProperties, ElementOfSeq DEF Text
  <2> QED
    BY <2>1, SubSeqProperties DEF Normalized, Front, Text
<1> QED
  BY <1>1 DEF Normalized

\* The code compares a name with the part of "*.zone" behind the star, dot
\* included, and with the zone: this is what lying in the zone means.
LEMMA WildcardMeaning ==
  ASSUME NEW p \in Text, NEW name \in Text, IsPrefix(<<"*", ".">>, p)
  PROVE  IsSuffix(Tail(p), name) \/ name = Tail(Tail(p))
           <=> p = name \/ InZone(name, SubSeq(p, 3, Len(p)))
<1> DEFINE zone == SubSeq(p, 3, Len(p))
           m == Len(zone)
           n == Len(name)
           q == Tail(p)
<1>1. /\ zone \in Text /\ Len(p) = m + 2 /\ p[1] = "*" /\ p[2] = "."
      /\ \A j \in 1..m : zone[j] = p[j + 2]
      /\ m \in Nat /\ n \in Nat
  BY WildcardByIndex, LenProperties DEF Text
<1>2. /\ q \in Text /\ Len(q) = m + 1 /\ q # <<>>
      /\ \A i \in 1..(m + 1) : q[i] = p[i + 1]
  <2>1. p # <<>>
    BY <1>1
  <2>2. q \in Seq(Char) /\ Len(q) = Len(p) - 1 /\ \A i \in 1..Len(q) : q[i] = p[i + 1]
    BY <2>1, HeadTailProperties DEF Text
  <2> HIDE DEF m, q
  <2>3. Len(q) = m + 1
    BY <1>1, <2>2
  <2>4. q # <<>>
    BY <1>1, <2>3
  <2> QED
    BY <2>2, <2>3, <2>4 DEF Text
<1>3. q[1] = "." /\ \A j \in 1..m : q[j + 1] = zone[j]
  BY <1>1, <1>2
<1>4. Tail(q) = zone
  <2>1. Tail(q) \in Text /\ Len(Tail(q)) = m /\ \A j \in 1..m : Tail(q)[j] = q[j + 1]
    BY <1>1, <1>2, HeadTailProperties DEF Text
  <2> QED
    BY <1>1, <1>3, <2>1, SeqEqual DEF Text
<1>5. IsSuffix(q, name) <=> m + 1 <= n /\ \A i \in 1..(m + 1) : q[i] = name[n - (m + 1) + i]
  <2>1. IsSuffix(q, name) <=> /\ Len(q) <= Len(name)
                             /\ \A i \in 1..Len(q) : q[i] = name[Len(name) - Len(q) + i]
    BY <1>2, SuffixByIndex
  <2> QED
    BY <1>2, <2>1, Zenon
<1>6. InZone(name, zone)
        <=> \/ name = zone
            \/ m < n /\ name[n - m] = "." /\ \A j \in 1..m : zone[j] = name[n - m + j]
  BY <1>1, ZoneByIndex DEF InZone
<1> HIDE DEF zone, m, n, q
<1>7. IsSuffix(q, name)
        <=> m < n /\ name[n - m] = "." /\ \A j \in 1..m : zone[j] = name[n - m + j]
  <2>1. ASSUME IsSuffix(q, name)
        PROVE  m < n /\ name[n - m] = "." /\ \A j \in 1..m : zone[j] = name[n - m + j]
    <3>1. m < n /\ n - (m + 1) + 1 = n - m
      BY <1>1, <1>5, <2>1
    <3>2. name[n - m] = "."
      BY <1>1, <1>3, <1>5, <2>1, <3>1
    <3>3. ASSUME NEW j \in 1..m PROVE zone[j] = name[n - m + j]
      <4>1. j + 1 \in 1..(m + 1) /\ n - (m + 1) + (j + 1) = n - m + j
        BY <1>1
      <4> QED
        BY <1>3, <1>5, <2>1, <4>1
    <3> QED
      BY <3>1, <3>2, <3>3
  <2>2. ASSUME m < n, name[n - m] = ".", \A j \in 1..m : zone[j] = name[n - m + j]
        PROVE  IsSuffix(q, name)
    <3>1. ASSUME NEW i \in 1..(m + 1) PROVE q[i] = name[n - (m + 1) + i]
      <4>1. CASE i = 1
        BY <1>1, <1>3, <2>2, <4>1
      <4>2. CASE i # 1
        <5>1. /\ i - 1 \in 1..m /\ (i - 1) + 1 = i
              /\ n - m + (i - 1) = n - (m + 1) + i
          BY <1>1, <4>2
        <5> QED
          BY <1>3, <2>2, <5>1
      <4> QED
        BY <4>1, <4>2
    <3> QED
      BY <1>1, <1>5, <2>2, <3>1
  <2> QED
    BY <2>1, <2>2
<1>8. p = name => IsSuffix(q, name)
  <2>1. ASSUME p = name PROVE m + 1 <= n /\ \A i \in 1..(m + 1) : q[i] = name[n - (m + 1) + i]
    <3>1. n = m + 2
      BY <1>1, <2>1 DEF n
    <3> QED
      BY <1>1, <1>2, <2>1, <3>1
  <2> QED
    BY <1>5, <2>1
<1> QED
  BY <1>4, <1>6, <1>7, <1>8 DEF zone, q

\* A pattern as the code has parsed it matches a name if and only if the
\* pattern as written covers it.
LEMMA PatternMeaning ==
  ASSUME NEW p \in Text, NEW name \in Text, p # <<>>
  PROVE  matchesAny(name, {Parsed(p)}) <=> Covers(p, name)
<1>1. CASE p = <<"*">>
  BY <1>1 DEF matchesAny, Parsed, Covers
<1>2. CASE p # <<"*">> /\ IsPrefix(<<"*", ".">>, p)
  <2>1. p = <<"*", ".">> \o SubSeq(p, 3, Len(p))
    BY <1>2, WildcardByIndex
  <2>2. Tail(p) # <<>>
    <3>1. Len(p) >= 2 /\ Len(p) \in Nat
      BY <1>2, WildcardByIndex, LenProperties DEF Text
    <3>2. p # <<>>
      BY <3>1
    <3>3. Tail(p) \in Seq(Char) /\ Len(Tail(p)) = Len(p) - 1
      BY <3>2, HeadTailProperties DEF Text
    <3> QED
      BY <3>1, <3>3
  <2>3. matchesAny(name, {Parsed(p)})
          <=> IsSuffix(Tail(p), name) \/ name = Tail(Tail(p))
    BY <1>2, <2>2 DEF matchesAny, Parsed
  <2>4. Covers(p, name) <=> p = name \/ InZone(name, SubSeq(p, 3, Len(p)))
    BY <1>2, <2>1 DEF Covers
  <2> QED
    BY <1>2, <2>3, <2>4, WildcardMeaning
<1>3. CASE p # <<"*">> /\ ~IsPrefix(<<"*", ".">>, p)
  <2>1. p # <<"*", ".">> \o SubSeq(p, 3, Len(p))
    BY <1>3, WildcardByIndex
  <2> QED
    BY <1>3, <2>1 DEF matchesAny, Parsed, Covers
<1> QED
  BY <1>1, <1>2, <1>3

\* The filter that newDomainFilter makes of two lists lets a name pass if and
\* only if the lists mean that it passes, for all names and patterns: blank
\* patterns, "*", "*.", a trailing dot and the root included.
THEOREM FilterMeaning ==
  ASSUME NEW lists \in [allow : SUBSET Text, deny : SUBSET Text], NEW domain \in Text
  PROVE  Allowed(newDomainFilter(lists), domain) <=> Passes(lists, domain)
<1> DEFINE name == Normalized(domain)
           Covered(list) == \E p \in list : Covers(Normalized(p), name)
<1>1. name \in Text
  BY NormalizedIsText
<1>2. CASE name = <<>>
  BY <1>2 DEF Allowed, Passes
<1>3. CASE name # <<>>
  <2>1. ASSUME NEW raw \in SUBSET Text
        PROVE  /\ parsePatterns(raw) = {} <=> \A p \in raw : Normalized(p) = <<>>
               /\ matchesAny(name, parsePatterns(raw)) <=> Covered(raw)
    <3>1. parsePatterns(raw) = {} <=> \A p \in raw : Normalized(p) = <<>>
      BY DEF parsePatterns
    <3>2. matchesAny(name, parsePatterns(raw))
            <=> \E p \in raw : /\ Normalized(p) # <<>>
                               /\ matchesAny(name, {Parsed(Normalized(p))})
      BY DEF matchesAny, parsePatterns
    <3>3. ASSUME NEW p \in raw, Normalized(p) # <<>>
          PROVE  matchesAny(name, {Parsed(Normalized(p))}) <=> Covers(Normalized(p), name)
      BY <1>1, <3>3, NormalizedIsText, PatternMeaning
    <3>4. ~Covers(<<>>, name)
      <4>1. <<>> \in Text
        BY EmptySeq DEF Text
      <4>2. ~IsPrefix(<<"*", ".">>, <<>>)
        <5>1. IsPrefix(<<"*", ".">>, <<>>) => Len(<<>>) >= 2
          BY <4>1, WildcardByIndex
        <5>2. Len(<<>>) = 0
          BY EmptySeq
        <5> QED
          BY <5>1, <5>2
      <4>3. <<>> # <<"*", ".">> \o SubSeq(<<>>, 3, Len(<<>>))
        BY <4>1, <4>2, WildcardByIndex
      <4> QED
        BY <1>3, <4>3 DEF Covers
    <3> QED
      BY <3>1, <3>2, <3>3, <3>4
  <2>2. lists.allow \in SUBSET Text /\ lists.deny \in SUBSET Text
    OBVIOUS
  <2> DEFINE f == newDomainFilter(lists)
  <2>3. /\ f.allow = parsePatterns(lists.allow) /\ f.deny = parsePatterns(lists.deny)
        /\ f = Nil <=> f.allow = {} /\ f.deny = {}
    BY DEF newDomainFilter, Nil
  <2>4. ~matchesAny(name, {})
    BY DEF matchesAny
  <2>5. Allowed(f, domain) <=> /\ f.allow = {} \/ matchesAny(name, f.allow)
                              /\ ~matchesAny(name, f.deny)
    BY <1>3, <2>3, <2>4 DEF Allowed
  <2>6. Passes(lists, domain)
          <=> /\ ~Covered(lists.deny)
              /\ (\A p \in lists.allow : Normalized(p) = <<>>) \/ Covered(lists.allow)
    BY <1>3 DEF Passes
  <2> HIDE DEF f
  <2> QED
    BY <2>1, <2>2, <2>3, <2>5, <2>6 DEF f
<1> QED
  BY <1>2, <1>3
-----------------------------------------------------------------------------
\* An entry is stored with the time its query came in, not later than the
\* response was fetched, and expires when its lifetime is over.
EntriesDated ==
  \A k \in DOMAIN cache :
    /\ cache[k].storedAt <= cache[k].fetched
    /\ cache[k].expiresAt = cache[k].storedAt + Lifetime(cache[k].ttl)

CacheInv ==
  /\ DOMAIN cache \subseteq Key /\ cache \in [DOMAIN cache -> Entry]
  /\ IsFiniteSet(DOMAIN cache) /\ Cardinality(DOMAIN cache) <= MaxEntries
  /\ EntriesDated

\* A handler has a query, took its time before its response arrived, and
\* carries a response worth caching only to the cache.
HandlersInStep ==
  \A h \in Handler :
    /\ start[h] <= clock
    /\ pc[h] # "idle" => key[h] \in Key
    /\ response[h].cacheable => /\ pc[h] \in {"store", "storeFallback"}
                               /\ response[h].ttl \in RecordTTL
                               /\ start[h] <= response[h].fetched

\* The verdict that is recorded for a query is what the rules in force mean,
\* and none is left when the filter has let the query pass.
VerdictsCurrent ==
  \A h \in Handler :
    /\ pc[h] # "filter" => verdict[h] = "none"
    /\ verdict[h] # "none" => verdict[h] = Meant(rules, key[h])

IInv ==
  /\ TypeOK /\ CacheInv /\ HandlersInStep /\ VerdictsCurrent
  /\ TTLWithinSecond /\ AgeBounded /\ RulesObeyed

\* the part of TypeOK about the handlers
HandlerTypes ==
  /\ pc \in [Handler -> PC]
  /\ key \in [Handler -> Key \cup {NoKey}]
  /\ start \in [Handler -> Nat]
  /\ response \in [Handler -> {NoResponse} \cup Response]
  /\ expired \in [Handler -> BOOLEAN]
  /\ verdict \in [Handler -> Verdict]

\* A response that has not arrived is one that may not be cached.
LEMMA NoResponseIsResponse == NoResponse \in Response /\ NoResponse.cacheable = FALSE
BY DEF NoResponse, Response

\* A product of numbers is one.
LEMMA ProductIsNumber == ASSUME NEW m \in Nat, NEW n \in Nat PROVE m * n \in Nat
OBVIOUS

\* Every response has a lifetime.
LEMMA LifetimeIsNumber == ASSUME NEW ttl \in Nat PROVE Lifetime(ttl) \in Nat
<1>1. DefaultTTL \in Nat /\ Second \in Nat
  BY QueryAssumption
<1>2. ttl * Second \in Nat
  BY <1>1, ProductIsNumber
<1> QED
  BY <1>1, <1>2 DEF Lifetime

\* The numbers of an entry, and of the response it holds.
LEMMA EntryNumbers ==
  ASSUME NEW e \in Entry
  PROVE  /\ e.storedAt \in Nat /\ e.fetched \in Nat /\ e.ttl \in Nat
         /\ Lifetime(e.ttl) \in Nat
         /\ Data(e) \in Response /\ Data(e).fetched = e.fetched /\ Data(e).ttl = e.ttl
<1>1. /\ e.storedAt \in Nat /\ e.fetched \in Nat /\ e.ttl \in RecordTTL
      /\ e.cacheable \in BOOLEAN
  BY DEF Entry
<1>2. e.ttl \in Nat
  BY <1>1, QueryAssumption
<1>3. Lifetime(e.ttl) \in Nat
  BY <1>2, LifetimeIsNumber
<1>4. Data(e) \in Response /\ Data(e).fetched = e.fetched /\ Data(e).ttl = e.ttl
  BY <1>1 DEF Data, Response
<1> QED
  BY <1>1, <1>2, <1>3, <1>4

\* Whole seconds since a point of time fall short of that time by less than one.
LEMMA WholeSeconds ==
  ASSUME NEW since \in Nat
  PROVE  /\ since \div Second \in Nat
         /\ (since \div Second) * Second <= since
         /\ since < (since \div Second) * Second + Second
BY QueryAssumption

\* What cloneCachedResponse leaves of a TTL, counted from the time of the query,
\* ends less than a second after the TTL of the entry.
LEMMA RemainingBound ==
  ASSUME NEW e \in Entry, NEW now \in Nat, NEW ttl \in Remaining(e, now),
         e.storedAt <= e.fetched
  PROVE  /\ ttl \in Nat
         /\ ttl > 0 => now + ttl * Second < e.fetched + e.ttl * Second + Second
<1> DEFINE since == now - e.storedAt
           elapsed == IF since < 0 THEN 0 ELSE since \div Second
<1>1. e.storedAt \in Nat /\ e.fetched \in Nat /\ e.ttl \in Nat
  BY EntryNumbers
<1>2. Second \in Nat /\ Second > 0
  BY QueryAssumption
<1>3. since \in Int
  BY <1>1
<1>4. ttl = 0 \/ (ttl = e.ttl - elapsed /\ elapsed < e.ttl)
  <2>1. ttl \in {IF elapsed >= e.ttl THEN 0 ELSE e.ttl - elapsed} \cup {0}
    BY DEF Remaining
  <2>2. elapsed \in Nat
    <3> HIDE DEF since
    <3> QED
      BY <1>3, WholeSeconds
  <2> HIDE DEF since, elapsed
  <2> QED
    BY <1>1, <2>1, <2>2
<1> HIDE DEF since
<1>5. elapsed \in Nat /\ elapsed * Second \in Int /\ since < elapsed * Second + Second
  <2>1. CASE since < 0
    BY <1>2, <1>3, <2>1
  <2>2. CASE ~(since < 0)
    <3>1. since \in Nat /\ elapsed = since \div Second
      BY <1>3, <2>2
    <3> QED
      BY <1>2, <3>1, WholeSeconds, ProductIsNumber
  <2> QED
    BY <2>1, <2>2
<1> HIDE DEF elapsed
<1>6. CASE ttl = 0
  BY <1>6
<1>7. CASE ttl = e.ttl - elapsed /\ elapsed < e.ttl
  <2>1. ttl \in Nat
    BY <1>1, <1>5, <1>7
  <2>2. ttl * Second = e.ttl * Second - elapsed * Second
    BY <1>1, <1>2, <1>5, <1>7
  <2>3. ttl * Second \in Nat /\ e.ttl * Second \in Nat /\ elapsed * Second \in Nat
    BY <1>1, <1>2, <1>5, <2>1, ProductIsNumber
  <2>4. now < e.storedAt + elapsed * Second + Second
    BY <1>1, <1>2, <1>5, <2>3 DEF since
  <2>5. \A a, b, c \in Nat : a = b - c /\ now < e.storedAt + c + Second
                            => now + a < e.fetched + b + Second
    BY <1>1, <1>2
  <2> QED
    BY <2>1, <2>2, <2>3, <2>4, <2>5
<1> QED
  BY <1>4, <1>6, <1>7

\* Store leaves the cache within its limit, its entries dated.
LEMMA StoredKeepsCache ==
  ASSUME CacheInv, NEW k \in Key, NEW r \in Response, NEW now \in Nat,
         r.cacheable => r.ttl \in RecordTTL /\ now <= r.fetched,
         Stored(k, r, now)
  PROVE  CacheInv'
<1> USE QueryAssumption
<1>1. CASE ~IsCacheableResponse(r)
  BY <1>1 DEF Stored, CacheInv, EntriesDated
<1>2. CASE IsCacheableResponse(r)
  <2> DEFINE e == [cacheable |-> r.cacheable, ttl |-> r.ttl, fetched |-> r.fetched,
                   storedAt |-> now, expiresAt |-> now + Lifetime(r.ttl)]
  <2>1. PICK K \in SUBSET Kept(now) :
          /\ IF Cardinality(Kept(now)) >= MaxEntries
             THEN \E old \in Kept(now) : K = Kept(now) \ {old}
             ELSE K = Kept(now)
          /\ cache' = [j \in K \cup {k} |-> IF j = k THEN e ELSE cache[j]]
    BY <1>2 DEF Stored
  <2>2. Kept(now) \subseteq DOMAIN cache
    BY DEF Kept
  <2>3. /\ IsFiniteSet(Kept(now))
        /\ Cardinality(Kept(now)) \in Nat /\ Cardinality(Kept(now)) <= MaxEntries
    <3>1. /\ IsFiniteSet(Kept(now))
          /\ Cardinality(Kept(now)) <= Cardinality(DOMAIN cache)
      BY <2>2, FS_Subset DEF CacheInv
    <3>2. Cardinality(Kept(now)) \in Nat /\ Cardinality(DOMAIN cache) \in Nat
      BY <3>1, FS_CardinalityType DEF CacheInv
    <3> QED
      BY <3>1, <3>2 DEF CacheInv
  <2>4. IsFiniteSet(K) /\ Cardinality(K) \in Nat /\ Cardinality(K) + 1 <= MaxEntries
    <3>1. CASE Cardinality(Kept(now)) >= MaxEntries
      <4>1. PICK old \in Kept(now) : K = Kept(now) \ {old}
        BY <2>1, <3>1
      <4>2. IsFiniteSet(K) /\ Cardinality(K) = Cardinality(Kept(now)) - 1
        BY <2>3, <4>1, FS_RemoveElement
      <4>3. Cardinality(K) \in Nat
        BY <4>2, FS_CardinalityType
      <4> QED
        BY <2>3, <4>2, <4>3
    <3>2. CASE ~(Cardinality(Kept(now)) >= MaxEntries)
      BY <2>1, <2>3, <3>2
    <3> QED
      BY <3>1, <3>2
  <2>5. IsFiniteSet(K \cup {k}) /\ Cardinality(K \cup {k}) <= MaxEntries
    <3>1. /\ IsFiniteSet(K \cup {k})
          /\ Cardinality(K \cup {k}) = IF k \in K THEN Cardinality(K) ELSE Cardinality(K) + 1
      BY <2>4, FS_AddElement
    <3> QED
      BY <2>4, <3>1
  <2>6. e \in Entry /\ e.storedAt <= e.fetched /\ e.expiresAt = e.storedAt + Lifetime(e.ttl)
    <3>1. r.ttl \in RecordTTL /\ now <= r.fetched
      BY <1>2 DEF IsCacheableResponse
    <3>2. r.cacheable \in BOOLEAN /\ r.fetched \in Nat
      BY DEF Response
    <3>3. now + Lifetime(r.ttl) \in Nat
      <4>1. r.ttl \in Nat
        BY <3>1
      <4>2. Lifetime(r.ttl) \in Nat
        BY <4>1, LifetimeIsNumber
      <4> QED
        BY <4>2
    <3>4. e \in Entry
      BY <3>1, <3>2, <3>3 DEF Entry
    <3> QED
      BY <3>1, <3>4
  <2> HIDE DEF e
  <2>7. DOMAIN cache' = K \cup {k} /\ K \subseteq DOMAIN cache
    BY <2>1, <2>2
  <2>8. ASSUME NEW j \in K \cup {k}
        PROVE  /\ cache'[j] \in Entry /\ cache'[j].storedAt <= cache'[j].fetched
               /\ cache'[j].expiresAt = cache'[j].storedAt + Lifetime(cache'[j].ttl)
    BY <2>1, <2>6, <2>7 DEF CacheInv, EntriesDated
  <2>9. cache' \in [DOMAIN cache' -> Entry] /\ DOMAIN cache' \subseteq Key
    BY <2>1, <2>7, <2>8 DEF CacheInv
  <2> QED
    BY <2>5, <2>7, <2>8, <2>9 DEF CacheInv, EntriesDated
<1> QED
  BY <1>1, <1>2

\* A handler that has answered is as before its query.
LEMMA AnswerResets ==
  ASSUME HandlerTypes, HandlersInStep, VerdictsCurrent, clock \in Nat,
         NEW h \in Handler, NEW by \in By, NEW ttl \in Nat, NEW data \in Response,
         NEW helpers \in SUBSET Upstream,
         Answer(h, by, ttl, data, helpers), UNCHANGED <<clock, rules>>
  PROVE  /\ HandlerTypes' /\ HandlersInStep' /\ VerdictsCurrent'
         /\ reply' \in Reply
         /\ reply'.by = by /\ reply'.ttl = ttl /\ reply'.data = data
         /\ reply'.start = start[h] /\ reply'.verdict = verdict[h]
<1>1. HandlerTypes'
  BY DEF Answer, HandlerTypes, PC, Verdict
<1>2. HandlersInStep'
  BY NoResponseIsResponse DEF Answer, HandlerTypes, HandlersInStep
<1>3. VerdictsCurrent'
  BY DEF Answer, HandlerTypes, VerdictsCurrent, Meant
<1>4. reply' \in Reply
  BY DEF Answer, HandlerTypes, Reply
<1> QED
  BY <1>1, <1>2, <1>3, <1>4 DEF Answer

\* the part of TypeOK about the shared state of the proxy, without the cache
ProxyTypes ==
  /\ clock \in Nat
  /\ rules \in Rules /\ filter = newDomainFilter(rules) /\ fallback \subseteq Upstream

\* what is promised of an answer
AnswersKept == reply \in Reply /\ TTLWithinSecond /\ AgeBounded /\ RulesObeyed

\* the parts together ...
LEMMA Parts ==
  IInv <=> /\ ProxyTypes /\ CacheInv /\ HandlerTypes /\ HandlersInStep /\ VerdictsCurrent
           /\ AnswersKept
BY DEF IInv, TypeOK, ProxyTypes, CacheInv, HandlerTypes, AnswersKept

\* ... and after a step
LEMMA PartsNext ==
  IInv' <=> /\ ProxyTypes' /\ CacheInv' /\ HandlerTypes' /\ HandlersInStep'
            /\ VerdictsCurrent'
            /\ AnswersKept'
BY Parts, PTL

\* A step that answers nobody breaks no promise about answers.
LEMMA NoReplyKeeps ==
  ASSUME reply' = NoReply
  PROVE  AnswersKept'
<1>1. reply' \in Reply
  BY NoResponseIsResponse DEF NoReply, Reply, By, Verdict
<1>2. reply'.by = "none" /\ reply'.verdict = "none"
  BY DEF NoReply
<1> QED
  BY <1>1, <1>2 DEF AnswersKept, TTLWithinSecond, AgeBounded, FromCache, RulesObeyed

\* Nor does an answer that is not from the cache, to a query without verdict.
LEMMA NewReplyKeeps ==
  ASSUME reply' \in Reply, reply'.by \notin {"cache", "stale"}, reply'.verdict = "none"
  PROVE  AnswersKept'
BY DEF AnswersKept, TTLWithinSecond, AgeBounded, FromCache, RulesObeyed

\* The initial state satisfies the invariant.
LEMMA InitIInv == Init => IInv
<1> SUFFICES ASSUME Init PROVE IInv
  OBVIOUS
<1>1. ProxyTypes
  BY DEF Init, ProxyTypes
<1>2. CacheInv
  <2>1. DOMAIN cache = {} /\ cache \in [{} -> Entry]
    BY DEF Init
  <2> QED
    BY <2>1, FS_EmptySet, QueryAssumption DEF CacheInv, EntriesDated
<1>3. HandlerTypes /\ HandlersInStep /\ VerdictsCurrent
  BY NoResponseIsResponse DEF Init, HandlerTypes, HandlersInStep, VerdictsCurrent, PC, Verdict
<1>4. AnswersKept
  <2>1. reply \in Reply
    BY NoResponseIsResponse DEF Init, NoReply, Reply, By, Verdict
  <2>2. reply.by = "none" /\ reply.verdict = "none"
    BY DEF Init, NoReply
  <2> QED
    BY <2>1, <2>2 DEF AnswersKept, TTLWithinSecond, AgeBounded, FromCache, RulesObeyed
<1> QED
  BY <1>1, <1>2, <1>3, <1>4, Parts

\* Every step keeps the invariant: a query arrives ...
LEMMA ReceiveKeeps ==
  ASSUME IInv, NEW h \in Handler, NEW k \in Key, Receive(h, k)
  PROVE  IInv'
<1>0. /\ ProxyTypes /\ CacheInv /\ HandlerTypes /\ HandlersInStep /\ VerdictsCurrent
  BY Parts
<1>1. ProxyTypes' /\ CacheInv'
  BY <1>0 DEF Receive, proxyVars, ProxyTypes, CacheInv, EntriesDated
<1>2. HandlerTypes'
  BY <1>0 DEF Receive, Goto, HandlerTypes, ProxyTypes, PC, Verdict, Meant
<1>3. HandlersInStep'
  BY <1>0 DEF Receive, Goto, HandlerTypes, ProxyTypes, HandlersInStep
<1>4. VerdictsCurrent'
  BY <1>0 DEF Receive, Goto, proxyVars, HandlerTypes, VerdictsCurrent, Meant
<1>5. AnswersKept'
  BY NoReplyKeeps DEF Receive, Goto
<1> QED
  BY <1>1, <1>2, <1>3, <1>4, <1>5, PartsNext

\* ... the limiter refuses it ...
LEMMA LimitedKeeps ==
  ASSUME IInv, NEW h \in Handler, Limited(h)
  PROVE  IInv'
<1>0. ProxyTypes /\ CacheInv /\ HandlerTypes /\ HandlersInStep /\ VerdictsCurrent
  BY Parts
<1>1. ProxyTypes' /\ CacheInv'
  BY <1>0 DEF Limited, proxyVars, ProxyTypes, CacheInv, EntriesDated
<1>2. /\ HandlerTypes' /\ HandlersInStep' /\ VerdictsCurrent'
      /\ reply' \in Reply /\ reply'.by = "limiter" /\ reply'.verdict = verdict[h]
  BY <1>0, AnswerResets, NoResponseIsResponse DEF Limited, proxyVars, ProxyTypes, By
<1>3. verdict[h] = "none"
  BY <1>0 DEF Limited, VerdictsCurrent
<1> QED
  BY <1>1, <1>2, <1>3, NewReplyKeeps, PartsNext

\* ... the filter decides, as the rules in force mean it ...
LEMMA FilterKeeps ==
  ASSUME IInv, NEW h \in Handler, Filter(h)
  PROVE  IInv'
<1>0. ProxyTypes /\ CacheInv /\ HandlerTypes /\ HandlersInStep /\ VerdictsCurrent
  BY Parts
<1>1. ProxyTypes' /\ CacheInv'
  BY <1>0 DEF Filter, proxyVars, ProxyTypes, CacheInv, EntriesDated
<1>2. Allowed(filter, Name[key[h]]) <=> Passes(rules, Name[key[h]])
  <2>1. key[h] \in Key /\ rules \in Rules
    BY <1>0 DEF Filter, HandlersInStep, ProxyTypes
  <2>2. Name[key[h]] \in Text /\ rules \in [allow : SUBSET Text, deny : SUBSET Text]
    BY <2>1, QueryAssumption DEF Text
  <2> QED
    BY <1>0, <2>2, FilterMeaning DEF ProxyTypes
<1>3. CASE Allowed(filter, Name[key[h]])
  <2>1. verdict[h] # "denied"
    BY <1>0, <1>2, <1>3 DEF VerdictsCurrent, Meant
  <2>2. verdict' = [verdict EXCEPT ![h] = "none"]
    BY <1>0, <1>3, <2>1 DEF Filter, HandlerTypes, Verdict
  <2>3. HandlerTypes'
    BY <1>0, <1>3, <2>2 DEF Filter, Goto, HandlerTypes, PC, Verdict
  <2>4. HandlersInStep'
    BY <1>0, <1>3 DEF Filter, Goto, HandlerTypes, HandlersInStep
  <2>5. VerdictsCurrent'
    BY <1>0, <1>3, <2>2 DEF Filter, Goto, proxyVars, HandlerTypes, VerdictsCurrent, Meant
  <2>6. AnswersKept'
    BY <1>3, NoReplyKeeps DEF Filter, Goto
  <2> QED
    BY <1>1, <2>3, <2>4, <2>5, <2>6, PartsNext
<1>4. CASE ~Allowed(filter, Name[key[h]])
  <2>1. /\ HandlerTypes' /\ HandlersInStep' /\ VerdictsCurrent'
        /\ reply' \in Reply /\ reply'.by = "filter" /\ reply'.verdict = verdict[h]
    BY <1>0, <1>4, AnswerResets, NoResponseIsResponse DEF Filter, proxyVars, ProxyTypes, By
  <2>2. verdict[h] # "passes"
    BY <1>0, <1>2, <1>4 DEF VerdictsCurrent, Meant
  <2>3. AnswersKept'
    BY <2>1, <2>2 DEF AnswersKept, TTLWithinSecond, AgeBounded, FromCache, RulesObeyed
  <2> QED
    BY <1>1, <2>1, <2>3, PartsNext
<1> QED
  BY <1>3, <1>4

\* ... a handler that has been let pass goes on to another step without data ...
LEMMA GotoKeeps ==
  ASSUME IInv, NEW h \in Handler, NEW p \in {"exchange", "stale", "fallback"},
         pc[h] \in {"get", "exchange", "stale"}, Goto(h, p),
         expired' \in [Handler -> BOOLEAN],
         UNCHANGED <<clock, proxyVars, key, start, response, verdict>>
  PROVE  IInv'
<1>0. ProxyTypes /\ CacheInv /\ HandlerTypes /\ HandlersInStep /\ VerdictsCurrent
  BY Parts
<1>1. ProxyTypes' /\ CacheInv'
  BY <1>0 DEF proxyVars, ProxyTypes, CacheInv, EntriesDated
<1>2. HandlerTypes'
  BY <1>0 DEF Goto, HandlerTypes, PC
<1>3. HandlersInStep' /\ VerdictsCurrent'
  BY <1>0 DEF Goto, proxyVars, HandlerTypes, HandlersInStep, VerdictsCurrent, Meant
<1>4. AnswersKept'
  BY NoReplyKeeps DEF Goto
<1> QED
  BY <1>1, <1>2, <1>3, <1>4, PartsNext

\* ... or with the response that has arrived ...
LEMMA ArrivalKeeps ==
  ASSUME IInv, NEW h \in Handler, NEW p \in {"store", "storeFallback"},
         pc[h] \in {"exchange", "fallback"}, Goto(h, p),
         NEW r \in Arriving, response' = [response EXCEPT ![h] = r],
         UNCHANGED <<clock, proxyVars, key, start, expired, verdict>>
  PROVE  IInv'
<1>0. ProxyTypes /\ CacheInv /\ HandlerTypes /\ HandlersInStep /\ VerdictsCurrent
  BY Parts
<1>1. ProxyTypes' /\ CacheInv'
  BY <1>0 DEF proxyVars, ProxyTypes, CacheInv, EntriesDated
<1>2. r \in Response /\ (r.cacheable => r.ttl \in RecordTTL /\ r.fetched = clock)
  <2>1. CASE r = NoResponse
    BY <2>1, NoResponseIsResponse
  <2>2. CASE r # NoResponse
    <3>1. PICK t \in RecordTTL : r = [cacheable |-> TRUE, ttl |-> t, fetched |-> clock]
      BY <2>2 DEF Arriving
    <3>2. TRUE \in BOOLEAN /\ t \in RecordTTL \cup {0} /\ clock \in Nat
      BY <1>0 DEF ProxyTypes
    <3> QED
      BY <3>1, <3>2 DEF Response
  <2> QED
    BY <2>1, <2>2
<1>3. HandlerTypes'
  BY <1>0, <1>2 DEF Goto, HandlerTypes, PC
<1>4. HandlersInStep'
  BY <1>0, <1>2 DEF Goto, HandlerTypes, HandlersInStep
<1>5. VerdictsCurrent'
  BY <1>0 DEF Goto, proxyVars, HandlerTypes, VerdictsCurrent, Meant
<1>6. AnswersKept'
  BY NoReplyKeeps DEF Goto
<1> QED
  BY <1>1, <1>3, <1>4, <1>5, <1>6, PartsNext

\* ... gets a fresh answer from the cache, from Get or from GetStale ...
LEMMA FreshKeeps ==
  ASSUME IInv, NEW h \in Handler, pc[h] \in {"get", "stale"},
         key[h] \in DOMAIN cache, cache[key[h]].expiresAt > start[h],
         NEW ttl \in Remaining(cache[key[h]], start[h]),
         Answer(h, "cache", ttl, Data(cache[key[h]]), {}),
         UNCHANGED <<clock, proxyVars>>
  PROVE  IInv'
<1>0. ProxyTypes /\ CacheInv /\ HandlerTypes /\ HandlersInStep /\ VerdictsCurrent
  BY Parts
<1> DEFINE e == cache[key[h]]
           now == start[h]
<1>1. ttl \in Remaining(e, now) /\ Answer(h, "cache", ttl, Data(e), {})
  OBVIOUS
<1>2. verdict[h] = "none" /\ now \in Nat
  BY <1>0 DEF VerdictsCurrent, HandlerTypes
<1>3. /\ e \in Entry /\ e.storedAt <= e.fetched /\ e.expiresAt > now
      /\ e.expiresAt = e.storedAt + Lifetime(e.ttl)
  BY <1>0 DEF CacheInv, EntriesDated
<1> HIDE DEF e, now
<1>4. e.storedAt \in Nat /\ e.fetched \in Nat /\ e.ttl \in Nat /\ Lifetime(e.ttl) \in Nat
  BY <1>3, EntryNumbers
<1>5. /\ ttl \in Nat
      /\ ttl > 0 => now + ttl * Second < e.fetched + e.ttl * Second + Second
  BY <1>1, <1>2, <1>3, RemainingBound
<1>6. Data(e) \in Response /\ Data(e).fetched = e.fetched /\ Data(e).ttl = e.ttl
  BY <1>3, EntryNumbers
<1>7. /\ HandlerTypes' /\ HandlersInStep' /\ VerdictsCurrent' /\ reply' \in Reply
      /\ reply'.by = "cache" /\ reply'.ttl = ttl /\ reply'.data = Data(e)
      /\ reply'.start = now /\ reply'.verdict = "none"
  BY <1>0, <1>1, <1>2, <1>5, <1>6, AnswerResets DEF ProxyTypes, proxyVars, By, now
<1>8. AnswersKept'
  <2>1. TTLWithinSecond'
    BY <1>5, <1>6, <1>7 DEF TTLWithinSecond
  <2>2. now - e.fetched < Lifetime(e.ttl)
    BY <1>2, <1>3, <1>4
  <2>3. AgeBounded'
    BY <1>6, <1>7, <2>2 DEF AgeBounded
  <2> QED
    BY <1>7, <2>1, <2>3 DEF AnswersKept, RulesObeyed
<1>9. ProxyTypes' /\ CacheInv'
  BY <1>0 DEF proxyVars, ProxyTypes, CacheInv, EntriesDated
<1> QED
  BY <1>7, <1>8, <1>9, PartsNext

\* ... when Get finds one ...
LEMMA GetKeeps ==
  ASSUME IInv, NEW h \in Handler, Get(h)
  PROVE  IInv'
<1>0. HandlerTypes
  BY Parts
<1>1. CASE ~(key[h] \in DOMAIN cache /\ cache[key[h]].expiresAt > start[h])
  <2>1. /\ Goto(h, "exchange") /\ pc[h] = "get"
        /\ UNCHANGED <<clock, proxyVars, key, start, response, verdict, expired>>
    BY <1>1 DEF Get
  <2> QED
    BY <1>0, <2>1, GotoKeeps DEF HandlerTypes
<1>2. CASE key[h] \in DOMAIN cache /\ cache[key[h]].expiresAt > start[h]
  BY <1>2, FreshKeeps DEF Get
<1> QED
  BY <1>1, <1>2

\* ... or one from what the cache has kept beyond its lifetime ...
LEMMA GetStaleKeeps ==
  ASSUME IInv, NEW h \in Handler, GetStale(h)
  PROVE  IInv'
<1>0. ProxyTypes /\ CacheInv /\ HandlerTypes /\ HandlersInStep /\ VerdictsCurrent
  BY Parts
<1>1. CASE ~(key[h] \in DOMAIN cache /\ StillUsable(cache[key[h]], start[h]))
  <2>1. /\ Goto(h, "fallback") /\ pc[h] = "stale"
        /\ UNCHANGED <<clock, proxyVars, key, start, response, verdict, expired>>
    BY <1>1 DEF GetStale
  <2> QED
    BY <1>0, <2>1, GotoKeeps DEF HandlerTypes
<1>2. CASE /\ key[h] \in DOMAIN cache /\ StillUsable(cache[key[h]], start[h])
           /\ cache[key[h]].expiresAt > start[h]
  BY <1>2, FreshKeeps DEF GetStale
<1>3. CASE /\ key[h] \in DOMAIN cache /\ StillUsable(cache[key[h]], start[h])
           /\ ~(cache[key[h]].expiresAt > start[h])
  <2> DEFINE e == cache[key[h]]
             now == start[h]
  <2>1. Answer(h, "stale", 1, Data(e), {})
    BY <1>3 DEF GetStale
  <2>2. verdict[h] = "none" /\ UNCHANGED <<clock, proxyVars>> /\ now \in Nat
    BY <1>0 DEF GetStale, VerdictsCurrent, HandlerTypes
  <2>3. /\ e \in Entry /\ e.storedAt <= e.fetched /\ now - e.expiresAt <= StaleTTL
        /\ e.expiresAt = e.storedAt + Lifetime(e.ttl)
    BY <1>0, <1>3 DEF CacheInv, EntriesDated, StillUsable
  <2> HIDE DEF e, now
  <2>4. e.storedAt \in Nat /\ e.fetched \in Nat /\ e.ttl \in Nat /\ Lifetime(e.ttl) \in Nat
    BY <2>3, EntryNumbers
  <2>5. Data(e) \in Response /\ Data(e).fetched = e.fetched /\ Data(e).ttl = e.ttl
    BY <2>3, EntryNumbers
  <2>6. /\ HandlerTypes' /\ HandlersInStep' /\ VerdictsCurrent' /\ reply' \in Reply
        /\ reply'.by = "stale" /\ reply'.data = Data(e)
        /\ reply'.start = now /\ reply'.verdict = "none"
    BY <1>0, <2>1, <2>2, <2>5, AnswerResets DEF ProxyTypes, proxyVars, By, now
  <2>7. AnswersKept'
    <3>1. StaleTTL \in Nat
      BY QueryAssumption
    <3>2. now - e.fetched <= Lifetime(e.ttl) + StaleTTL
      BY <2>2, <2>3, <2>4, <3>1
    <3>3. AgeBounded'
      BY <2>5, <2>6, <3>2 DEF AgeBounded
    <3> QED
      BY <2>6, <3>3 DEF AnswersKept, TTLWithinSecond, RulesObeyed
  <2>8. ProxyTypes' /\ CacheInv'
    BY <1>0, <2>2 DEF proxyVars, ProxyTypes, CacheInv, EntriesDated
  <2> QED
    BY <2>6, <2>7, <2>8, PartsNext
<1> QED
  BY <1>1, <1>2, <1>3

\* ... gets the response it has stored, or a failure ...
LEMMA StoreKeeps ==
  ASSUME IInv, NEW h \in Handler, Store(h) \/ FallbackFails(h)
  PROVE  IInv'
<1>0. ProxyTypes /\ CacheInv /\ HandlerTypes /\ HandlersInStep /\ VerdictsCurrent
  BY Parts
<1>1. UNCHANGED <<clock, filter, rules, fallback>> /\ pc[h] \notin {"idle", "filter"}
  BY DEF Store, FallbackFails
<1>2. ProxyTypes'
  BY <1>0, <1>1 DEF ProxyTypes
<1>3. key[h] \in Key /\ start[h] \in Nat /\ verdict[h] = "none"
  BY <1>0, <1>1 DEF HandlerTypes, HandlersInStep, VerdictsCurrent
<1>4. /\ response[h] \in Response
      /\ response[h].cacheable => /\ response[h].ttl \in RecordTTL
                                 /\ start[h] <= response[h].fetched
  BY <1>0, NoResponseIsResponse DEF HandlerTypes, HandlersInStep
<1>5. CacheInv'
  <2>1. CASE Store(h)
    BY <1>0, <1>3, <1>4, <2>1, StoredKeepsCache DEF Store
  <2>2. CASE FallbackFails(h)
    BY <1>0, <1>3, <2>2, NoResponseIsResponse, StoredKeepsCache DEF FallbackFails
  <2> QED
    BY <2>1, <2>2
<1>6. /\ HandlerTypes' /\ HandlersInStep' /\ VerdictsCurrent'
      /\ reply' \in Reply /\ reply'.by \notin {"cache", "stale"} /\ reply'.verdict = "none"
  <2>1. PICK by \in {"engine", "fallback", "failure"}, ttl \in Nat, up \in SUBSET Upstream :
          Answer(h, by, ttl, NoResponse, up)
    <3>1. CASE Store(h)
      <4>1. response[h].ttl \in RecordTTL \cup {0}
        BY <1>4 DEF Response
      <4>2. RecordTTL \cup {0} \subseteq Nat
        BY QueryAssumption
      <4>3. response[h].ttl \in Nat
        BY <4>1, <4>2, Zenon
      <4> QED
        BY <3>1, <4>3 DEF Store
    <3>2. CASE FallbackFails(h)
      <4>1. \A up \in SUBSET fallback : up \in SUBSET Upstream
        BY <1>0 DEF ProxyTypes
      <4> QED
        BY <3>2, <4>1 DEF FallbackFails
    <3> QED
      BY <3>1, <3>2
  <2> QED
    BY <1>0, <1>1, <1>3, <2>1, AnswerResets, NoResponseIsResponse DEF ProxyTypes, By
<1> QED
  BY <1>2, <1>5, <1>6, NewReplyKeeps, PartsNext

\* ... while reloads replace filter and fallback list and time passes.
LEMMA EnvironmentKeeps ==
  ASSUME IInv,
         \/ \E lists \in Rules : UpdateFilter(lists)
         \/ \E U \in SUBSET Upstream : UpdateFallbackUpstreams(U)
         \/ Tick
  PROVE  IInv'
<1>0. ProxyTypes /\ CacheInv /\ HandlerTypes /\ HandlersInStep /\ VerdictsCurrent
  BY Parts
<1>1. UNCHANGED <<cache, pc, key, start, response, expired>> /\ reply' = NoReply
  BY DEF UpdateFilter, UpdateFallbackUpstreams, Tick, proxyVars, localVars
<1>2. CacheInv'
  BY <1>0, <1>1 DEF CacheInv, EntriesDated
<1>3. ProxyTypes' /\ clock' >= clock
  BY <1>0 DEF UpdateFilter, UpdateFallbackUpstreams, Tick, proxyVars, ProxyTypes
<1>4. HandlersInStep'
  BY <1>0, <1>1, <1>3 DEF HandlersInStep, HandlerTypes, ProxyTypes
<1>5. HandlerTypes' /\ VerdictsCurrent'
  <2>1. CASE \E lists \in Rules : UpdateFilter(lists)
    BY <1>0, <1>1, <2>1 DEF UpdateFilter, HandlerTypes, VerdictsCurrent, Verdict
  <2>2. CASE UNCHANGED <<rules, verdict>>
    BY <1>0, <1>1, <2>2 DEF HandlerTypes, VerdictsCurrent, Meant
  <2> QED
    BY <2>1, <2>2 DEF UpdateFallbackUpstreams, Tick, proxyVars, localVars
<1> QED
  BY <1>1, <1>2, <1>3, <1>4, <1>5, NoReplyKeeps, PartsNext

\* So every step does.
LEMMA NextIInv == IInv /\ [Next]_vars => IInv'
<1> SUFFICES ASSUME IInv, [Next]_vars PROVE IInv'
  OBVIOUS
<1>0. HandlerTypes
  BY Parts
<1>1. ASSUME NEW h \in Handler, ExchangeAnswers(h) PROVE IInv'
  BY <1>1, ArrivalKeeps DEF ExchangeAnswers
<1>2. ASSUME NEW h \in Handler, FallbackAnswers(h) PROVE IInv'
  BY <1>2, ArrivalKeeps DEF FallbackAnswers
<1>3. ASSUME NEW h \in Handler, ExchangeFails(h) PROVE IInv'
  <2>1. expired' \in [Handler -> BOOLEAN]
    BY <1>0, <1>3 DEF ExchangeFails, HandlerTypes
  <2> QED
    BY <1>3, <2>1, GotoKeeps DEF ExchangeFails
<1>4. ASSUME NEW h \in Handler, Handle(h) PROVE IInv'
  BY <1>1, <1>2, <1>3, <1>4, LimitedKeeps, FilterKeeps, GetKeeps, GetStaleKeeps, StoreKeeps
     DEF Handle
<1>5. CASE \E h \in Handler, k \in Key : Receive(h, k)
  BY <1>5, ReceiveKeeps
<1>6. CASE \/ \E lists \in Rules \ {rules} : UpdateFilter(lists)
           \/ \E U \in (SUBSET Upstream) \ {fallback} : UpdateFallbackUpstreams(U)
           \/ Tick
  BY <1>6, EnvironmentKeeps
<1>7. CASE UNCHANGED vars
  BY <1>7 DEF vars, proxyVars, localVars, IInv, TypeOK, CacheInv, EntriesDated, HandlersInStep,
     VerdictsCurrent, Meant, TTLWithinSecond, AgeBounded, FromCache, RulesObeyed
<1> QED
  BY <1>4, <1>5, <1>6, <1>7 DEF Next

\* The invariant holds in every state.
LEMMA Invariance == Spec => []IInv
BY InitIInv, NextIInv, PTL DEF Spec

\* Types; and Store keeps the cache within maxEntries, however many handlers
\* store at once and whatever is stored.
THEOREM TypeCorrect == Spec => []TypeOK
<1>1. IInv => TypeOK
  BY DEF IInv
<1> QED
  BY <1>1, Invariance, PTL

\* Cutting off parts of a second, cloneCachedResponse extends the life of a
\* record by less than one, on the way of Get and of GetStale, although a
\* handler may use an entry that was stored after its own query came in.
THEOREM TTLKept == Spec => []TTLWithinSecond
<1>1. IInv => TTLWithinSecond
  BY DEF IInv
<1> QED
  BY <1>1, Invariance, PTL

\* Get and GetStale serve nothing beyond its lifetime and the stale window.
THEOREM AgesBounded == Spec => []AgeBounded
<1>1. IInv => AgeBounded
  BY DEF IInv
<1> QED
  BY <1>1, Invariance, PTL

\* The filter, as handleQuery applies it while UpdateFilter replaces it, does
\* what the lists mean to every query that sees one meaning all its life.
THEOREM FilterObeyed == Spec => []RulesObeyed
<1>1. IInv => RulesObeyed
  BY DEF IInv
<1> QED
  BY <1>1, Invariance, PTL
=============================================================================
