--------------------------- MODULE ObjectFile_proofs --------------------------
(***************************************************************************)
(* The functions registered with the debugger (GdbJit), for any number of  *)
(* them, and the output ring (RawIo), for every size of it and all prints, *)
(* in the specification of ObjectFile.                                     *)
(***************************************************************************)
EXTENDS GdbJit, RawIo, WellFoundedInduction, TLAPS

\* The time each prover has for a leaf.
USE SMTT(30), ZenonT(30)

\* Entries, sequences of them, and the fields of the descriptor and the entries.
Entry     == 1..MaxEntries
EntrySeq  == Seq(Entry)
Length(s) == Len(s)
Links     ==
  [first : Entry \cup {0}, next : [Entry -> Entry \cup {0}], prev : [Entry -> Entry \cup {0}]]

\* s[1..n] are different entries.
Distinct(s, n) == \A i, j \in 1..n : s[i] = s[j] => i = j
\* The links of d lead through s[1], ..., s[n] and back.
Forward(d, s, n) ==
  /\ d.first = (IF n = 0 THEN 0 ELSE s[1])
  /\ \A i \in 1..n : d.next[s[i]] = (IF i = n THEN 0 ELSE s[i + 1])
Backward(d, s, n) == \A i \in 1..n : d.prev[s[i]] = (IF i = 1 THEN 0 ELSE s[i - 1])
Listed(d, s, n) ==
  /\ n \in Nat /\ d \in Links /\ (\A i \in 1..n : s[i] \in Entry)
  /\ Distinct(s, n) /\ Forward(d, s, n) /\ Backward(d, s, n)

\* The list as sequences: s, e in front of it, and s without its r-th entry.
List(d, s)    == s \in EntrySeq /\ Listed(d, s, Length(s))
InFront(e, s) == <<e>> \o s
Without(s, r) == SubSeq(s, 1, r - 1) \o SubSeq(s, r + 1, Len(s))

\* 0 is no entry: it stands for nullptr.
LEMMA EntryFacts == 0 \notin Entry
BY EntriesCounted DEF Entry

\* A new entry in front.
Pushed(d, e) ==
  [first |-> e,
   next  |-> [d.next EXCEPT ![e] = d.first],
   prev  |-> [x \in Entry |-> IF x = e THEN 0 ELSE IF x = d.first THEN e ELSE d.prev[x]]]

\* The links lead through the new entry and then through the others.
LEMMA PushListed ==
  ASSUME NEW d, NEW s, NEW n, Listed(d, s, n), NEW e \in Entry, \A i \in 1..n : s[i] # e,
         NEW t, t[1] = e, \A i \in 2..(n + 1) : t[i] = s[i - 1]
  PROVE  Listed(Pushed(d, e), t, n + 1)
<1> DEFINE p == Pushed(d, e)
<1>1. /\ n \in Nat /\ d \in Links /\ (\A i \in 1..n : s[i] \in Entry)
      /\ Distinct(s, n) /\ Forward(d, s, n) /\ Backward(d, s, n)
  BY DEF Listed
<1>2. /\ d.first \in Entry \cup {0} /\ d.next \in [Entry -> Entry \cup {0}]
      /\ d.prev \in [Entry -> Entry \cup {0}]
  BY <1>1 DEF Links
<1>3. /\ p.first = e
      /\ p.next = [d.next EXCEPT ![e] = d.first]
      /\ p.prev = [x \in Entry |-> IF x = e THEN 0 ELSE IF x = d.first THEN e ELSE d.prev[x]]
      /\ p = [first |-> p.first, next |-> p.next, prev |-> p.prev]
  BY DEF Pushed
<1> HIDE DEF p
<1>4. p.next \in [Entry -> Entry \cup {0}] /\ p.prev \in [Entry -> Entry \cup {0}]
  BY <1>2, <1>3
<1>5. p \in Links
  BY <1>3, <1>4 DEF Links
<1>6. p.next[e] = d.first /\ \A x \in Entry : x # e => p.next[x] = d.next[x]
  BY <1>2, <1>3
<1>7. /\ p.prev[e] = 0 /\ \A x \in Entry : x # e /\ x = d.first => p.prev[x] = e
      /\ \A x \in Entry : x # e /\ x # d.first => p.prev[x] = d.prev[x]
  BY <1>2, <1>3
<1>8. \A i \in 1..(n + 1) : i = 1 \/ (i \in 2..(n + 1) /\ i - 1 \in 1..n)
  BY <1>1
<1>9. \A i \in 1..(n + 1) : t[i] \in Entry
  BY <1>1, <1>8
<1>10. Distinct(t, n + 1)
  <2>1. ASSUME NEW i \in 1..(n + 1), NEW j \in 1..(n + 1), t[i] = t[j] PROVE i = j
    <3>1. CASE i = 1
      BY <2>1, <3>1, <1>8
    <3>2. CASE j = 1
      BY <2>1, <3>2, <1>8
    <3>3. CASE i \in 2..(n + 1) /\ j \in 2..(n + 1)
      <4>1. i - 1 \in 1..n /\ j - 1 \in 1..n /\ s[i - 1] = s[j - 1]
        BY <1>1, <2>1, <3>3
      <4>2. i - 1 = j - 1
        BY <1>1, <4>1 DEF Distinct
      <4> QED BY <4>2
    <3> QED BY <1>8, <3>1, <3>2, <3>3
  <2> QED BY <2>1 DEF Distinct
<1>11. Forward(p, t, n + 1)
  <2>1. p.first = t[1] /\ n + 1 # 0
    BY <1>1, <1>3
  <2>2. ASSUME NEW i \in 1..(n + 1)
        PROVE  p.next[t[i]] = (IF i = n + 1 THEN 0 ELSE t[i + 1])
    <3>1. CASE i = 1
      <4>1. p.next[t[i]] = (IF n = 0 THEN 0 ELSE s[1])
        BY <3>1, <1>1, <1>6 DEF Forward
      <4>2. n # 0 => t[2] = s[1]
        <5>1. n # 0 => 2 \in 2..(n + 1) /\ 2 - 1 = 1
          BY <1>1
        <5> QED BY <5>1
      <4>3. i = n + 1 <=> n = 0
        BY <3>1, <1>1
      <4> QED BY <3>1, <4>1, <4>2, <4>3
    <3>2. CASE i \in 2..(n + 1)
      <4>1. i - 1 \in 1..n /\ t[i] = s[i - 1] /\ s[i - 1] # e /\ s[i - 1] \in Entry
        BY <3>2, <1>1, <1>8
      <4>2. p.next[t[i]] = d.next[s[i - 1]]
        BY <4>1, <1>6
      <4>3. d.next[s[i - 1]] = (IF i - 1 = n THEN 0 ELSE s[(i - 1) + 1])
        BY <4>1, <1>1 DEF Forward
      <4>4. i - 1 # n => i + 1 \in 2..(n + 1) /\ (i + 1) - 1 = (i - 1) + 1
        BY <3>2, <1>1
      <4>5. i - 1 # n => t[i + 1] = s[(i - 1) + 1]
        BY <4>4
      <4>6. i - 1 = n <=> i = n + 1
        BY <1>1
      <4> QED BY <4>2, <4>3, <4>5, <4>6
    <3> QED BY <1>8, <3>1, <3>2
  <2> QED BY <2>1, <2>2 DEF Forward
<1>12. Backward(p, t, n + 1)
  <2>1. ASSUME NEW i \in 1..(n + 1)
        PROVE  p.prev[t[i]] = (IF i = 1 THEN 0 ELSE t[i - 1])
    <3>1. CASE i = 1
      BY <3>1, <1>7
    <3>2. CASE i \in 2..(n + 1)
      <4>1. i - 1 \in 1..n /\ t[i] = s[i - 1] /\ s[i - 1] # e /\ s[i - 1] \in Entry /\ n # 0 /\ i # 1
        BY <3>2, <1>1, <1>8
      <4>2. d.first = s[1] /\ 1 \in 1..n
        BY <4>1, <1>1 DEF Forward
      <4>3. CASE i = 2
        <5>1. s[i - 1] = d.first /\ t[i - 1] = e
          BY <4>2, <4>3
        <5> QED BY <4>1, <5>1, <1>7
      <4>4. CASE i # 2
        <5>1. i - 1 # 1 /\ i - 1 \in 2..(n + 1)
          BY <3>2, <4>4, <1>1
        <5>2. s[i - 1] # d.first
          BY <1>1, <4>1, <4>2, <5>1 DEF Distinct
        <5>3. p.prev[t[i]] = s[(i - 1) - 1]
          BY <1>1, <1>7, <4>1, <5>1, <5>2 DEF Backward
        <5> QED BY <4>1, <5>1, <5>3
      <4> QED BY <4>3, <4>4
    <3> QED BY <1>8, <3>1, <3>2
  <2> QED BY <2>1 DEF Backward
<1> QED BY <1>1, <1>5, <1>9, <1>10, <1>11, <1>12 DEF Listed, p

\* Entry e unlinked.
Unlinked(d, e) ==
  [first |-> IF d.prev[e] # 0 THEN d.first ELSE d.next[e],
   next  |-> [x \in Entry |-> IF x = d.prev[e] THEN d.next[e] ELSE d.next[x]],
   prev  |-> [x \in Entry |-> IF x = d.next[e] THEN d.prev[e] ELSE d.prev[x]]]

\* The links lead past the entry that was taken out.
LEMMA UnlinkListed ==
  ASSUME NEW d, NEW s, NEW n, Listed(d, s, n), NEW r \in 1..n,
         NEW t, \A i \in 1..(r - 1) : t[i] = s[i], \A i \in r..(n - 1) : t[i] = s[i + 1]
  PROVE  Listed(Unlinked(d, s[r]), t, n - 1)
<1> DEFINE e == s[r]
           p == Unlinked(d, e)
           before == d.prev[e]
           after == d.next[e]
<1>1. /\ n \in Nat /\ d \in Links /\ (\A i \in 1..n : s[i] \in Entry)
      /\ Distinct(s, n) /\ Forward(d, s, n) /\ Backward(d, s, n)
  BY DEF Listed
<1>2. /\ d.first \in Entry \cup {0} /\ d.next \in [Entry -> Entry \cup {0}]
      /\ d.prev \in [Entry -> Entry \cup {0}]
  BY <1>1 DEF Links
<1>3. e \in Entry /\ before \in Entry \cup {0} /\ after \in Entry \cup {0}
  BY <1>1, <1>2
<1>4. /\ before = (IF r = 1 THEN 0 ELSE s[r - 1]) /\ after = (IF r = n THEN 0 ELSE s[r + 1])
  BY <1>1 DEF Forward, Backward
<1>5. /\ p.first = IF before # 0 THEN d.first ELSE after
      /\ p.next = [x \in Entry |-> IF x = before THEN after ELSE d.next[x]]
      /\ p.prev = [x \in Entry |-> IF x = after THEN before ELSE d.prev[x]]
      /\ p = [first |-> p.first, next |-> p.next, prev |-> p.prev]
  BY DEF Unlinked
<1> HIDE DEF p, before, after, e
<1>6. p.next \in [Entry -> Entry \cup {0}] /\ p.prev \in [Entry -> Entry \cup {0}]
  BY <1>2, <1>3, <1>5
<1>7. p \in Links
  BY <1>2, <1>3, <1>5, <1>6 DEF Links
<1>8. \A x \in Entry : /\ p.next[x] = IF x = before THEN after ELSE d.next[x]
                       /\ p.prev[x] = IF x = after THEN before ELSE d.prev[x]
  BY <1>5
<1>9. \A i \in 1..(n - 1) : \/ i \in 1..(r - 1) /\ i \in 1..n /\ t[i] = s[i]
                            \/ i \in r..(n - 1) /\ i + 1 \in 1..n /\ t[i] = s[i + 1]
  BY <1>1
<1>10. \A i \in 1..(n - 1) : t[i] \in Entry
  BY <1>1, <1>9
<1>11. Distinct(t, n - 1)
  <2>1. ASSUME NEW i \in 1..(n - 1), NEW j \in 1..(n - 1), t[i] = t[j] PROVE i = j
    <3> DEFINE at(k) == IF k \in 1..(r - 1) THEN k ELSE k + 1
    <3>1. /\ at(i) \in 1..n /\ at(j) \in 1..n /\ t[i] = s[at(i)] /\ t[j] = s[at(j)]
      BY <1>1, <1>9
    <3>2. at(i) = at(j)
      <4> HIDE DEF at
      <4> QED BY <1>1, <2>1, <3>1, Zenon DEF Distinct
    <3> QED BY <1>1, <3>2
  <2> QED BY <2>1 DEF Distinct
<1>12. Forward(p, t, n - 1)
  <2>1. p.first = (IF n - 1 = 0 THEN 0 ELSE t[1])
    <3>1. CASE r = 1
      <4>1. p.first = IF n = 1 THEN 0 ELSE s[2]
        BY <3>1, <1>4, <1>5
      <4>2. n # 1 => 1 \in r..(n - 1)
        BY <3>1, <1>1
      <4>3. n # 1 => t[1] = s[2]
        BY <4>2
      <4> QED BY <1>1, <4>1, <4>3
    <3>2. CASE r # 1
      <4>1. r - 1 \in 1..n /\ 1 \in 1..(r - 1) /\ n # 0 /\ n - 1 # 0
        BY <3>2, <1>1
      <4>2. before # 0
        BY <3>2, <4>1, <1>1, <1>4, EntryFacts
      <4>3. p.first = s[1]
        BY <4>1, <4>2, <1>1, <1>5 DEF Forward
      <4> QED BY <4>1, <4>3
    <3> QED BY <3>1, <3>2
  <2>2. ASSUME NEW i \in 1..(n - 1)
        PROVE  p.next[t[i]] = (IF i = n - 1 THEN 0 ELSE t[i + 1])
    <3>1. CASE i \in 1..(r - 1) /\ i = r - 1
      <4>1. r # 1 /\ i \in 1..n /\ t[i] = s[i]
        BY <3>1, <1>1
      <4>2. t[i] = before /\ t[i] \in Entry
        BY <3>1, <4>1, <1>1, <1>4
      <4>3. p.next[t[i]] = IF r = n THEN 0 ELSE s[r + 1]
        BY <4>2, <1>4, <1>8
      <4>4. r = n <=> i = n - 1
        BY <3>1, <1>1
      <4>5. r # n => r \in r..(n - 1) /\ i + 1 = r
        BY <3>1, <1>1
      <4>6. r # n => t[i + 1] = s[r + 1]
        BY <4>5
      <4> QED BY <4>3, <4>4, <4>6
    <3>2. CASE i \in 1..(r - 1) /\ i # r - 1
      <4>1. /\ i \in 1..n /\ t[i] = s[i] /\ i # n /\ i # n - 1 /\ r # 1 /\ r - 1 \in 1..n
            /\ i + 1 \in 1..(r - 1)
        BY <3>2, <1>1
      <4>2. t[i] # before /\ t[i] \in Entry
        BY <3>2, <4>1, <1>1, <1>4 DEF Distinct
      <4>3. p.next[t[i]] = s[i + 1]
        BY <4>1, <4>2, <1>1, <1>8 DEF Forward
      <4> QED BY <4>1, <4>3
    <3>3. CASE i \in r..(n - 1)
      <4>1. i + 1 \in 1..n /\ t[i] = s[i + 1]
        BY <3>3, <1>1
      <4>2. t[i] # before /\ t[i] \in Entry
        <5>1. r = 1 => before = 0
          BY <1>4
        <5>2. r # 1 => before = s[r - 1] /\ r - 1 \in 1..n /\ r - 1 # i + 1
          BY <1>1, <1>4, <3>3
        <5> QED BY <4>1, <5>1, <5>2, <1>1, EntryFacts DEF Distinct
      <4>3. p.next[t[i]] = IF i + 1 = n THEN 0 ELSE s[(i + 1) + 1]
        BY <4>1, <4>2, <1>1, <1>8 DEF Forward
      <4>4. i + 1 = n <=> i = n - 1
        BY <1>1
      <4>5. i + 1 # n => i + 1 \in r..(n - 1)
        BY <1>1, <3>3
      <4> QED BY <4>3, <4>4, <4>5
    <3> QED BY <1>9, <3>1, <3>2, <3>3
  <2> QED BY <2>1, <2>2 DEF Forward
<1>13. Backward(p, t, n - 1)
  <2>1. ASSUME NEW i \in 1..(n - 1)
        PROVE  p.prev[t[i]] = (IF i = 1 THEN 0 ELSE t[i - 1])
    <3>1. CASE i \in r..(n - 1) /\ i = r
      <4>1. r # n /\ t[i] = s[r + 1] /\ r + 1 \in 1..n
        BY <3>1, <1>1
      <4>2. t[i] = after /\ t[i] \in Entry
        BY <4>1, <1>1, <1>4
      <4>3. p.prev[t[i]] = IF r = 1 THEN 0 ELSE s[r - 1]
        BY <4>2, <1>4, <1>8
      <4>4. r # 1 => r - 1 \in 1..(r - 1)
        BY <1>1
      <4> QED BY <3>1, <4>3, <4>4
    <3>2. CASE i \in r..(n - 1) /\ i # r
      <4>1. /\ i + 1 \in 1..n /\ t[i] = s[i + 1] /\ i - 1 \in r..(n - 1) /\ i # 1 /\ i + 1 # 1
            /\ r # n /\ r + 1 \in 1..n /\ r + 1 # i + 1 /\ (i - 1) + 1 = (i + 1) - 1
        BY <3>2, <1>1
      <4>2. t[i] # after /\ t[i] \in Entry
        BY <4>1, <1>1, <1>4 DEF Distinct
      <4>3. p.prev[t[i]] = s[(i + 1) - 1]
        BY <4>1, <4>2, <1>1, <1>8 DEF Backward
      <4>4. t[i - 1] = s[(i - 1) + 1]
        BY <4>1
      <4> QED BY <4>1, <4>3, <4>4
    <3>3. CASE i \in 1..(r - 1)
      <4>1. i \in 1..n /\ t[i] = s[i]
        BY <3>3, <1>1
      <4>2. t[i] # after /\ t[i] \in Entry
        <5>1. r = n => after = 0
          BY <1>4
        <5>2. r # n => after = s[r + 1] /\ r + 1 \in 1..n /\ r + 1 # i
          BY <1>1, <1>4, <3>3
        <5> QED BY <4>1, <5>1, <5>2, <1>1, EntryFacts DEF Distinct
      <4>3. p.prev[t[i]] = IF i = 1 THEN 0 ELSE s[i - 1]
        BY <4>1, <4>2, <1>1, <1>8 DEF Backward
      <4>4. i # 1 => i - 1 \in 1..(r - 1)
        BY <1>1, <3>3
      <4> QED BY <4>3, <4>4
    <3> QED BY <1>9, <3>1, <3>2, <3>3
  <2> QED BY <2>1 DEF Backward
<1>14. n - 1 \in Nat
  BY <1>1
<1> QED BY <1>7, <1>10, <1>11, <1>12, <1>13, <1>14 DEF Listed, p, e

\* The same of the sequence.
LEMMA PushList ==
  ASSUME NEW d, NEW s, List(d, s), NEW e \in Entry, \A i \in DOMAIN s : s[i] # e,
         NEW t, t = InFront(e, s)
  PROVE  List(Pushed(d, e), t)
<1> DEFINE N == Length(s)
<1>1. s \in EntrySeq /\ Listed(d, s, N)
  BY DEF List
<1>2. DOMAIN s = 1..N
  BY <1>1 DEF EntrySeq, Length
<1>3. /\ N \in Nat /\ t \in EntrySeq /\ Length(t) = 1 + N
      /\ \A i \in 1..(1 + N) : t[i] = IF i <= 1 THEN <<e>>[i] ELSE s[i - 1]
  <2>1. <<e>> \in EntrySeq /\ Len(<<e>>) = 1 /\ t = <<e>> \o s
    BY DEF EntrySeq, InFront
  <2> QED BY <1>1, <2>1 DEF EntrySeq, Length
<1> HIDE DEF N
<1>4. t[1] = e
  <2>1. 1 \in 1..(1 + N) /\ <<e>>[1] = e
    BY <1>3
  <2> QED BY <1>3, <2>1
<1>5. ASSUME NEW i \in 2..(N + 1) PROVE t[i] = s[i - 1]
  <2>1. i \in 1..(1 + N) /\ ~(i <= 1)
    BY <1>3
  <2> QED BY <1>3, <2>1
<1>6. Listed(Pushed(d, e), t, N + 1)
  <2>1. \A i \in 1..N : s[i] # e
    BY <1>2, Zenon
  <2>2. \A i \in 2..(N + 1) : t[i] = s[i - 1]
    BY <1>5, Zenon
  <2> QED BY <1>1, <1>4, <2>1, <2>2, PushListed, ZenonT(60)
<1>7. Length(t) = N + 1
  BY <1>3
<1> QED BY <1>3, <1>6, <1>7 DEF List

\* The same of the sequence.
LEMMA UnlinkList ==
  ASSUME NEW d, NEW s, List(d, s), NEW r \in DOMAIN s, NEW t, t = Without(s, r)
  PROVE  List(Unlinked(d, s[r]), t)
<1> DEFINE N == Length(s)
<1>1. s \in EntrySeq /\ Listed(d, s, N)
  BY DEF List
<1>4. N \in Nat /\ r \in 1..N /\ \A i \in 1..N : s[i] \in Entry
  BY <1>1 DEF EntrySeq, Length
<1> DEFINE a == SubSeq(s, 1, r - 1)
           b == SubSeq(s, r + 1, N)
<1>5. t = a \o b
  BY DEF Without, Length
<1>6. /\ a \in EntrySeq /\ Length(a) = r - 1
      /\ \A i \in 1..(r - 1) : a[i] = s[i]
  <2>1. 1 \in Int /\ r - 1 \in Int /\ \A i \in 1..(r - 1) : s[i] \in Entry
    BY <1>4
  <2>2. /\ a \in EntrySeq /\ Length(a) = (IF 1 <= r - 1 THEN (r - 1) - 1 + 1 ELSE 0)
        /\ \A i \in 1..((r - 1) - 1 + 1) : a[i] = s[1 + i - 1]
    BY <2>1 DEF EntrySeq, Length
  <2> HIDE DEF a
  <2> QED BY <1>4, <2>2
<1>7. /\ b \in EntrySeq /\ Length(b) = N - r
      /\ \A i \in 1..(N - r) : b[i] = s[r + i]
  <2>1. r + 1 \in Int /\ N \in Int /\ \A i \in (r + 1)..N : s[i] \in Entry
    BY <1>4
  <2>2. /\ b \in EntrySeq /\ Length(b) = (IF r + 1 <= N THEN N - (r + 1) + 1 ELSE 0)
        /\ \A i \in 1..(N - (r + 1) + 1) : b[i] = s[(r + 1) + i - 1]
    BY <2>1 DEF EntrySeq, Length
  <2> HIDE DEF b, N
  <2>3. N - (r + 1) + 1 = N - r /\ \A i \in 1..(N - r) : (r + 1) + i - 1 = r + i
    BY <1>4
  <2> QED BY <1>4, <2>2, <2>3
<1> HIDE DEF a, b
<1>8. /\ t \in EntrySeq /\ Length(t) = (r - 1) + (N - r)
      /\ \A i \in 1..((r - 1) + (N - r)) : t[i] = IF i <= r - 1 THEN a[i] ELSE b[i - (r - 1)]
  BY <1>5, <1>6, <1>7 DEF EntrySeq, Length
<1> HIDE DEF N
<1>9. (r - 1) + (N - r) = N - 1
  BY <1>4
<1>10. ASSUME NEW i \in 1..(r - 1) PROVE t[i] = s[i]
  <2>1. i \in 1..(N - 1) /\ i <= r - 1
    BY <1>4
  <2> QED BY <1>6, <1>8, <1>9, <2>1
<1>11. ASSUME NEW i \in r..(N - 1) PROVE t[i] = s[i + 1]
  <2>1. i \in 1..(N - 1) /\ ~(i <= r - 1) /\ i - (r - 1) \in 1..(N - r) /\ r + (i - (r - 1)) = i + 1
    BY <1>4
  <2> QED BY <1>7, <1>8, <1>9, <2>1
<1>12. Listed(Unlinked(d, s[r]), t, N - 1)
  BY <1>1, <1>4, <1>10, <1>11, UnlinkListed
<1>13. Length(t) = N - 1
  BY <1>8, <1>9
<1> QED BY <1>8, <1>12, <1>13 DEF List
-------------------------------------------------------------------------------
\* Every non-empty set of naturals has a least element.
LEMMA LeastNat ==
  ASSUME NEW T \in SUBSET Nat, T # {}
  PROVE  \E x \in T : \A y \in T : x <= y
<1> DEFINE R == OpToRel(<, Nat)
<1>1. \E x \in T : \A y \in T : ~(<<y, x>> \in R)
  BY NatLessThanWellFounded, WFMin, Zenon
<1>2. \A x, y \in T : y < x => <<y, x>> \in R
  BY Zenon DEF OpToRel
<1>3. \E x \in T : \A y \in T : ~(y < x)
  BY <1>1, <1>2, Zenon
<1> QED BY <1>3
-------------------------------------------------------------------------------
(* The output ring.                                                        *)

Out       == {1, 2}
Other(fd) == 3 - fd

\* b is the output on fd from byte s up to byte e.
Run(b, fd, s, e) ==
  /\ s \in Nat /\ e \in Nat /\ s <= e
  /\ b = IF s = e THEN << >> ELSE <<Piece(fd, s, e - s)>>

\* A call that waits to write such a run.
Waits(fd, s, e) == Call(fd, <<Piece(fd, s, e - s)>>)
From(c) == c.bytes[1].from
To(c)   == c.bytes[1].from + c.bytes[1].n
CallRec == [fd : Out, bytes : Seq([what : Out, from : Nat, n : Nat])]
Waiting == {c \in CallRec : From(c) \in Nat /\ To(c) \in Nat /\ From(c) < To(c) /\ c = Waits(c.fd, From(c), To(c))}
CallSeq == Seq(Waiting)

\* Bytes that continue a run make a longer one.
LEMMA JoinRun ==
  ASSUME NEW b, NEW fd, NEW s, NEW e, Run(b, fd, s, e), NEW k \in Nat \ {0}
  PROVE  Run(Join(b, Piece(fd, e, k)), fd, s, e + k)
<1> DEFINE p == Piece(fd, e, k)
<1>1. s \in Nat /\ e \in Nat /\ s <= e
  BY DEF Run
<1>2. p.n = k /\ p.what = fd /\ p.from = e
  BY DEF Piece
<1>3. CASE s = e
  <2>1. b = << >>
    BY <1>3 DEF Run
  <2>2. Join(b, p) = <<p>>
    BY <1>2, <2>1 DEF Join
  <2> QED BY <1>1, <1>3, <2>2 DEF Run
<1>4. CASE s # e
  <2> DEFINE q == Piece(fd, s, e - s)
  <2>1. b = <<q>> /\ Len(b) = 1 /\ b # << >> /\ b[1] = q
    BY <1>4 DEF Run
  <2>2. q.what = fd /\ q.from + q.n = e /\ q.n = e - s
    BY <1>1 DEF Piece
  <2>3. Join(b, p) = [b EXCEPT ![1].n = @ + k]
    BY <1>2, <2>1, <2>2 DEF Join
  <2>4. [b EXCEPT ![1].n = @ + k] = <<[q EXCEPT !.n = @ + k]>>
    BY <2>1
  <2>5. [q EXCEPT !.n = @ + k] = Piece(fd, s, (e + k) - s)
    BY <1>1, <2>2 DEF Piece
  <2> QED BY <1>1, <1>4, <2>3, <2>4, <2>5 DEF Run
<1> QED BY <1>3, <1>4

\* What a waiting call is for.
LEMMA WaitsFacts ==
  ASSUME NEW fd \in Out, NEW s \in Nat, NEW e \in Nat, s < e
  PROVE  /\ Waits(fd, s, e) \in Waiting /\ Waits(fd, s, e).fd = fd
         /\ From(Waits(fd, s, e)) = s /\ To(Waits(fd, s, e)) = e
<1>1. From(Waits(fd, s, e)) = s /\ To(Waits(fd, s, e)) = e /\ Waits(fd, s, e).fd = fd
  BY DEF From, To, Waits, Call, Piece
<1>2. Waits(fd, s, e) \in CallRec
  <2>1. Piece(fd, s, e - s) \in [what : Out, from : Nat, n : Nat]
    BY DEF Piece
  <2> QED BY <2>1 DEF Waits, Call, CallRec
<1>3. Waits(fd, s, e) \in Waiting
  BY <1>1, <1>2 DEF Waiting
<1> QED BY <1>1, <1>3

\* What a waiting call is.
LEMMA WaitingFacts ==
  ASSUME NEW c \in Waiting
  PROVE  /\ c.fd \in Out /\ From(c) \in Nat /\ To(c) \in Nat /\ From(c) < To(c)
         /\ c = Waits(c.fd, From(c), To(c))
BY DEF Waiting, CallRec

\* The calls k, ..., of a queue are those for the output on r from s up to e.
Mine(td, k, r, s, e) ==
  /\ \A i \in k..Length(td) : td[i].fd = r
  /\ IF Length(td) < k THEN s = e ELSE From(td[k]) = s /\ To(td[Length(td)]) = e
  /\ \A i \in k..(Length(td) - 1) : From(td[i + 1]) = To(td[i])

\* td is ready to write all output on r from g[r] up to `at', and all of the
\* other descriptor's from g[Other(r)] on, that of the other one first.
Queue(td, r, g, at, pr) ==
  \/ Mine(td, 1, r, g[r], at) /\ g[Other(r)] = pr[Other(r)]
  \/ /\ 0 < Length(td) /\ td[1].fd = Other(r)
     /\ From(td[1]) = g[Other(r)] /\ To(td[1]) = pr[Other(r)]
     /\ Mine(td, 2, r, g[r], at)

Marks == [Out -> Nat]
IsRing(rg) == rg.fd \in Out /\ rg = [fd |-> rg.fd, bytes |-> rg.bytes]

\* Of what was printed (pr) the kernel took g; the calls td and the ring rg have
\* the rest, in order.
Lined(rg, td, g, pr) ==
  /\ IsRing(rg) /\ td \in CallSeq /\ g \in Marks /\ pr \in Marks
  /\ \E at \in Nat : Run(rg.bytes, rg.fd, at, pr[rg.fd]) /\ Queue(td, rg.fd, g, at, pr)

WithCall(td, c) == Append(td, c)

LEMMA WithCallFacts ==
  ASSUME NEW td \in CallSeq, NEW c \in Waiting
  PROVE  /\ WithCall(td, c) \in CallSeq /\ Length(td) \in Nat
         /\ Length(WithCall(td, c)) = Length(td) + 1
         /\ WithCall(td, c)[Length(td) + 1] = c
         /\ \A i \in 1..Length(td) : WithCall(td, c)[i] = td[i]
  BY DEF CallSeq, WithCall, Length

\* A call at the end.
LEMMA MineAppend ==
  ASSUME NEW td \in CallSeq, NEW k \in {1, 2}, k <= Length(td) + 1, NEW r \in Out, NEW s \in Nat,
         NEW at \in Nat, NEW e \in Nat, at < e, Mine(td, k, r, s, at)
  PROVE  Mine(WithCall(td, Waits(r, at, e)), k, r, s, e)
<1> DEFINE c == Waits(r, at, e)
           ts == WithCall(td, c)
           n == Length(td)
<1>1. c \in Waiting /\ c.fd = r /\ From(c) = at /\ To(c) = e
  BY WaitsFacts
<1>2. /\ ts \in CallSeq /\ n \in Nat /\ Length(ts) = n + 1 /\ ts[n + 1] = c
      /\ \A i \in 1..n : ts[i] = td[i]
  BY <1>1, WithCallFacts
<1>3. /\ \A i \in k..n : td[i].fd = r
      /\ IF n < k THEN s = at ELSE From(td[k]) = s /\ To(td[n]) = at
      /\ \A i \in k..(n - 1) : From(td[i + 1]) = To(td[i])
  BY DEF Mine
<1> HIDE DEF c, ts, n
<1>4. k <= n + 1
  BY DEF n
<1>5. \A i \in k..(n + 1) : ts[i].fd = r
  <2> SUFFICES ASSUME NEW i \in k..(n + 1) PROVE ts[i].fd = r
    OBVIOUS
  <2>1. CASE i = n + 1
    BY <2>1, <1>1, <1>2
  <2>2. CASE i # n + 1
    <3>1. i \in 1..n /\ i \in k..n
      BY <2>2, <1>2
    <3> QED BY <3>1, <1>2, <1>3
  <2> QED BY <2>1, <2>2
<1>6. From(ts[k]) = s /\ To(ts[n + 1]) = e
  <2>1. CASE n < k
    <3>1. k = n + 1
      BY <2>1, <1>2, <1>4
    <3> QED BY <2>1, <3>1, <1>1, <1>2, <1>3
  <2>2. CASE ~(n < k)
    <3>1. k \in 1..n
      BY <2>2, <1>2
    <3> QED BY <2>2, <3>1, <1>1, <1>2, <1>3
  <2> QED BY <2>1, <2>2
<1>7. \A i \in k..n : From(ts[i + 1]) = To(ts[i])
  <2> SUFFICES ASSUME NEW i \in k..n PROVE From(ts[i + 1]) = To(ts[i])
    OBVIOUS
  <2>1. i \in 1..n /\ ~(n < k)
    BY <1>2
  <2>2. CASE i = n
    BY <2>1, <2>2, <1>1, <1>2, <1>3
  <2>3. CASE i # n
    <3>1. i + 1 \in 1..n /\ i \in k..(n - 1)
      BY <2>3, <1>2
    <3> QED BY <2>1, <3>1, <1>2, <1>3
  <2> QED BY <2>2, <2>3
<1>8. ~(n + 1 < k) /\ (n + 1) - 1 = n
  BY <1>2, <1>4
<1> QED BY <1>2, <1>5, <1>6, <1>7, <1>8 DEF Mine, ts, c

\* What raw_write_buffered carries along, the ring, which is fd's, and the calls
\* made so far, has what is left of pr.
Good(st, fd, g, pr) ==
  st = [ring |-> st.ring, calls |-> st.calls] /\ st.ring.fd = fd /\ Lined(st.ring, st.calls, g, pr)

\* A flush moves the bytes of the ring to the end of the queue.
LEMMA FlushLined ==
  ASSUME NEW st, NEW g, NEW pr, NEW r, Good(st, r, g, pr), NEW fd \in Out
  PROVE  Good(Flushed(st, fd), r, g, pr) /\ (r = fd => Flushed(st, fd).ring.bytes = << >>)
<1> DEFINE rg == st.ring
           td == st.calls
<1>0. rg.fd = r /\ Lined(rg, td, g, pr)
  BY DEF Good
<1>1. CASE ~(rg.bytes # << >> /\ r = fd)
  <2>1. Flushed(st, fd) = st
    BY <1>0, <1>1 DEF Flushed
  <2> QED BY <1>1, <2>1
<1>2. CASE rg.bytes # << >> /\ r = fd
  <2> DEFINE e == pr[fd]
             new == [fd |-> fd, bytes |-> << >>]
  <2>1. IsRing(rg) /\ td \in CallSeq /\ g \in Marks /\ pr \in Marks /\ e \in Nat
    BY <1>0 DEF Lined, Marks
  <2>2. PICK at \in Nat : Run(rg.bytes, fd, at, e) /\ Queue(td, fd, g, at, pr)
    BY <1>0, <1>2 DEF Lined
  <2>3. at < e /\ rg.bytes = <<Piece(fd, at, e - at)>>
    BY <1>2, <2>1, <2>2 DEF Run
  <2> DEFINE c == Waits(fd, at, e)
             ts == WithCall(td, c)
  <2>4. Call(fd, rg.bytes) = c
    BY <2>3 DEF Waits
  <2>5. [rg EXCEPT !.bytes = << >>] = new
    BY <1>0, <1>2, <2>1 DEF IsRing
  <2>6. Flushed(st, fd) = [ring |-> new, calls |-> ts]
    BY <1>0, <1>2, <2>4, <2>5, Zenon DEF Flushed, WithCall
  <2>7. c \in Waiting
    BY <2>1, <2>3, WaitsFacts
  <2>8. /\ ts \in CallSeq /\ Length(td) \in Nat /\ Length(ts) = Length(td) + 1
        /\ \A i \in 1..Length(td) : ts[i] = td[i]
    BY <2>1, <2>7, WithCallFacts
  <2>9. g[fd] \in Nat /\ fd \in Out
    BY <2>1 DEF Marks
  <2>10. Queue(ts, fd, g, e, pr)
    <3>1. CASE Mine(td, 1, fd, g[fd], at) /\ g[Other(fd)] = pr[Other(fd)]
      <4>1. Mine(ts, 1, fd, g[fd], e)
        BY <2>1, <2>3, <2>8, <2>9, <3>1, MineAppend
      <4> QED BY <3>1, <4>1 DEF Queue
    <3>2. CASE /\ 0 < Length(td) /\ td[1].fd = Other(fd)
               /\ From(td[1]) = g[Other(fd)] /\ To(td[1]) = pr[Other(fd)]
               /\ Mine(td, 2, fd, g[fd], at)
      <4>1. Mine(ts, 2, fd, g[fd], e)
        BY <2>1, <2>3, <2>8, <2>9, <3>2, MineAppend
      <4>2. ts[1] = td[1] /\ 0 < Length(ts)
        BY <2>8, <3>2
      <4> QED BY <3>2, <4>1, <4>2 DEF Queue
    <3> QED BY <2>2, <3>1, <3>2 DEF Queue
  <2>11. Run(<< >>, fd, e, e)
    BY <2>1 DEF Run
  <2>12. IsRing(new) /\ new.fd = fd /\ new.bytes = << >>
    BY DEF IsRing
  <2> HIDE DEF new, ts
  <2>13. Lined(new, ts, g, pr)
    BY <2>1, <2>8, <2>10, <2>11, <2>12 DEF Lined
  <2> QED BY <1>2, <2>6, <2>12, <2>13 DEF Good
<1> QED BY <1>1, <1>2

Grown(pr, fd, n) == [pr EXCEPT ![fd] = @ + n]

\* One byte more in the ring, flushed before or not.
LEMMA CopyLined ==
  ASSUME NEW st, NEW g, NEW pr, NEW fd \in Out, Good(st, fd, g, pr)
  PROVE  Good(Copied(st, fd, pr[fd]), fd, g, Grown(pr, fd, 1))
<1> DEFINE room == IF Size(st.ring.bytes) = RingSize THEN Flushed(st, fd) ELSE st
           e == pr[fd]
           p == Piece(fd, e, 1)
           rg == room.ring
           td == room.calls
           new == [fd |-> fd, bytes |-> Join(rg.bytes, p)]
           qr == Grown(pr, fd, 1)
<1>1. Good(room, fd, g, pr)
  BY FlushLined, Zenon
<1> HIDE DEF room
<1>0. room = [ring |-> rg, calls |-> td] /\ rg.fd = fd /\ Lined(rg, td, g, pr)
  BY <1>1 DEF Good
<1>2. Copied(st, fd, e) = [room EXCEPT !.ring.bytes = Join(@, p)]
  BY DEF Copied, room
<1>3. IsRing(rg) /\ td \in CallSeq /\ g \in Marks /\ pr \in Marks
  BY <1>0 DEF Lined
<1>4. e \in Nat /\ qr \in Marks /\ qr[fd] = e + 1 /\ qr[Other(fd)] = pr[Other(fd)]
  BY <1>3 DEF Marks, Grown, Out, Other
<1>5. rg = [fd |-> fd, bytes |-> rg.bytes]
  BY <1>0, <1>3 DEF IsRing
<1>6. [room EXCEPT !.ring.bytes = Join(@, p)] = [ring |-> new, calls |-> td]
  BY <1>0, <1>5
<1>7. PICK at \in Nat : Run(rg.bytes, fd, at, e) /\ Queue(td, fd, g, at, pr)
  BY <1>0 DEF Lined
<1>8. Run(new.bytes, fd, at, e + 1)
  <2>1. 1 \in Nat \ {0}
    OBVIOUS
  <2>2. Run(Join(rg.bytes, p), fd, at, e + 1)
    BY <1>7, <2>1, JoinRun, Zenon
  <2>3. new.bytes = Join(rg.bytes, p)
    OBVIOUS
  <2> QED BY <2>2, <2>3, Zenon
<1>9. Queue(td, fd, g, at, qr)
  BY <1>4, <1>7 DEF Queue
<1>10. IsRing(new) /\ new.fd = fd
  BY DEF IsRing
<1> HIDE DEF new, rg, td, qr
<1>11. Lined(new, td, g, qr)
  BY <1>3, <1>4, <1>8, <1>9, <1>10 DEF Lined
<1> QED BY <1>2, <1>6, <1>10, <1>11 DEF Good, qr

\* The ring changes hands.
LEMMA ClaimLined ==
  ASSUME NEW g, NEW fd \in Out, Lined(ring, << >>, g, printed)
  PROVE  Good(Claimed(fd), fd, g, printed)
<1> DEFINE r == ring.fd
           st == Flushed(Unflushed, r)
<1>1. IsRing(ring) /\ << >> \in CallSeq /\ g \in Marks /\ printed \in Marks /\ r \in Out
  BY DEF Lined, IsRing
<1>2. Good(Unflushed, r, g, printed)
  BY DEF Unflushed, Good
<1>3. CASE r = fd
  <2>1. [Unflushed EXCEPT !.ring.fd = fd] = Unflushed
    BY <1>1, <1>3 DEF Unflushed, IsRing
  <2>2. Claimed(fd) = Unflushed
    BY <1>3, <2>1 DEF Claimed
  <2> QED BY <1>2, <1>3, <2>2
<1>4. CASE r # fd
  <2> DEFINE e == printed[fd]
             new == [fd |-> fd, bytes |-> << >>]
             td == st.calls
  <2>1. Good(st, r, g, printed) /\ st.ring.bytes = << >>
    BY <1>1, <1>2, FlushLined, Zenon
  <2>2. Other(fd) = r /\ Other(r) = fd /\ e \in Nat /\ printed[r] \in Nat /\ g[r] \in Nat
    BY <1>1, <1>4 DEF Out, Other, Marks
  <2>3. Claimed(fd) = [ring |-> new, calls |-> td]
    <3>1. Claimed(fd) = [st EXCEPT !.ring.fd = fd]
      BY <1>4 DEF Claimed
    <3>2. st.ring = [fd |-> r, bytes |-> << >>] /\ st = [ring |-> st.ring, calls |-> st.calls]
      BY <2>1 DEF Good, Lined, IsRing
    <3> HIDE DEF st
    <3> QED BY <3>1, <3>2
  <2>4. PICK at \in Nat : Run(ring.bytes, r, at, printed[r]) /\ Queue(<< >>, r, g, at, printed)
    BY DEF Lined
  <2>5. g[r] = at /\ g[fd] = e
    <3>1. Length(<< >>) = 0
      BY DEF Length
    <3>2. Mine(<< >>, 1, r, g[r], at) /\ g[Other(r)] = printed[Other(r)]
      BY <2>4, <3>1 DEF Queue
    <3>3. g[r] = at
      BY <3>1, <3>2 DEF Mine
    <3> QED BY <2>2, <3>2, <3>3
  <2>6. Queue(td, fd, g, e, printed)
    <3>1. CASE ring.bytes = << >>
      <4>1. td = << >> /\ Length(td) = 0
        BY <3>1 DEF Flushed, Unflushed, Length
      <4>2. at = printed[r]
        <5>1. \A x : Len(<<x>>) = 1 /\ Len(<< >>) = 0
          OBVIOUS
        <5>2. \A x : << >> # <<x>>
          BY <5>1
        <5> QED BY <2>4, <3>1, <5>2, Zenon DEF Run
      <4> HIDE DEF td
      <4>3. Mine(td, 1, fd, g[fd], e)
        BY <4>1, <2>5 DEF Mine
      <4> QED BY <2>2, <2>5, <4>2, <4>3 DEF Queue
    <3>2. CASE ring.bytes # << >>
      <4> DEFINE c == Waits(r, at, printed[r])
      <4>1. at < printed[r] /\ ring.bytes = <<Piece(r, at, printed[r] - at)>>
        BY <2>2, <2>4, <3>2 DEF Run
      <4>2. td = <<c>>
        BY <3>2, <4>1 DEF Flushed, Unflushed, Waits
      <4>3. Length(td) = 1 /\ td[1] = c
        BY <4>2 DEF Length
      <4>4. c.fd = r /\ From(c) = at /\ To(c) = printed[r]
        BY <1>1, <2>2, <4>1, WaitsFacts
      <4> HIDE DEF td, c
      <4>5. Mine(td, 2, fd, g[fd], e)
        BY <4>3, <2>5 DEF Mine
      <4> QED BY <2>2, <2>5, <4>3, <4>4, <4>5 DEF Queue
    <3> QED BY <3>1, <3>2
  <2>7. Run(<< >>, fd, e, e)
    BY <2>2 DEF Run
  <2>8. IsRing(new) /\ new.fd = fd /\ new.bytes = << >> /\ td \in CallSeq
    BY <2>1 DEF IsRing, Lined, Good
  <2> HIDE DEF new, td
  <2>9. Lined(new, td, g, printed)
    BY <1>1, <2>2, <2>6, <2>7, <2>8 DEF Lined
  <2> QED BY <2>3, <2>8, <2>9 DEF Good
<1> QED BY <1>3, <1>4

\* The states of the copy loop of raw_write_buffered.
Loop(f, fd, from, m) ==
  f = [i \in 0..m |-> IF i = 0 THEN Claimed(fd) ELSE Copied(f[i - 1], fd, from + i - 1)]

\* The loop reaches every count.
LEMMA LoopRuns ==
  ASSUME NEW fd, NEW from \in Nat, NEW n \in Nat
  PROVE  \E f : Loop(f, fd, from, n)
<1> DEFINE T == {m \in Nat : ~ \E f : Loop(f, fd, from, m)}
<1> SUFFICES ASSUME T # {} PROVE FALSE
  OBVIOUS
<1>0. T \in SUBSET Nat
  OBVIOUS
<1> HIDE DEF T
<1>1. PICK m \in T : \A y \in T : m <= y
  BY <1>0, LeastNat, Zenon
<1> USE DEF T
<1>2. m # 0
  <2> DEFINE f == [i \in 0..0 |-> Claimed(fd)]
  <2>1. Loop(f, fd, from, 0)
    BY DEF Loop
  <2> QED BY <2>1
<1>3. m - 1 \in Nat /\ ~(m - 1 \in T)
  BY <1>1, <1>2
<1>4. PICK f : Loop(f, fd, from, m - 1)
  BY <1>3
<1> DEFINE h == [i \in 0..m |-> IF i < m THEN f[i] ELSE Copied(f[m - 1], fd, from + m - 1)]
<1>5. \A i \in 0..m : h[i] = IF i = 0 THEN Claimed(fd) ELSE Copied(h[i - 1], fd, from + i - 1)
  <2> SUFFICES ASSUME NEW i \in 0..m
               PROVE  h[i] = IF i = 0 THEN Claimed(fd) ELSE Copied(h[i - 1], fd, from + i - 1)
    BY Zenon
  <2>1. CASE i < m
    <3>1. i \in 0..(m - 1) /\ h[i] = f[i] /\ (i # 0 => h[i - 1] = f[i - 1])
      BY <1>3, <2>1
    <3>2. f[i] = IF i = 0 THEN Claimed(fd) ELSE Copied(f[i - 1], fd, from + i - 1)
      BY <1>4, <3>1 DEF Loop
    <3> QED BY <3>1, <3>2
  <2>2. CASE i = m
    BY <1>2, <1>3, <2>2
  <2> QED BY <1>1, <2>1, <2>2
<1>6. h = [i \in 0..m |-> IF i = 0 THEN Claimed(fd) ELSE Copied(h[i - 1], fd, from + i - 1)]
  BY <1>5
<1>7. Loop(h, fd, from, m)
  BY <1>6, Zenon DEF Loop
<1> QED BY <1>1, <1>7

\* After n bytes everything is in order, up to the last of them.
LEMMA BufferedLined ==
  ASSUME NEW g, NEW fd \in Out, Lined(ring, << >>, g, printed), NEW n \in Nat,
         NEW after, Loop(after, fd, printed[fd], n)
  PROVE  Good(after[n], fd, g, Grown(printed, fd, n))
<1> DEFINE from == printed[fd]
           OK(i) == Good(after[i], fd, g, Grown(printed, fd, i))
           T == {i \in 0..n : ~OK(i)}
<1>1. printed \in Marks /\ from \in Nat
  BY DEF Lined, Marks
<1>4. \A i \in 0..n : after[i] = IF i = 0 THEN Claimed(fd) ELSE Copied(after[i - 1], fd, from + i - 1)
  BY DEF Loop
<1>5. T = {}
  <2> SUFFICES ASSUME T # {} PROVE FALSE
    OBVIOUS
  <2>1. T \in SUBSET Nat
    OBVIOUS
  <2> HIDE DEF T
  <2>2. PICK m \in T : \A y \in T : m <= y
    BY <2>1, LeastNat, Zenon
  <2>3. m \in 0..n /\ ~OK(m)
    BY <2>2 DEF T
  <2>4. m # 0
    <3>1. Grown(printed, fd, 0) = printed
      BY <1>1 DEF Grown, Marks
    <3>2. 0 \in 0..n /\ after[0] = Claimed(fd)
      BY <1>4
    <3>3. OK(0)
      BY <3>1, <3>2, ClaimLined
    <3> QED BY <2>3, <3>3
  <2>5. m - 1 \in 0..n /\ m - 1 < m
    BY <2>3, <2>4
  <2>6. OK(m - 1)
    BY <2>2, <2>3, <2>5 DEF T
  <2> DEFINE b == after[m - 1]
             q == Grown(printed, fd, m - 1)
  <2>7. q[fd] = from + m - 1 /\ Grown(q, fd, 1) = Grown(printed, fd, m)
    BY <1>1, <2>3 DEF Grown, Marks
  <2>8. after[m] = Copied(b, fd, q[fd])
    BY <1>4, <2>3, <2>4, <2>7
  <2> HIDE DEF b, q
  <2>9. Good(b, fd, g, q)
    BY <2>6 DEF b, q
  <2>10. Good(after[m], fd, g, Grown(q, fd, 1))
    BY <2>8, <2>9, CopyLined, Zenon
  <2> QED BY <2>3, <2>7, <2>10
<1> QED BY <1>5

LEMMA FirstCall ==
  ASSUME NEW td \in CallSeq, NEW n \in Nat, Length(td) = n + 1
  PROVE  td[1] \in Waiting
<1>1. td \in Seq(Waiting) /\ 1 \in 1..Len(td)
  BY DEF CallSeq, Length
<1> QED BY <1>1

\* td is ts behind one more call.
Whole(td, ts, n) == n \in Nat /\ Length(td) = n + 1 /\ Length(ts) = n /\ \A i \in 1..n : ts[i] = td[i + 1]

\* ts is td but for the first k bytes of its first call.
Part(td, ts, n, k) ==
  /\ n \in Nat /\ Length(td) = n + 1 /\ Length(ts) = n + 1
  /\ k \in Nat \ {0} /\ k < To(td[1]) - From(td[1])
  /\ ts[1] = Waits(td[1].fd, From(td[1]) + k, To(td[1]))
  /\ \A i \in 2..(n + 1) : ts[i] = td[i]

\* The kernel took all of the first call.
LEMMA TakenWhole ==
  ASSUME NEW td \in CallSeq, NEW ts \in CallSeq, NEW r \in Out, NEW g \in Marks, NEW at \in Nat,
         NEW pr \in Marks, Queue(td, r, g, at, pr), NEW n, Whole(td, ts, n)
  PROVE  /\ From(td[1]) = g[td[1].fd]
         /\ Queue(ts, r, Grown(g, td[1].fd, To(td[1]) - From(td[1])), at, pr)
<1> DEFINE c == td[1]
           h == Grown(g, c.fd, To(c) - From(c))
           o == Other(r)
<1>0. n \in Nat /\ Length(td) = n + 1 /\ Length(ts) = n /\ \A i \in 1..n : ts[i] = td[i + 1]
  BY DEF Whole
<1>1. c \in Waiting
  BY <1>0, FirstCall
<1>2. c.fd \in Out /\ From(c) \in Nat /\ To(c) \in Nat /\ From(c) < To(c)
  BY <1>1, WaitingFacts
<1>3. g[c.fd] \in Nat /\ o \in Out /\ o # r
  BY <1>2 DEF Marks, Out, Other
<1>4. h[c.fd] = g[c.fd] + (To(c) - From(c)) /\ \A fd \in Out : fd # c.fd => h[fd] = g[fd]
  BY <1>2 DEF Grown, Marks
<1> HIDE DEF h, c
<1>5. CASE Mine(td, 1, r, g[r], at) /\ g[o] = pr[o]
  <2>1. /\ \A i \in 1..(n + 1) : td[i].fd = r
        /\ From(td[1]) = g[r] /\ To(td[n + 1]) = at
        /\ \A i \in 1..n : From(td[i + 1]) = To(td[i])
    BY <1>0, <1>5 DEF Mine
  <2>2. c.fd = r /\ From(c) = g[r]
    BY <1>0, <2>1 DEF c
  <2>3. h[r] = To(c) /\ h[o] = pr[o]
    BY <1>2, <1>3, <1>4, <1>5, <2>2
  <2>4. Mine(ts, 1, r, To(c), at)
    <3>1. \A i \in 1..n : ts[i].fd = r
      BY <1>0, <2>1
    <3>2. IF n < 1 THEN To(c) = at ELSE From(ts[1]) = To(c) /\ To(ts[n]) = at
      <4>1. CASE n < 1
        BY <1>0, <2>1, <4>1 DEF c
      <4>2. CASE ~(n < 1)
        <5>1. 1 \in 1..n /\ n \in 1..n
          BY <1>0, <4>2
        <5>2. ts[1] = td[1 + 1] /\ ts[n] = td[n + 1] /\ From(td[1 + 1]) = To(td[1])
          BY <1>0, <2>1, <5>1
        <5> QED BY <2>1, <4>2, <5>2 DEF c
      <4> QED BY <4>1, <4>2
    <3>3. \A i \in 1..(n - 1) : From(ts[i + 1]) = To(ts[i])
      <4> TAKE i \in 1..(n - 1)
      <4>1. i \in 1..n /\ i + 1 \in 1..n
        BY <1>0
      <4> QED BY <1>0, <4>1, <2>1
    <3> QED BY <1>0, <3>1, <3>2, <3>3 DEF Mine
  <2> QED BY <2>2, <2>3, <2>4 DEF Queue, c, h
<1>6. CASE /\ 0 < Length(td) /\ td[1].fd = o
           /\ From(td[1]) = g[o] /\ To(td[1]) = pr[o]
           /\ Mine(td, 2, r, g[r], at)
  <2>1. /\ \A i \in 2..(n + 1) : td[i].fd = r
        /\ IF n + 1 < 2 THEN g[r] = at ELSE From(td[2]) = g[r] /\ To(td[n + 1]) = at
        /\ \A i \in 2..n : From(td[i + 1]) = To(td[i])
    BY <1>0, <1>6 DEF Mine
  <2>2. c.fd = o /\ From(c) = g[o] /\ To(c) = pr[o]
    BY <1>6 DEF c
  <2>3. h[o] = pr[o] /\ h[r] = g[r]
    <3>1. h[o] = g[o] + (To(c) - From(c)) /\ g[o] \in Nat
      BY <1>3, <1>4, <2>2, Zenon
    <3>2. h[r] = g[r]
      BY <1>3, <1>4, <2>2, Zenon
    <3> QED BY <1>2, <2>2, <3>1, <3>2
  <2>4. Mine(ts, 1, r, g[r], at)
    <3>1. \A i \in 1..n : ts[i].fd = r
      <4> TAKE i \in 1..n
      <4>1. i + 1 \in 2..(n + 1)
        BY <1>0
      <4> QED BY <1>0, <4>1, <2>1
    <3>2. IF n < 1 THEN g[r] = at ELSE From(ts[1]) = g[r] /\ To(ts[n]) = at
      <4>1. CASE n < 1
        BY <1>0, <2>1, <4>1
      <4>2. CASE ~(n < 1)
        <5>1. 1 \in 1..n /\ n \in 1..n /\ 1 + 1 = 2 /\ ~(n + 1 < 2)
          BY <1>0, <4>2
        <5>2. ts[1] = td[2] /\ ts[n] = td[n + 1]
          BY <1>0, <5>1
        <5> QED BY <2>1, <4>2, <5>1, <5>2
      <4> QED BY <4>1, <4>2
    <3>3. \A i \in 1..(n - 1) : From(ts[i + 1]) = To(ts[i])
      <4> TAKE i \in 1..(n - 1)
      <4>1. i \in 1..n /\ i + 1 \in 1..n /\ i + 1 \in 2..n
        BY <1>0
      <4> QED BY <1>0, <4>1, <2>1
    <3> QED BY <1>0, <3>1, <3>2, <3>3 DEF Mine
  <2> QED BY <2>2, <2>3, <2>4 DEF Queue, c, h
<1> QED BY <1>5, <1>6, Zenon DEF Queue

\* The kernel took k bytes of the first call.
LEMMA TakenPart ==
  ASSUME NEW td \in CallSeq, NEW ts \in CallSeq, NEW r \in Out, NEW g \in Marks, NEW at \in Nat,
         NEW pr \in Marks, Queue(td, r, g, at, pr), NEW n, NEW k, Part(td, ts, n, k)
  PROVE  /\ From(td[1]) = g[td[1].fd]
         /\ Queue(ts, r, Grown(g, td[1].fd, k), at, pr)
<1> DEFINE c == td[1]
           b == ts[1]
           h == Grown(g, c.fd, k)
           o == Other(r)
<1>0. /\ n \in Nat /\ Length(td) = n + 1 /\ Length(ts) = n + 1
      /\ k \in Nat \ {0} /\ k < To(c) - From(c) /\ b = Waits(c.fd, From(c) + k, To(c))
      /\ \A i \in 2..(n + 1) : ts[i] = td[i]
  BY DEF Part
<1>1. c \in Waiting
  BY <1>0, FirstCall
<1>2. c.fd \in Out /\ From(c) \in Nat /\ To(c) \in Nat /\ From(c) < To(c)
  BY <1>1, WaitingFacts
<1>3. g[c.fd] \in Nat /\ o \in Out /\ o # r
  BY <1>2 DEF Marks, Out, Other
<1>4. h[c.fd] = g[c.fd] + k /\ \A fd \in Out : fd # c.fd => h[fd] = g[fd]
  BY <1>0, <1>2 DEF Grown, Marks
<1>5. b.fd = c.fd /\ From(b) = From(c) + k /\ To(b) = To(c)
  <2>1. From(c) + k \in Nat /\ From(c) + k < To(c)
    BY <1>0, <1>2
  <2> QED BY <1>0, <1>2, <2>1, WaitsFacts
<1> HIDE DEF h, c, b
<1>6. CASE Mine(td, 1, r, g[r], at) /\ g[o] = pr[o]
  <2>1. /\ \A i \in 1..(n + 1) : td[i].fd = r
        /\ From(td[1]) = g[r] /\ To(td[n + 1]) = at
        /\ \A i \in 1..n : From(td[i + 1]) = To(td[i])
    BY <1>0, <1>6 DEF Mine
  <2>2. c.fd = r /\ From(c) = g[r]
    BY <1>0, <2>1 DEF c
  <2>3. h[r] = g[r] + k /\ h[o] = pr[o]
    BY <1>3, <1>4, <1>6, <2>2
  <2>4. Mine(ts, 1, r, h[r], at)
    <3>0. \A i \in 1..(n + 1) : ts[i].fd = td[i].fd /\ To(ts[i]) = To(td[i]) /\ (i # 1 => ts[i] = td[i])
      <4> TAKE i \in 1..(n + 1)
      <4>1. CASE i = 1
        BY <4>1, <1>5 DEF b, c
      <4>2. CASE i # 1
        <5>1. i \in 2..(n + 1)
          BY <4>2
        <5> QED BY <1>0, <5>1
      <4> QED BY <4>1, <4>2
    <3>1. \A i \in 1..(n + 1) : ts[i].fd = r
      BY <2>1, <3>0
    <3>2. From(ts[1]) = h[r] /\ To(ts[n + 1]) = at
      BY <1>0, <2>1, <2>2, <2>3, <3>0, <1>5 DEF b, c
    <3>3. \A i \in 1..n : From(ts[i + 1]) = To(ts[i])
      BY <1>0, <2>1, <3>0
    <3>4. ~(n + 1 < 1) /\ (n + 1) - 1 = n
      BY <1>0
    <3> QED BY <1>0, <3>1, <3>2, <3>3, <3>4 DEF Mine
  <2> QED BY <2>2, <2>3, <2>4 DEF Queue, c, h
<1>7. CASE /\ 0 < Length(td) /\ td[1].fd = o
           /\ From(td[1]) = g[o] /\ To(td[1]) = pr[o]
           /\ Mine(td, 2, r, g[r], at)
  <2>1. /\ \A i \in 2..(n + 1) : td[i].fd = r
        /\ IF n + 1 < 2 THEN g[r] = at ELSE From(td[2]) = g[r] /\ To(td[n + 1]) = at
        /\ \A i \in 2..((n + 1) - 1) : From(td[i + 1]) = To(td[i])
    BY <1>0, <1>7 DEF Mine
  <2>2. c.fd = o /\ From(c) = g[o] /\ To(c) = pr[o]
    BY <1>7 DEF c
  <2>3. h[o] = g[o] + k /\ h[r] = g[r]
    BY <1>3, <1>4, <2>2
  <2>4. Mine(ts, 2, r, g[r], at)
    BY <1>0, <2>1 DEF Mine
  <2>5. ts[1].fd = o /\ From(ts[1]) = h[o] /\ To(ts[1]) = pr[o] /\ 0 < Length(ts)
    BY <1>0, <1>5, <2>2, <2>3 DEF b
  <2> QED BY <2>2, <2>3, <2>4, <2>5 DEF Queue, c, h
<1> QED BY <1>6, <1>7, Zenon DEF Queue

\* The queue without its first call, or with another first call.
Popped(td)    == Tail(td)
Recast(c, td) == <<c>> \o Tail(td)

LEMMA PoppedFacts ==
  ASSUME NEW td \in CallSeq, td # << >>
  PROVE  /\ Length(td) \in Nat /\ Length(td) - 1 \in Nat /\ Popped(td) \in CallSeq /\ Length(Popped(td)) = Length(td) - 1
         /\ \A i \in 1..(Length(td) - 1) : Popped(td)[i] = td[i + 1]
         /\ Head(td) = td[1]
  BY DEF CallSeq, Popped, Length

LEMMA CallsConcat ==
  ASSUME NEW s \in Seq(Waiting), NEW u \in Seq(Waiting)
  PROVE  /\ s \o u \in Seq(Waiting) /\ Len(s \o u) = Len(s) + Len(u)
         /\ \A i \in 1..(Len(s) + Len(u)) : (s \o u)[i] = IF i <= Len(s) THEN s[i] ELSE u[i - Len(s)]
  OBVIOUS

LEMMA RecastFacts ==
  ASSUME NEW td \in CallSeq, td # << >>, NEW c \in Waiting
  PROVE  /\ Recast(c, td) \in CallSeq /\ Length(Recast(c, td)) = Length(td) /\ Recast(c, td)[1] = c
         /\ \A i \in 2..Length(td) : Recast(c, td)[i] = td[i]
<1> DEFINE s == <<c>>
           u == Popped(td)
           n == Length(td) - 1
<1>1. /\ n \in Nat /\ u \in Seq(Waiting) /\ Len(u) = n /\ Length(td) = n + 1
      /\ \A i \in 1..n : u[i] = td[i + 1]
  <2>1. Length(td) \in Nat /\ n \in Nat /\ u \in CallSeq /\ Length(u) = n
    BY PoppedFacts
  <2>2. \A i \in 1..n : u[i] = td[i + 1]
    BY PoppedFacts
  <2> QED BY <2>1, <2>2 DEF CallSeq, Length
<1>2. s \in Seq(Waiting) /\ Len(s) = 1 /\ s[1] = c
  OBVIOUS
<1>3. Recast(c, td) = s \o u
  BY DEF Recast, Popped
<1> HIDE DEF s, u, n
<1>4. /\ s \o u \in Seq(Waiting) /\ Len(s \o u) = 1 + n
      /\ \A i \in 1..(1 + n) : (s \o u)[i] = IF i <= 1 THEN s[i] ELSE u[i - 1]
  <2>1. /\ s \o u \in Seq(Waiting) /\ Len(s \o u) = Len(s) + Len(u)
        /\ \A i \in 1..(Len(s) + Len(u)) : (s \o u)[i] = IF i <= Len(s) THEN s[i] ELSE u[i - Len(s)]
    BY <1>1, <1>2, CallsConcat, Zenon
  <2> QED BY <1>1, <1>2, <2>1
<1>5. Length(td) = n + 1
  BY <1>1
<1>6. \A i \in 2..(n + 1) : (s \o u)[i] = td[i]
  <2> TAKE i \in 2..(n + 1)
  <2>1. i \in 1..(1 + n) /\ i - 1 \in 1..n /\ ~(i <= 1) /\ (i - 1) + 1 = i
    BY <1>1
  <2> QED BY <1>1, <1>4, <2>1
<1> QED BY <1>1, <1>2, <1>3, <1>4, <1>5, <1>6 DEF CallSeq, Length

\* Of the output on the two descriptors the kernel took g.
Filed(fl, g) ==
  /\ fl = [fd \in Fds |-> fl[fd]] /\ g \in Marks
  /\ \A fd \in Out : Run(fl[fd], fd, 0, g[fd])

\* k more bytes for fd.
LEMMA FiledMore ==
  ASSUME NEW fl, NEW g, Filed(fl, g), NEW fd \in Out, NEW k \in Nat \ {0}
  PROVE  Filed([fl EXCEPT ![fd] = Join(@, Piece(fd, g[fd], k))], Grown(g, fd, k))
<1> DEFINE h == Grown(g, fd, k)
           b == Join(fl[fd], Piece(fd, g[fd], k))
           gl == [fl EXCEPT ![fd] = b]
<1>1. g \in Marks /\ g[fd] \in Nat /\ fd \in Fds /\ Out \subseteq Fds
  BY Descriptors DEF Filed, Marks, Out
<1>2. h \in Marks /\ h[fd] = g[fd] + k /\ \A x \in Out : x # fd => h[x] = g[x]
  BY <1>1 DEF Marks, Grown
<1>3. Run(b, fd, 0, g[fd] + k)
  BY JoinRun DEF Filed
<1> HIDE DEF b, h
<1>4. gl = [x \in Fds |-> gl[x]] /\ gl[fd] = b /\ \A x \in Out : x # fd => gl[x] = fl[x]
  BY <1>1 DEF Filed
<1> HIDE DEF gl
<1>5. \A x \in Out : Run(gl[x], x, 0, h[x])
  BY <1>2, <1>3, <1>4 DEF Filed
<1>6. Filed(gl, h)
  BY <1>2, <1>4, <1>5 DEF Filed
<1> QED BY <1>6 DEF gl, h, b

\* What one turn of the loop of raw_write does.
LEMMA WriteTurn ==
  ASSUME raw_write, todo \in CallSeq
  PROVE  LET c == todo[1]
             n == To(c) - From(c)
         IN \E k \in 1..n :
              /\ file' = [file EXCEPT ![c.fd] = Join(@, Piece(c.fd, From(c), k))]
              /\ todo' = IF k = n THEN Popped(todo) ELSE Recast(Waits(c.fd, From(c) + k, To(c)), todo)
<1> DEFINE c == todo[1]
           s == From(c)
           e == To(c)
           n == e - s
           p == Piece(c.fd, s, n)
<1>1. todo # << >>
  BY Zenon DEF raw_write
<1>2. Head(todo) = c /\ c \in Waiting
  BY <1>1, PoppedFacts DEF CallSeq, Length
<1>3. s \in Nat /\ e \in Nat /\ s < e /\ c = Waits(c.fd, s, e)
  BY <1>2, WaitingFacts
<1>4. c.bytes = <<p>>
  BY <1>3 DEF Waits, Call
<1>5. p.what = c.fd /\ p.from = s /\ p.n = n /\ n \in Nat /\ n > 0
  BY <1>3 DEF Piece
<1>6. Head(c.bytes) = p /\ Tail(c.bytes) = << >>
  BY <1>4
<1>7. Takes(p) \subseteq 1..n
  BY <1>5 DEF Takes
<1> HIDE DEF c, s, e, n
<1>8. PICK k \in Takes(p) :
        /\ file' = [file EXCEPT ![c.fd] = Join(@, [p EXCEPT !.n = k])]
        /\ todo' = LET left == (IF k = p.n THEN << >> ELSE <<Piece(p.what, p.from + k, p.n - k)>>) \o << >>
                   IN (IF left = << >> THEN << >> ELSE <<Call(c.fd, left)>>) \o Tail(todo)
  BY <1>2, <1>6, Zenon DEF raw_write
<1>9. k \in 1..n
  BY <1>7, <1>8
<1>10. [p EXCEPT !.n = k] = Piece(c.fd, s, k)
  BY DEF Piece
<1>11. file' = [file EXCEPT ![c.fd] = Join(@, Piece(c.fd, s, k))]
  BY <1>8, <1>10, Zenon
<1>12. todo' = IF k = n THEN Popped(todo) ELSE Recast(Waits(c.fd, s + k, e), todo)
  <2>1. Tail(todo) \in Seq(Waiting) /\ << >> \o Tail(todo) = Tail(todo)
    BY <1>1 DEF CallSeq
  <2>2. CASE k = n
    <3>1. << >> \o << >> = << >>
      OBVIOUS
    <3>2. todo' = << >> \o Tail(todo)
      BY <1>5, <1>8, <2>2, <3>1, Zenon
    <3> QED BY <2>1, <2>2, <3>2 DEF Popped
  <2>3. CASE k # n
    <3> DEFINE q == Piece(p.what, p.from + k, p.n - k)
    <3>1. q = Piece(c.fd, s + k, e - (s + k))
      <4>1. n - k = e - (s + k)
        BY <1>3, <1>9 DEF n
      <4> QED BY <1>5, <4>1
    <3> HIDE DEF q
    <3>2. <<q>> \o << >> = <<q>> /\ <<q>> # << >>
      <4>1. Len(<<q>>) = 1 /\ Len(<< >>) = 0
        OBVIOUS
      <4> QED BY <4>1
    <3>3. todo' = <<Call(c.fd, <<q>>)>> \o Tail(todo)
      BY <1>5, <1>8, <2>3, <3>2, Zenon DEF q
    <3> QED BY <2>3, <3>1, <3>3 DEF Recast, Waits
  <2> QED BY <2>2, <2>3
<1> QED BY <1>9, <1>11, <1>12, Zenon DEF c, s, e, n

\* A turn of raw_write keeps everything in order.
LEMMA WriteLined ==
  ASSUME raw_write, NEW g, Filed(file, g), Lined(ring, todo, g, printed)
  PROVE  \E h \in Marks : Filed(file', h) /\ Lined(ring', todo', h, printed')
<1> DEFINE c == todo[1]
           w == To(c) - From(c)
           r == ring.fd
           n == Length(todo) - 1
<1>1. /\ todo \in CallSeq /\ g \in Marks /\ printed \in Marks /\ todo # << >> /\ IsRing(ring)
      /\ r \in Out /\ ring' = ring /\ printed' = printed
  BY Zenon DEF Lined, raw_write, IsRing
<1>2. n \in Nat /\ Length(todo) = n + 1 /\ c \in Waiting
  <2>1. n \in Nat /\ Length(todo) = n + 1
    BY <1>1, PoppedFacts
  <2> QED BY <1>1, <2>1, FirstCall
<1>3. c.fd \in Out /\ From(c) \in Nat /\ To(c) \in Nat /\ From(c) < To(c)
  BY <1>2, WaitingFacts
<1>4. PICK at \in Nat : Run(ring.bytes, r, at, printed[r]) /\ Queue(todo, r, g, at, printed)
  BY DEF Lined
<1>5. PICK k \in 1..w :
        /\ file' = [file EXCEPT ![c.fd] = Join(@, Piece(c.fd, From(c), k))]
        /\ todo' = IF k = w THEN Popped(todo) ELSE Recast(Waits(c.fd, From(c) + k, To(c)), todo)
  BY <1>1, WriteTurn
<1> DEFINE h == Grown(g, c.fd, k)
<1>6. k \in Nat \ {0}
  BY <1>3
<1>7. todo' \in CallSeq /\ From(c) = g[c.fd] /\ Queue(todo', r, h, at, printed)
  <2>1. CASE k = w
    <3>1. todo' = Popped(todo)
      BY <1>5, <2>1
    <3>2. /\ Popped(todo) \in CallSeq /\ Length(Popped(todo)) = n
          /\ \A i \in 1..n : Popped(todo)[i] = todo[i + 1]
      BY <1>1, PoppedFacts, Zenon
    <3>3. todo' \in CallSeq /\ Whole(todo, todo', n)
      BY <1>2, <3>1, <3>2, Zenon DEF Whole, Length
    <3> QED BY <1>1, <1>4, <2>1, <3>3, TakenWhole, Zenon
  <2>2. CASE k # w
    <3> DEFINE b == Waits(c.fd, From(c) + k, To(c))
    <3>1. todo' = Recast(b, todo)
      BY <1>5, <2>2
    <3>2. k < w /\ From(c) + k \in Nat /\ From(c) + k < To(c)
      BY <1>3, <1>6, <2>2
    <3>3. b \in Waiting
      BY <1>3, <3>2, WaitsFacts
    <3>4. /\ Recast(b, todo) \in CallSeq /\ Length(Recast(b, todo)) = Length(todo)
          /\ Recast(b, todo)[1] = b /\ \A i \in 2..Length(todo) : Recast(b, todo)[i] = todo[i]
      BY <1>1, <3>3, RecastFacts, Zenon
    <3>5. todo' \in CallSeq /\ Part(todo, todo', n, k)
      BY <1>2, <1>6, <3>1, <3>2, <3>4, Zenon DEF Part, Length
    <3> QED BY <1>1, <1>4, <3>5, TakenPart, Zenon
  <2> QED BY <2>1, <2>2
<1>8. Filed(file', h)
  BY <1>3, <1>5, <1>6, <1>7, FiledMore, Zenon
<1>9. h \in Marks
  BY <1>8 DEF Filed
<1> HIDE DEF h
<1>10. Lined(ring, todo', h, printed)
  BY <1>1, <1>4, <1>7, <1>9 DEF Lined
<1>11. Lined(ring', todo', h, printed')
  BY <1>1, <1>10
<1> QED BY <1>8, <1>9, <1>11

\* raw_exit empties the ring.
LEMMA ExitLined ==
  ASSUME raw_exit, NEW g, Lined(ring, todo, g, printed)
  PROVE  Lined(ring', todo', g, printed') /\ ring'.bytes = << >>
<1> DEFINE st == Flushed(Unflushed, 1)
           un == Flushed(st, 2)
<1>1. todo = << >> /\ ring' = un.ring /\ todo' = un.calls /\ printed' = printed
  BY DEF raw_exit
<1>2. Good(Unflushed, ring.fd, g, printed)
  BY <1>1 DEF Unflushed, Good
<1>3. 1 \in Out /\ 2 \in Out /\ ring.fd \in Out
  BY DEF Out, Lined, IsRing
<1>4. Good(st, ring.fd, g, printed) /\ (ring.fd = 1 => st.ring.bytes = << >>)
  BY <1>2, <1>3, FlushLined, Zenon
<1> HIDE DEF st
<1>5. Good(un, ring.fd, g, printed) /\ (ring.fd = 2 => un.ring.bytes = << >>)
  BY <1>3, <1>4, FlushLined, Zenon
<1>6. ring.fd = 1 => un = st
  BY <1>4 DEF Flushed, Good
<1> HIDE DEF un
<1>7. un.ring.bytes = << >>
  BY <1>3, <1>4, <1>5, <1>6 DEF Out
<1> QED BY <1>1, <1>5, <1>7 DEF Good
\* A print of n bytes, in the states of its copy loop.
Prints(fd, n) ==
  \E after :
    /\ Loop(after, fd, printed[fd], n) /\ todo = << >> /\ ~exited
    /\ ring' = after[n].ring /\ todo' = after[n].calls /\ printed' = Grown(printed, fd, n)
    /\ file' = file /\ exited' = exited /\ failed' = failed

\* A step of a run that prints.
Turn == raw_write \/ raw_write_fails \/ raw_exit \/ \E fd \in Out, n \in Nat : Prints(fd, n)

\* What a write and the exit leave alone.
LEMMA IoKeeps ==
  /\ raw_write => ring' = ring /\ exited' = exited /\ failed' = failed /\ printed' = printed
  /\ raw_write_fails => exited' = exited /\ failed' /\ printed' = printed
  /\ raw_exit => file' = file /\ failed' = failed /\ printed' = printed
<1>1. raw_write => ring' = ring /\ exited' = exited /\ failed' = failed /\ printed' = printed
  BY Zenon DEF raw_write
<1>2. raw_write_fails => exited' = exited /\ failed' /\ printed' = printed
  BY Zenon DEF raw_write_fails
<1>3. raw_exit => file' = file /\ failed' = failed /\ printed' = printed
  BY Zenon DEF raw_exit
<1> QED BY <1>1, <1>2, <1>3

VARIABLE job

\* Unless a write failed, the kernel, the calls to come and the ring have, in this
\* order, all that was printed.
RingInv ==
  /\ printed \in Marks
  /\ job # "print" => printed[1] = 0 /\ printed[2] = 0 /\ ~exited
  /\ job = "print" =>
       \/ failed
       \/ /\ exited => ring.bytes = << >>
          /\ \E g \in Marks : Filed(file, g) /\ Lined(ring, todo, g, printed)

\* The empty ring, and nothing printed.
LEMMA NothingPrinted ==
  ASSUME ring = [fd |-> 1, bytes |-> << >>], todo = << >>, exited = FALSE,
         file = [fd \in Fds |-> << >>], printed = [fd \in Out |-> 0]
  PROVE  RingInv
<1> DEFINE z == [fd \in Out |-> 0]
<1>1. /\ ring = [fd |-> 1, bytes |-> << >>] /\ todo = << >> /\ exited = FALSE
      /\ file = [fd \in Fds |-> << >>] /\ printed = z
  OBVIOUS
<1>2. z \in Marks /\ z[1] = 0 /\ z[2] = 0 /\ \A fd \in Out : z[fd] = 0 /\ fd \in Fds
  BY Descriptors DEF Marks, Out
<1>3. Filed(file, z)
  BY <1>1, <1>2 DEF Filed, Run
<1>4. IsRing(ring) /\ todo \in CallSeq /\ Length(todo) = 0 /\ ring.fd = 1 /\ ring.bytes = << >>
  BY <1>1 DEF IsRing, CallSeq, Length, Out
<1>5. Run(ring.bytes, 1, 0, 0) /\ Mine(todo, 1, 1, 0, 0)
  <2>1. Run(ring.bytes, 1, 0, 0)
    BY <1>4 DEF Run
  <2>2. \A i \in 1..0 : FALSE
    OBVIOUS
  <2>3. 0 < 1 /\ \A i \in 1..(0 - 1) : FALSE
    OBVIOUS
  <2> QED BY <1>4, <2>1, <2>2, <2>3, Zenon DEF Mine
<1>6. Queue(todo, 1, z, 0, z)
  BY <1>2, <1>5 DEF Queue
<1>7. Lined(ring, todo, z, printed)
  BY <1>1, <1>2, <1>4, <1>5, <1>6 DEF Lined
<1> QED BY <1>1, <1>2, <1>3, <1>7 DEF RingInv

\* Such a step keeps everything in order.
LEMMA RingTurn ==
  ASSUME RingInv, job = "print", job' = job, Turn
  PROVE  RingInv'
<1>1. ASSUME NEW fd \in Out, NEW n \in Nat, Prints(fd, n)
      PROVE  printed' \in Marks /\ failed' = failed
  <2>1. Grown(printed, fd, n) \in Marks
    BY DEF RingInv, Marks, Grown
  <2> QED BY <1>1, <2>1 DEF Prints
<1>2. printed' \in Marks
  BY <1>1, IoKeeps DEF RingInv, Turn
<1>3. CASE failed
  <2>1. failed'
    BY <1>1, <1>3, IoKeeps, Zenon DEF Turn
  <2> QED BY <1>2, <2>1 DEF RingInv
<1>4. CASE ~failed
  <2>1. exited => ring.bytes = << >>
    BY <1>4 DEF RingInv
  <2>2. PICK g \in Marks : Filed(file, g) /\ Lined(ring, todo, g, printed)
    BY <1>4 DEF RingInv
  <2>3. CASE raw_write
    <3>1. \E h \in Marks : Filed(file', h) /\ Lined(ring', todo', h, printed')
      BY <2>2, <2>3, WriteLined
    <3>2. ring' = ring /\ exited' = exited
      BY <2>3, IoKeeps
    <3> QED BY <1>2, <2>1, <3>1, <3>2 DEF RingInv
  <2>4. CASE raw_write_fails
    BY <1>2, <2>4, IoKeeps DEF RingInv
  <2>5. CASE raw_exit
    <3>1. Lined(ring', todo', g, printed') /\ ring'.bytes = << >> /\ file' = file
      BY <2>2, <2>5, ExitLined, IoKeeps
    <3> QED BY <1>2, <2>2, <3>1 DEF RingInv
  <2>6. ASSUME NEW fd \in Out, NEW n \in Nat, Prints(fd, n)
        PROVE  RingInv'
    <3>1. PICK after :
            /\ Loop(after, fd, printed[fd], n) /\ todo = << >> /\ ~exited
            /\ ring' = after[n].ring /\ todo' = after[n].calls /\ printed' = Grown(printed, fd, n)
            /\ file' = file /\ exited' = exited /\ failed' = failed
      BY <2>6 DEF Prints
    <3>2. Good(after[n], fd, g, Grown(printed, fd, n))
      BY <2>2, <3>1, BufferedLined
    <3>3. Lined(ring', todo', g, printed') /\ file' = file /\ ~exited'
      BY <3>1, <3>2 DEF Good
    <3> QED BY <1>2, <2>2, <3>3 DEF RingInv
  <2> QED BY <2>3, <2>4, <2>5, <2>6 DEF Turn
<1> QED BY <1>3, <1>4

\* When no call is left, the kernel took all but what the ring holds.
LEMMA InOrder == RingInv => OutputInOrder
<1> SUFFICES ASSUME RingInv, exited \/ \E fd \in {1, 2} : printed[fd] > 0, todo = << >>, ~failed,
                    NEW fd \in {1, 2}
             PROVE  LET held == IF ring.fd = fd THEN ring.bytes ELSE << >>
                    IN /\ (IF held = << >> THEN file[fd] ELSE Join(file[fd], held[1])) =
                            (IF printed[fd] = 0 THEN << >> ELSE <<Piece(fd, 0, printed[fd])>>)
                       /\ Len(held) <= (IF exited THEN 0 ELSE 1)
  BY Zenon DEF OutputInOrder
<1> DEFINE r == ring.fd
           held == IF r = fd THEN ring.bytes ELSE << >>
           e == printed[fd]
<1>1. job = "print"
  BY DEF RingInv
<1>2. PICK g \in Marks : Filed(file, g) /\ Lined(ring, todo, g, printed)
  BY <1>1 DEF RingInv
<1>3. exited => ring.bytes = << >>
  BY <1>1 DEF RingInv
<1>4. printed \in Marks /\ e \in Nat /\ r \in Out /\ fd \in Out
  BY <1>2 DEF Lined, IsRing, Marks, Out
<1>5. PICK at \in Nat : Run(ring.bytes, r, at, printed[r]) /\ Queue(todo, r, g, at, printed)
  BY <1>2 DEF Lined
<1>6. g[r] = at /\ g[Other(r)] = printed[Other(r)]
  <2>1. Length(todo) = 0
    BY DEF Length
  <2> QED BY <1>5, <2>1 DEF Queue, Mine
<1>7. Run(file[fd], fd, 0, g[fd])
  BY <1>2, <1>4, Zenon DEF Filed
<1>8. \A x, y : Run(x, fd, 0, y) => x = IF y = 0 THEN << >> ELSE <<Piece(fd, 0, y)>>
  BY DEF Run
<1>9. CASE r # fd
  <2>1. Other(r) = fd
    BY <1>4, <1>9 DEF Other, Out
  <2>2. file[fd] = IF e = 0 THEN << >> ELSE <<Piece(fd, 0, e)>>
    BY <1>6, <1>7, <1>8, <2>1
  <2>3. held = << >> /\ Len(held) = 0
    BY <1>9
  <2> QED BY <1>9, <2>2, <2>3
<1>10. CASE r = fd
  <2>1. at <= e /\ ring.bytes = IF at = e THEN << >> ELSE <<Piece(fd, at, e - at)>>
    BY <1>5, <1>10 DEF Run
  <2>2. CASE at = e
    <3>1. held = << >> /\ Len(held) = 0
      BY <1>10, <2>1, <2>2
    <3>2. file[fd] = IF e = 0 THEN << >> ELSE <<Piece(fd, 0, e)>>
      BY <1>6, <1>7, <1>8, <1>10, <2>2
    <3> QED BY <1>10, <3>1, <3>2
  <2>3. CASE at # e
    <3> DEFINE p == Piece(fd, at, e - at)
    <3>1. held = <<p>>
      BY <1>10, <2>1, <2>3
    <3>2. Len(<<p>>) = 1 /\ <<p>>[1] = p /\ Len(<< >>) = 0
      OBVIOUS
    <3>3. held # << >> /\ held[1] = p /\ Len(held) = 1 /\ ~exited
      <4>1. held # << >>
        BY <3>1, <3>2
      <4>2. held[1] = p /\ Len(held) = 1
        BY <3>1, <3>2, Zenon
      <4>3. ~exited
        BY <1>3, <1>10, <4>1, Zenon
      <4> QED BY <4>1, <4>2, <4>3
    <3>4. e - at \in Nat \ {0} /\ at + (e - at) = e
      BY <1>4, <2>1, <2>3
    <3>5. Run(file[fd], fd, 0, at)
      BY <1>6, <1>7, <1>10
    <3>6. Run(Join(file[fd], p), fd, 0, at + (e - at))
      BY <3>4, <3>5, JoinRun
    <3>7. Join(file[fd], held[1]) = IF e = 0 THEN << >> ELSE <<Piece(fd, 0, e)>>
      BY <1>8, <3>3, <3>4, <3>6
    <3>8. (IF exited THEN 0 ELSE 1) = 1 /\ 1 <= 1
      BY <3>3
    <3>9. Len(held) <= (IF exited THEN 0 ELSE 1)
      BY <3>3, <3>8, Zenon
    <3>10. (IF held = << >> THEN file[fd] ELSE Join(file[fd], held[1])) =
             IF e = 0 THEN << >> ELSE <<Piece(fd, 0, e)>>
      BY <3>3, <3>7, Zenon
    <3> QED BY <3>9, <3>10, Zenon
  <2> QED BY <2>2, <2>3
<1> QED BY <1>9, <1>10
-------------------------------------------------------------------------------
(* The debugger's list in ObjectFile.                                      *)

CONSTANTS Jobs, Functions, Externs, Strings, CodeSizes, Spills, MaxAsks, ImageSizes, MaxPrint
VARIABLES stage, el, text_buf, fn, decl, asks, lost

O == INSTANCE ObjectFile

ListInv == List(dbg, live)

\* Nothing is registered.
LEMMA ListInit == O!Init => ListInv
<1> SUFFICES ASSUME O!Init PROVE ListInv
  OBVIOUS
<1>1. /\ live = << >>
      /\ dbg = [first |-> 0, next |-> [e \in Entry |-> 0], prev |-> [e \in Entry |-> 0]]
  BY DEF O!Init, O!NoEntries, Entry
<1>2. live \in EntrySeq /\ Length(live) = 0
  BY <1>1 DEF EntrySeq, Length
<1>3. dbg \in Links /\ dbg.first = 0
  BY <1>1 DEF Links
<1>4. \A i \in 1..0 : FALSE
  OBVIOUS
<1> QED BY <1>2, <1>3, <1>4 DEF ListInv, List, Listed, Distinct, Forward, Backward

\* Compiling keeps the list and the ring; only write_elf_object queues writes.
LEMMA CompileSteps ==
  ASSUME O!Compile
  PROVE  O!Kept \/ \E opened, mapped : O!write_elf_object(opened, mapped)
<1>1. ASSUME NEW mapped, NEW n,
             \/ O!armv7_function(n, mapped) \/ O!rv64_function(n, mapped)
             \/ O!xtensa_function(n, mapped) \/ O!aarch64_begin(n) \/ O!x86_64_begin(n)
      PROVE  O!Kept
  BY <1>1 DEF O!armv7_function, O!rv64_function, O!xtensa_function, O!aarch64_begin,
              O!x86_64_begin, O!Whole, O!Begin, O!End
<1>2. ASSUME NEW mapped, NEW s, NEW k, NEW f,
             \/ O!const_string_a64(s, mapped) \/ O!const_string(s, k, mapped)
             \/ O!call_extern(f, k, mapped) \/ O!load_fn_ptr(f, k, mapped)
             \/ O!new_instance(k, mapped)
      PROVE  O!Kept
  BY <1>2 DEF O!const_string_a64, O!const_string, O!call_extern, O!load_fn_ptr,
              O!new_instance, O!Emitted
<1>3. ASSUME NEW mapped, NEW b, O!aarch64_end(mapped) \/ O!x86_64_end(b, mapped)
      PROVE  O!Kept
  BY <1>3, Zenon DEF O!aarch64_end, O!x86_64_end, O!End, O!Refused
<1> QED BY <1>1, <1>2, <1>3 DEF O!Compile

\* The writers of files keep the list and print nothing.
LEMMA WriterSteps ==
  ASSUME NEW opened, NEW mapped, NEW n, NEW r, NEW refused,
         \/ O!write_elf_object(opened, mapped)
         \/ O!write_pe_executable(n, r, refused, opened) \/ O!compile_to_esp32_bin(n, opened)
  PROVE  /\ job' = job /\ live' = live /\ dbg' = dbg
         /\ job # "print" /\ printed' = printed /\ exited' = exited
<1>1. job # "print"
  BY DEF O!write_elf_object, O!write_pe_executable, O!compile_to_esp32_bin, O!Machine
<1>2. O!Kept \/ UNCHANGED <<job, dbg, live, exited, printed>>
  BY Zenon DEF O!write_elf_object, O!write_pe_executable, O!compile_to_esp32_bin, O!Opened, O!Refused
<1> QED BY <1>1, <1>2 DEF O!Kept, O!iovars

\* Only the two debugger calls change the list.
LEMMA OtherSteps ==
  ASSUME [O!Next]_(O!vars)
  PROVE  \/ live' = live /\ dbg' = dbg
         \/ \E e \in Entry, n \in CodeSizes, ok \in BOOLEAN, mapped \in O!Grants :
              O!register_jit_code(e, n, ok, mapped)
         \/ \E e \in Entry : O!unregister_jit_code(e)
<1> DEFINE Same == live' = live /\ dbg' = dbg
<1>1. O!Compile => Same
  BY CompileSteps, WriterSteps DEF O!Kept
<1>2. ASSUME NEW n, NEW r, NEW refused, NEW opened,
             O!compile_to_esp32_bin(n, opened) \/ O!write_pe_executable(n, r, refused, opened)
      PROVE  Same
  BY <1>2, WriterSteps
<1>3. ASSUME NEW fd, NEW n, O!print(fd, n) \/ O!exit \/ O!kernel
      PROVE  Same
  BY <1>3 DEF O!print, O!exit, O!kernel
<1>4. UNCHANGED O!vars => Same
  BY DEF O!vars
<1> QED BY <1>1, <1>2, <1>3, <1>4 DEF O!Next, Entry

\* register_jit_code.
LEMMA RegisterStep ==
  ASSUME ListInv, NEW e \in Entry, NEW n, NEW ok, NEW mapped, O!register_jit_code(e, n, ok, mapped)
  PROVE  ListInv'
<1>1. dbg' = Pushed(dbg, e) /\ live' = InFront(e, live)
  BY Zenon DEF O!register_jit_code, O!Link, Pushed, Entry, InFront
<1>2. \A i \in DOMAIN live : live[i] # e
  BY DEF O!register_jit_code, O!Link
<1>3. List(dbg', live')
  BY <1>1, <1>2, PushList DEF ListInv
<1> QED BY <1>3 DEF ListInv, List, Length

\* unregister_jit_code.
LEMMA UnregisterStep ==
  ASSUME ListInv, NEW e \in Entry, O!unregister_jit_code(e)
  PROVE  ListInv'
<1>1. PICK r \in DOMAIN live : live[r] = e /\ live' = Without(live, r)
  BY Zenon DEF O!unregister_jit_code, O!Unlink, O!Removed, Without
<1>2. dbg' = Unlinked(dbg, live[r])
  BY <1>1 DEF O!unregister_jit_code, O!Unlink, Unlinked, Entry
<1>3. List(dbg', live')
  BY <1>1, <1>2, UnlinkList DEF ListInv
<1> QED BY <1>3 DEF ListInv, List, Length

\* Every step keeps the list.
LEMMA ListStep ==
  ASSUME ListInv, [O!Next]_(O!vars)
  PROVE  ListInv'
<1>1. CASE live' = live /\ dbg' = dbg
  BY <1>1 DEF ListInv, List, Length
<1> QED BY <1>1, OtherSteps, RegisterStep, UnregisterStep

\* The debugger finds the registered functions, newest first and back, after any
\* order of registrations and removals of any number of functions, whatever else
\* the engine does.
THEOREM DebuggerListWalks == O!Spec => []DebuggerWalks
<1>1. ListInv /\ [O!Next]_(O!vars) => ListInv'
  BY ListStep
<1>2. ListInv => DebuggerWalks
  BY DEF ListInv, List, Listed, Forward, Backward, Length, DebuggerWalks
<1> QED BY ListInit, <1>1, <1>2, PTL DEF O!Spec
-------------------------------------------------------------------------------
(* The output ring in ObjectFile.                                          *)

\* The copy loop in ObjectFile.
LEMMA PrintRuns ==
  ASSUME NEW fd \in Out, NEW n \in Nat, printed \in Marks, O!raw_write_buffered(fd, n)
  PROVE  Prints(fd, n)
<1>1. \A st, x : O!Flushed(st, x) = Flushed(st, x)
  BY Zenon DEF O!Flushed, O!Call, Flushed, Call
<1>2. \A b : O!Size(b) = Size(b)
  BY Zenon DEF O!Size, Size
<1>3. /\ \A x, y, z : O!Piece(x, y, z) = Piece(x, y, z)
      /\ \A b, p : O!Join(b, p) = Join(b, p)
  <2>1. \A x, y, z : O!Piece(x, y, z) = Piece(x, y, z)
    BY Zenon DEF O!Piece, Piece
  <2>2. \A b, p : O!Join(b, p) = Join(b, p)
    BY Zenon DEF O!Join, Join
  <2> QED BY <2>1, <2>2
<1>4. O!Claimed(fd) = Claimed(fd)
  BY <1>1, Zenon DEF O!Claimed, O!Unflushed, Claimed, Unflushed
<1>5. \A st, x : O!Copied(st, fd, x) = Copied(st, fd, x)
  BY <1>1, <1>2, <1>3 DEF O!Copied, Copied
<1> DEFINE from == printed[fd]
           OLoop(f) == f = [i \in 0..n |-> IF i = 0 THEN O!Claimed(fd)
                                           ELSE O!Copied(f[i - 1], fd, from + i - 1)]
           after == CHOOSE f : OLoop(f)
<1>6. \A f : OLoop(f) <=> Loop(f, fd, from, n)
  BY <1>4, <1>5 DEF Loop
<1>7. from \in Nat
  BY DEF Marks
<1>10. O!Buffered(fd, from, n) = after[n]
  BY DEF O!Buffered
<1> HIDE DEF OLoop
<1>8. \E f : OLoop(f)
  BY <1>6, <1>7, LoopRuns
<1>9. Loop(after, fd, from, n)
  BY <1>6, <1>8, Zenon
<1> HIDE DEF after
<1>11. /\ todo = << >> /\ ~exited
       /\ ring' = after[n].ring /\ todo' = after[n].calls /\ printed' = Grown(printed, fd, n)
       /\ file' = file /\ exited' = exited /\ failed' = failed
  BY <1>10 DEF O!raw_write_buffered, Grown
<1> QED BY <1>9, <1>11, Zenon DEF Prints

\* What ObjectFile does with its calls and its end is RawIo's.
LEMMA SameIo ==
  O!raw_write = raw_write /\ O!raw_write_fails = raw_write_fails /\ O!raw_exit = raw_exit
<1>1. O!raw_write = raw_write
  BY Zenon DEF O!raw_write, O!Takes, O!Join, O!Piece, O!Call, raw_write, Takes, Join, Piece, Call
<1>2. O!raw_write_fails = raw_write_fails
  BY Zenon DEF O!raw_write_fails, raw_write_fails
<1>3. O!raw_exit = raw_exit
  BY Zenon DEF O!raw_exit, O!Flushed, O!Unflushed, O!Call, raw_exit, Flushed, Unflushed, Call
<1> QED BY <1>1, <1>2, <1>3

\* Only a run that prints fills the ring, and it does nothing else.
LEMMA PrintSteps ==
  ASSUME [O!Next]_(O!vars), printed \in Marks
  PROVE  /\ job' = job
         /\ \/ job # "print" /\ printed' = printed /\ exited' = exited
            \/ UNCHANGED iovars
            \/ job = "print" /\ Turn
<1> DEFINE Same  == job' = job /\ printed' = printed /\ exited' = exited
           Still == job' = job /\ UNCHANGED iovars
           Fine  == Still \/ (Same /\ job # "print")
<1>1. O!Compile => Fine
  <2>1. O!Kept => Still
    BY DEF O!Kept, O!iovars, iovars
  <2> QED BY <2>1, CompileSteps, WriterSteps
<1> HIDE DEF Fine
<1>2. ASSUME NEW n, NEW r, NEW refused, NEW opened,
             O!compile_to_esp32_bin(n, opened) \/ O!write_pe_executable(n, r, refused, opened)
      PROVE  Fine
  BY <1>2, WriterSteps DEF Fine
<1>3. ASSUME NEW e, NEW n, NEW ok, NEW mapped,
             O!register_jit_code(e, n, ok, mapped) \/ O!unregister_jit_code(e)
      PROVE  Fine
  BY <1>3, Zenon DEF O!register_jit_code, O!unregister_jit_code, O!iovars, Fine
<1>4. ASSUME NEW fd \in {1, 2}, NEW n \in 1..(RingSize + 1), O!print(fd, n)
      PROVE  job' = job /\ job = "print" /\ Turn
  <2>1. fd \in Out /\ n \in Nat
    BY Descriptors DEF Out
  <2>2. job' = job /\ job = "print" /\ O!raw_write_buffered(fd, n)
    BY <1>4 DEF O!print
  <2>3. Prints(fd, n)
    BY <2>1, <2>2, PrintRuns
  <2> QED BY <2>1, <2>2, <2>3 DEF Turn
<1>5. O!exit => job' = job /\ job = "print" /\ Turn
  BY SameIo DEF O!exit, Turn
<1>6. O!kernel => /\ job' = job /\ Turn
                   /\ printed' = printed /\ exited' = exited
  BY SameIo, IoKeeps DEF O!kernel, Turn
<1>7. UNCHANGED O!vars => Fine
  BY DEF O!vars, O!iovars, iovars, Fine
<1>8. Fine => /\ job' = job
               /\ \/ job # "print" /\ printed' = printed /\ exited' = exited
                  \/ UNCHANGED iovars
  BY DEF Fine
<1> QED BY <1>1, <1>2, <1>3, <1>4, <1>5, <1>6, <1>7, <1>8 DEF O!Next

\* Nothing is printed.
LEMMA RingInit == O!Init => RingInv
<1>1. O!Init => /\ ring = [fd |-> 1, bytes |-> << >>] /\ todo = << >> /\ exited = FALSE
                /\ file = [fd \in Fds |-> << >>] /\ printed = [fd \in Out |-> 0]
  BY DEF O!Init, Out
<1> QED BY <1>1, NothingPrinted, Zenon

\* Every step keeps everything in order.
LEMMA RingStep ==
  ASSUME RingInv, [O!Next]_(O!vars)
  PROVE  RingInv'
<1>1. printed \in Marks
  BY DEF RingInv
<1>2. job' = job
  BY <1>1, PrintSteps
<1>3. CASE job # "print" /\ printed' = printed /\ exited' = exited
  BY <1>2, <1>3 DEF RingInv
<1>4. CASE UNCHANGED iovars
  BY <1>2, <1>4 DEF RingInv, iovars
<1> QED BY <1>1, <1>2, <1>3, <1>4, PrintSteps, RingTurn

\* What the program prints reaches each descriptor complete and in order, for
\* every size of the ring, any number of prints of up to a byte more than the ring
\* holds, however they alternate between the descriptors, with the short writes of
\* Takes, as long as the kernel refuses none (raw_write_buffered, raw_flush,
\* raw_exit, raw_write).
THEOREM PrintedInOrder == O!Spec => []OutputInOrder
<1>1. RingInv /\ [O!Next]_(O!vars) => RingInv'
  BY RingStep
<1> QED BY RingInit, <1>1, InOrder, PTL DEF O!Spec
===============================================================================
