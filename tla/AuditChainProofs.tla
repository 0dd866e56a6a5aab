-------------------------- MODULE AuditChainProofs --------------------------
(***************************************************************************)
(* What appending to the chain preserves and what verifying it shows, for  *)
(* every log and every content.                                            *)
(***************************************************************************)
EXTENDS AuditChain, SequenceTheorems, WellFoundedInduction, TLAPS

\* The position of an entry is the one it was appended at.
Numbered(log) == \A i \in 1..Len(log) : log[i].seq = i

\* Appending to a log makes a log: one entry longer, the others where they were.
LEMMA AppendIsLog ==
  ASSUME NEW log, IsLog(log), NEW e
  PROVE  /\ IsLog(Append(log, e))
         /\ Len(log) \in Nat
         /\ Len(Append(log, e)) = Len(log) + 1
         /\ \A i \in 1..Len(log) : Append(log, e)[i] = log[i]
         /\ Append(log, e)[Len(log) + 1] = e
<1> DEFINE S == {log[i] : i \in 1..Len(log)}
           T == S \union {e}
           new == Append(log, e)
           U == {new[i] : i \in 1..Len(new)}
<1>1. log \in Seq(S)
  BY DEF IsLog
<1>2. log \in Seq(T) /\ e \in T
  BY <1>1, SeqMonotonic
<1> HIDE DEF S, T
<1>3. /\ new \in Seq(T)
      /\ Len(new) = Len(log) + 1
      /\ \A i \in 1..Len(log) : new[i] = log[i]
      /\ new[Len(log) + 1] = e
      /\ Len(log) \in Nat
  BY <1>2, AppendProperties, LenProperties
<1>4. T \subseteq U
  BY <1>3 DEF S, T
<1>5. new \in Seq(U)
  BY <1>3, <1>4, SeqMonotonic
<1> QED
  BY <1>3, <1>5 DEF IsLog

\* The empty log is a log, and it is the log of length 0.
LEMMA EmptyLog ==
  /\ IsLog(<<>>)
  /\ Len(<<>>) = 0
  /\ \A log : IsLog(log) => Len(log) \in Nat /\ (Len(log) = 0 <=> log = <<>>)
<1>1. IsLog(<<>>) /\ Len(<<>>) = 0
  BY EmptySeq DEF IsLog
<1>2. ASSUME NEW log, IsLog(log)
      PROVE  Len(log) \in Nat /\ (Len(log) = 0 <=> log = <<>>)
  <2> DEFINE S == {log[i] : i \in 1..Len(log)}
  <2>1. log \in Seq(S)
    BY <1>2 DEF IsLog
  <2> HIDE DEF S
  <2> QED
    BY <2>1, EmptySeq, LenProperties
<1> QED
  BY <1>1, <1>2

\* The entry that continues a numbered, intact log keeps it numbered and intact.
LEMMA NextEntryKeepsChain ==
  ASSUME NEW log, IsLog(log), Numbered(log), Verify(log), NEW content
  PROVE  LET e == NextEntry(LastRow(log), content)
         IN  /\ e.seq = Len(log) + 1
             /\ e.content = content
             /\ Numbered(Append(log, e))
             /\ Verify(Append(log, e))
<1> DEFINE e == NextEntry(LastRow(log), content)
           new == Append(log, e)
           n == Len(log)
<1>1. n \in Nat /\ (n = 0 <=> log = <<>>)
  BY EmptyLog
<1>2. /\ Len(new) = n + 1
      /\ \A i \in 1..n : new[i] = log[i]
      /\ new[n + 1] = e
  BY AppendIsLog
<1>3. /\ e.content = content
      /\ e.hash = Digest(e)
      /\ e.seq = n + 1
      /\ e.prev_hash = IF n = 0 THEN GENESIS ELSE log[n].hash
  <2>1. /\ e.content = content
        /\ e.hash = Digest(e)
        /\ e.seq = Continues(LastRow(log))[1]
        /\ e.prev_hash = Continues(LastRow(log))[2]
    BY DEF NextEntry, Linked, Digest
  <2>2. CASE n = 0
    BY <2>1, <2>2, <1>1 DEF LastRow, Continues
  <2>3. CASE n # 0
    <3>1. LastRow(log) = <<n, log[n].hash>>
      BY <2>3, <1>1 DEF LastRow, Numbered
    <3>2. Continues(LastRow(log)) = <<n + 1, log[n].hash>>
      BY <3>1 DEF Continues
    <3> QED
      BY <2>1, <2>3, <3>2
  <2> QED
    BY <2>2, <2>3
<1> HIDE DEF e, new
<1>4. Numbered(new)
  BY <1>1, <1>2, <1>3 DEF Numbered
<1>5. ASSUME NEW i \in 1..Len(new)
      PROVE  FollowsPredecessor(new, i) /\ HashesToWhatItSays(new, i)
  <2>1. CASE i \in 1..n
    <3>1. FollowsPredecessor(log, i) /\ HashesToWhatItSays(log, i)
      BY <2>1 DEF Verify
    <3>2. new[i] = log[i] /\ (i # 1 => new[i - 1] = log[i - 1])
      BY <2>1, <1>1, <1>2
    <3> QED
      BY <3>1, <3>2 DEF FollowsPredecessor, HashesToWhatItSays
  <2>2. CASE i = n + 1 /\ n = 0
    BY <2>2, <1>2, <1>3 DEF FollowsPredecessor, HashesToWhatItSays
  <2>3. CASE i = n + 1 /\ n # 0
    BY <2>3, <1>1, <1>2, <1>3 DEF FollowsPredecessor, HashesToWhatItSays, Numbered
  <2> QED
    BY <2>1, <2>2, <2>3, <1>1, <1>2
<1> QED
  BY <1>3, <1>4, <1>5 DEF Verify, e, new

-----------------------------------------------------------------------------

\* A nonempty set of naturals has a least member: induction, as a fact on sets.
LEMMA LeastNatural ==
  ASSUME NEW T, T \subseteq Nat, T # {}
  PROVE  \E m \in T : \A k \in T : m <= k
<1> DEFINE R == OpToRel(<, Nat)
<1>1. IsWellFoundedOn(R, Nat)
  BY NatLessThanWellFounded
<1> HIDE DEF R
<1>2. PICK m \in T : \A k \in T : ~ (<<k, m>> \in R)
  BY <1>1, WFMin
<1>3. \A k \in T : ~ (k < m)
  BY <1>2 DEF R, OpToRel
<1> QED
  BY <1>3

\* Equal digests are of equal entries, and no digest is the genesis.
LEMMA DigestInjective ==
  ASSUME NEW e, NEW f
  PROVE  /\ Digest(e) = Digest(f) =>
              e.seq = f.seq /\ e.prev_hash = f.prev_hash /\ e.content = f.content
         /\ Digest(e) # GENESIS
  BY DEF Digest, GENESIS

\* In an intact chain only the first entry links onto the genesis, and every
\* other one onto the hash of the entry before it.
LEMMA LinkOf ==
  ASSUME NEW log, Len(log) \in Nat, Verify(log), NEW i \in 1..Len(log)
  PROVE  /\ log[i].hash = Digest(log[i])
         /\ i = 1 => log[i].prev_hash = GENESIS
         /\ i # 1 => /\ i - 1 \in 1..Len(log)
                     /\ log[i].prev_hash = log[i - 1].hash
                     /\ log[i].prev_hash # GENESIS
<1>1. FollowsPredecessor(log, i) /\ HashesToWhatItSays(log, i)
  BY DEF Verify
<1>2. CASE i = 1
  BY <1>1, <1>2 DEF FollowsPredecessor, HashesToWhatItSays
<1>3. CASE i # 1
  <2>1. i - 1 \in 1..Len(log)
    BY <1>3
  <2>2. HashesToWhatItSays(log, i - 1)
    BY <2>1 DEF Verify
  <2> QED
    BY <1>1, <1>3, <2>1, <2>2, DigestInjective DEF FollowsPredecessor, HashesToWhatItSays
<1> QED
  BY <1>2, <1>3

SameEntry(e, f) ==
  e.seq = f.seq /\ e.prev_hash = f.prev_hash /\ e.content = f.content /\ e.hash = f.hash

\* Two entries with the hash their digest is, and that hash the same.
LEMMA SameHashSameEntry ==
  ASSUME NEW e, NEW f, e.hash = Digest(e), f.hash = Digest(f), e.hash = f.hash
  PROVE  SameEntry(e, f)
<1>1. Digest(e) = Digest(f)
  OBVIOUS
<1>2. e.seq = f.seq /\ e.prev_hash = f.prev_hash /\ e.content = f.content
  BY <1>1, DigestInjective
<1> QED
  BY <1>2 DEF SameEntry

\* Rows that verify, and whose hashes are all hashes the log holds, are the
\* beginning of the log: however rows are edited, moved or removed, without
\* computing a new hash nothing but a cut of the end goes undetected.
THEOREM WithoutNewHashesOnlyACut ==
  ASSUME NEW log, IsLog(log), Numbered(log), Verify(log),
         NEW rows, IsLog(rows), Verify(rows),
         \A i \in 1..Len(rows) : \E j \in 1..Len(log) : rows[i].hash = log[j].hash
  PROVE  \A i \in 1..Len(rows) : i \in 1..Len(log) /\ SameEntry(rows[i], log[i])
<1> DEFINE Agrees(i) == i \in 1..Len(log) /\ SameEntry(rows[i], log[i])
           Bad == {i \in 1..Len(rows) : ~Agrees(i)}
<1>1. Len(log) \in Nat /\ Len(rows) \in Nat
  BY EmptyLog
<1>2. SUFFICES ASSUME Bad # {} PROVE FALSE
  OBVIOUS
<1>3. PICK m \in Bad : \A k \in Bad : m <= k
  <2>1. Bad \subseteq Nat
    BY <1>1
  <2> HIDE DEF Bad
  <2> QED
    BY <2>1, <1>2, LeastNatural
<1>4. /\ m \in 1..Len(rows) /\ ~Agrees(m)
      /\ \A k \in 1..Len(rows) : k < m => Agrees(k)
  <2>1. m \in 1..Len(rows) /\ ~Agrees(m)
    BY <1>3
  <2>2. ASSUME NEW k \in 1..Len(rows), k < m, ~Agrees(k) PROVE FALSE
    <3>1. k \in Bad
      BY <2>2
    <3>2. m <= k
      BY <3>1, <1>3
    <3> QED
      BY <3>2, <2>1, <2>2, <1>1
  <2> QED
    BY <2>1, <2>2
<1>5. PICK j \in 1..Len(log) : rows[m].hash = log[j].hash
  BY <1>4
<1>6. SameEntry(rows[m], log[j])
  <2>1. rows[m].hash = Digest(rows[m])
    BY <1>1, <1>4, LinkOf
  <2>2. log[j].hash = Digest(log[j])
    BY <1>1, LinkOf
  <2> QED
    BY <2>1, <2>2, <1>5, SameHashSameEntry
<1> HIDE DEF Bad
<1>7. CASE m = 1
  <2>1. rows[1].prev_hash = GENESIS
    BY <1>1, <1>4, <1>7, LinkOf
  <2>2. log[j].prev_hash = GENESIS
    BY <2>1, <1>6, <1>7 DEF SameEntry
  <2>3. j = 1
    BY <2>2, <1>1, LinkOf
  <2> QED
    BY <2>3, <1>4, <1>6, <1>7
<1>8. CASE m # 1
  <2>1. m - 1 \in 1..Len(rows) /\ m - 1 < m
    BY <1>1, <1>4, <1>8
  <2>2. m - 1 \in 1..Len(log) /\ SameEntry(rows[m - 1], log[m - 1])
    BY <2>1, <1>4
  <2>3. rows[m].prev_hash = rows[m - 1].hash /\ rows[m].prev_hash # GENESIS
    BY <1>1, <1>4, <1>8, LinkOf
  <2>4. log[j].prev_hash = log[m - 1].hash /\ log[j].prev_hash # GENESIS
    BY <2>2, <2>3, <1>6 DEF SameEntry
  <2>5. j # 1
    BY <2>4, <1>1, LinkOf
  <2>6. j - 1 \in 1..Len(log) /\ log[j].prev_hash = log[j - 1].hash
    BY <2>5, <1>1, LinkOf
  <2>7. log[j - 1].hash = Digest(log[j - 1]) /\ log[m - 1].hash = Digest(log[m - 1])
    BY <2>2, <2>6, <1>1, LinkOf
  <2>8. log[j - 1].seq = log[m - 1].seq
    <3>1. log[j - 1].hash = log[m - 1].hash
      BY <2>4, <2>6
    <3>2. SameEntry(log[j - 1], log[m - 1])
      BY <3>1, <2>7, SameHashSameEntry
    <3> QED
      BY <3>2 DEF SameEntry
  <2>9. log[j - 1].seq = j - 1 /\ log[m - 1].seq = m - 1
    BY <2>2, <2>6 DEF Numbered
  <2>10. j = m
    <3>1. j \in Int /\ m \in Int
      BY <1>1, <1>4
    <3>2. j - 1 = m - 1
      BY <2>8, <2>9
    <3> QED
      BY <3>1, <3>2
  <2> QED
    BY <2>10, <1>4, <1>6
<1> QED
  BY <1>7, <1>8

\* Two intact chains that end in the same hash agree from the end back as far as
\* the shorter one goes.
LEMMA SameHeadAgreesBackwards ==
  ASSUME NEW log, IsLog(log), Verify(log), NEW rows, IsLog(rows), Verify(rows),
         Len(log) > 0, Len(rows) > 0, rows[Len(rows)].hash = log[Len(log)].hash,
         NEW k \in Nat, k < Len(log), k < Len(rows)
  PROVE  SameEntry(rows[Len(rows) - k], log[Len(log) - k])
<1> DEFINE n == Len(log)
           m == Len(rows)
           Agrees(i) == SameEntry(rows[m - i], log[n - i])
           Bad == {i \in 0..k : ~Agrees(i)}
<1>1. n \in Nat /\ m \in Nat /\ k < n /\ k < m
  BY EmptyLog
<1>2. SUFFICES ASSUME ~Agrees(k) PROVE FALSE
  OBVIOUS
<1>3. PICK i \in Bad : \A other \in Bad : i <= other
  <2>1. Bad \subseteq Nat /\ k \in Bad
    BY <1>2
  <2> HIDE DEF Bad
  <2> QED
    BY <2>1, LeastNatural
<1>4. i \in 0..k /\ ~Agrees(i) /\ (i # 0 => Agrees(i - 1))
  <2>1. i \in 0..k /\ ~Agrees(i)
    BY <1>3
  <2>2. ASSUME i # 0, ~Agrees(i - 1) PROVE FALSE
    <3>1. i - 1 \in Bad
      BY <2>1, <2>2
    <3>2. i <= i - 1
      BY <3>1, <1>3
    <3> QED
      BY <3>2, <2>1
  <2> QED
    BY <2>1, <2>2
<1> HIDE DEF Bad
<1>5. m - i \in 1..m /\ n - i \in 1..n
  BY <1>1, <1>4
<1>6. rows[m - i].hash = log[n - i].hash
  <2>1. CASE i = 0
    BY <2>1, <1>1
  <2>2. CASE i # 0
    <3>1. SameEntry(rows[m - (i - 1)], log[n - (i - 1)])
      BY <2>2, <1>4
    <3>2. /\ m - (i - 1) \in 1..m /\ m - (i - 1) # 1 /\ (m - (i - 1)) - 1 = m - i
          /\ n - (i - 1) \in 1..n /\ n - (i - 1) # 1 /\ (n - (i - 1)) - 1 = n - i
      BY <2>2, <1>1, <1>4
    <3> DEFINE p == m - (i - 1)
               q == n - (i - 1)
    <3> HIDE DEF p, q
    <3>3. p \in 1..m /\ p # 1 /\ p - 1 = m - i /\ q \in 1..n /\ q # 1 /\ q - 1 = n - i
          /\ SameEntry(rows[p], log[q])
      BY <3>1, <3>2 DEF p, q
    <3>4. rows[p].prev_hash = rows[m - i].hash
      BY <3>3, <1>1, LinkOf
    <3>5. log[q].prev_hash = log[n - i].hash
      BY <3>3, <1>1, LinkOf
    <3> QED
      BY <3>3, <3>4, <3>5 DEF SameEntry
  <2> QED
    BY <2>1, <2>2
<1>7. rows[m - i].hash = Digest(rows[m - i])
  BY <1>1, <1>5, LinkOf
<1>8. log[n - i].hash = Digest(log[n - i])
  BY <1>1, <1>5, LinkOf
<1>9. Agrees(i)
  BY <1>6, <1>7, <1>8, SameHashSameEntry
<1> QED
  BY <1>4, <1>9

\* The last hash of an intact chain pins the whole of it: rows that verify and
\* end in that hash are the log, entry for entry.
THEOREM HeadPinsEveryEntry ==
  ASSUME NEW log, IsLog(log), Verify(log), NEW rows, IsLog(rows), Verify(rows),
         Len(log) > 0, Len(rows) > 0, rows[Len(rows)].hash = log[Len(log)].hash
  PROVE  /\ Len(rows) = Len(log)
         /\ \A i \in 1..Len(log) : SameEntry(rows[i], log[i])
<1> DEFINE n == Len(log)
           m == Len(rows)
<1>1. n \in Nat /\ m \in Nat
  BY EmptyLog
<1>2. ASSUME m > n PROVE FALSE
  <2> DEFINE p == m - (n - 1)
  <2>1. n - 1 \in Nat /\ n - 1 < n /\ n - 1 < m /\ n - (n - 1) = 1
    BY <1>1, <1>2
  <2>2. SameEntry(rows[p], log[1])
    BY <2>1, SameHeadAgreesBackwards
  <2>3. p \in 1..m /\ p # 1 /\ 1 \in 1..n
    BY <1>1, <1>2
  <2> HIDE DEF p
  <2>4. log[1].prev_hash = GENESIS /\ rows[p].prev_hash # GENESIS
    BY <2>3, <1>1, LinkOf
  <2> QED
    BY <2>2, <2>4 DEF SameEntry
<1>3. ASSUME n > m PROVE FALSE
  <2> DEFINE q == n - (m - 1)
  <2>1. m - 1 \in Nat /\ m - 1 < n /\ m - 1 < m /\ m - (m - 1) = 1
    BY <1>1, <1>3
  <2>2. SameEntry(rows[1], log[q])
    BY <2>1, SameHeadAgreesBackwards
  <2>3. q \in 1..n /\ q # 1 /\ 1 \in 1..m
    BY <1>1, <1>3
  <2> HIDE DEF q
  <2>4. rows[1].prev_hash = GENESIS /\ log[q].prev_hash # GENESIS
    BY <2>3, <1>1, LinkOf
  <2> QED
    BY <2>2, <2>4 DEF SameEntry
<1>4. m = n
  BY <1>1, <1>2, <1>3
<1>5. ASSUME NEW i \in 1..n PROVE SameEntry(rows[i], log[i])
  <2>1. n - i \in Nat /\ n - i < n /\ n - (n - i) = i
    BY <1>1
  <2>2. SameEntry(rows[m - (n - i)], log[n - (n - i)])
    BY <2>1, <1>4, SameHeadAgreesBackwards
  <2> QED
    BY <2>1, <2>2, <1>4
<1> QED
  BY <1>4, <1>5
=============================================================================
