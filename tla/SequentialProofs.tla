-------------------------- MODULE SequentialProofs --------------------------
(***************************************************************************)
(* What the parts that run alone keep, for any values of their constants:  *)
(* the rows verify reads, a golden set that is scored, the files a run of  *)
(* the evaluation reads, the fixtures behind the model port, the contract  *)
(* generated from.                                                         *)
(* Each has an invariant of its own with three lemmas, that it holds at    *)
(* the start, that a step keeps it and what it shows; SequentialInv is     *)
(* their conjunction.                                                      *)
(***************************************************************************)
EXTENDS Sequential, AuditChainProofs, FiniteSetTheorems

-----------------------------------------------------------------------------
\* Finite sets: induction over one, and its rankings.

\* Induction over a finite set, as a fact on the set of its good subsets.
LEMMA AddingOneByOne ==
  ASSUME NEW S, IsFiniteSet(S), NEW Good, {} \in Good,
         \A T \in SUBSET S : \A x \in S \ T : T \in Good => T \union {x} \in Good
  PROVE  S \in Good
<1> DEFINE Bad == {n \in Nat : \E T \in SUBSET S : T \notin Good /\ Cardinality(T) = n}
<1>1. SUFFICES ASSUME S \notin Good PROVE FALSE
  OBVIOUS
<1>2. Bad \subseteq Nat /\ Bad # {}
  BY <1>1, FS_CardinalityType
<1>3. PICK n \in Bad : \A k \in Bad : n <= k
  <2> HIDE DEF Bad
  <2> QED
    BY <1>2, LeastNatural
<1>4. PICK T \in SUBSET S : T \notin Good /\ Cardinality(T) = n
  BY <1>3
<1>5. PICK x \in T : TRUE
  BY <1>4
<1>6. PICK U : U = T \ {x}
  OBVIOUS
<1>7. U \in SUBSET S /\ x \in S \ U /\ T = U \union {x}
  BY <1>5, <1>6
<1>8. IsFiniteSet(T) /\ n \in Nat
  BY <1>3, FS_Subset
<1>9. Cardinality(U) = n - 1 /\ IsFiniteSet(U)
  BY <1>4, <1>5, <1>6, <1>8, FS_RemoveElement
<1>10. n - 1 \in Nat
  BY <1>9, FS_CardinalityType
<1>11. n - 1 \notin Bad
  BY <1>3, <1>10
<1>12. U \in Good
  BY <1>7, <1>9, <1>10, <1>11
<1> QED
  BY <1>4, <1>7, <1>12

\* A finite set can be ranked by any order on it, and its ranking holds all of it.
Orders(R, S) ==
  /\ \A x \in S : <<x, x>> \notin R
  /\ \A x, y \in S : x = y \/ <<x, y>> \in R \/ <<y, x>> \in R
  /\ \A x, y, z \in S : <<x, y>> \in R /\ <<y, z>> \in R => <<x, z>> \in R

Ranks(r, S, R) ==
  /\ r \in [1..Cardinality(S) -> S]
  /\ \A p, q \in 1..Cardinality(S) : p < q => <<r[p], r[q]>> \in R

\* A set that is ordered, finite and not empty has a last member.
LEMMA LastOfOrder ==
  ASSUME NEW S, IsFiniteSet(S), S # {}, NEW R, Orders(R, S)
  PROVE  \E last \in S : \A x \in S \ {last} : <<x, last>> \in R
<1> DEFINE Good == {T \in SUBSET S : T = {} \/ \E last \in T : \A x \in T \ {last} : <<x, last>> \in R}
<1>1. {} \in Good
  OBVIOUS
<1>2. ASSUME NEW T \in SUBSET S, NEW x \in S \ T, T \in Good
      PROVE  T \union {x} \in Good
  <2>1. CASE T = {}
    BY <2>1
  <2>2. CASE T # {}
    <3>1. PICK last \in T : \A y \in T \ {last} : <<y, last>> \in R
      BY <1>2, <2>2
    <3>2. CASE <<x, last>> \in R
      BY <3>1, <3>2
    <3>3. CASE <<x, last>> \notin R
      <4>1. <<last, x>> \in R
        BY <3>1, <3>3 DEF Orders
      <4>2. \A y \in T : <<y, x>> \in R
        BY <3>1, <4>1 DEF Orders
      <4> QED
        BY <4>2
    <3> QED
      BY <3>2, <3>3
  <2> QED
    BY <2>1, <2>2
<1>3. S \in Good
  <2> HIDE DEF Good
  <2> QED
    BY <1>1, <1>2, AddingOneByOne
<1> QED
  BY <1>3

\* It can be ranked: otherwise take a part of it that cannot, and is smallest, and rank
\* it but for its last.
LEMMA RankingExists ==
  ASSUME NEW S, IsFiniteSet(S), NEW R, Orders(R, S)
  PROVE  \E r : Ranks(r, S, R)
<1> DEFINE Bad == {n \in Nat : \E T \in SUBSET S : Cardinality(T) = n /\ \A r : ~Ranks(r, T, R)}
<1>1. \A T \in SUBSET S : IsFiniteSet(T) /\ Cardinality(T) \in Nat /\ Orders(R, T)
  <2>1. \A T \in SUBSET S : IsFiniteSet(T) /\ Cardinality(T) \in Nat
    BY FS_Subset, FS_CardinalityType
  <2>2. \A T \in SUBSET S : Orders(R, T)
    BY DEF Orders
  <2> QED
    BY <2>1, <2>2
<1>2. ASSUME Bad # {} PROVE FALSE
  <2>1. Bad \subseteq Nat
    OBVIOUS
  <2>2. PICK n \in Bad : \A k \in Bad : n <= k
    <3> HIDE DEF Bad
    <3> QED
      BY <1>2, <2>1, LeastNatural
  <2>3. PICK T \in SUBSET S : Cardinality(T) = n /\ \A r : ~Ranks(r, T, R)
    BY <2>2
  <2>4. n \in Nat
    BY <2>2
  <2>5. CASE T = {}
    <3> DEFINE r == [i \in 1..0 |-> i]
    <3>1. Cardinality(T) = 0
      BY <2>5, FS_EmptySet
    <3>2. r \in [1..0 -> T]
      OBVIOUS
    <3>3. Ranks(r, T, R)
      BY <3>1, <3>2 DEF Ranks
    <3> QED
      BY <2>3, <3>3
  <2>6. CASE T # {}
    <3>part. IsFiniteSet(T) /\ Orders(R, T)
      BY <1>1
    <3>last. \E last \in T : \A x \in T \ {last} : <<x, last>> \in R
      BY <2>6, <3>part, LastOfOrder
    <3>1. PICK last \in T : \A x \in T \ {last} : <<x, last>> \in R
      BY <3>last
    <3>2. PICK U \in SUBSET S : U = T \ {last}
      OBVIOUS
    <3>3. Cardinality(U) = n - 1
      BY <1>1, <2>3, <3>1, <3>2, FS_RemoveElement
    <3>4. n - 1 \in Nat
      BY <1>1, <3>3
    <3>5. n - 1 \notin Bad
      <4> HIDE DEF Bad
      <4> QED
        BY <2>2, <2>4, <3>4
    <3>6. PICK r : Ranks(r, U, R)
      BY <3>3, <3>4, <3>5
    <3> DEFINE t == [i \in 1..n |-> IF i = n THEN last ELSE r[i]]
    <3>7. r \in [1..n - 1 -> U] /\ \A p, q \in 1..n - 1 : p < q => <<r[p], r[q]>> \in R
      BY <3>3, <3>6 DEF Ranks
    <3>8. \A i \in 1..n : i = n \/ i \in 1..n - 1
      BY <2>4
    <3>9. t \in [1..n -> T]
      BY <3>2, <3>7, <3>8
    <3>10. \A p, q \in 1..n : p < q => <<t[p], t[q]>> \in R
      <4> SUFFICES ASSUME NEW p \in 1..n, NEW q \in 1..n, p < q PROVE <<t[p], t[q]>> \in R
        OBVIOUS
      <4>1. p \in 1..n - 1 /\ t[p] = r[p]
        BY <2>4
      <4>2. CASE q = n
        BY <3>1, <3>2, <3>7, <4>1, <4>2
      <4>3. CASE q # n
        BY <3>7, <3>8, <4>1, <4>3
      <4> QED
        BY <4>2, <4>3
    <3>11. Ranks(t, T, R)
      BY <2>3, <3>9, <3>10 DEF Ranks
    <3> QED
      BY <2>3, <3>11
  <2> QED
    BY <2>5, <2>6
<1>3. Cardinality(S) \notin Bad
  BY <1>2
<1> QED
  BY <1>1, <1>3

\* A ranking holds every member, each once.
LEMMA RankingIsOnto ==
  ASSUME NEW S, IsFiniteSet(S), NEW R, Orders(R, S), NEW r, Ranks(r, S, R)
  PROVE  /\ Cardinality(S) \in Nat
         /\ \A p, q \in 1..Cardinality(S) : r[p] = r[q] => p = q
         /\ \A x \in S : \E p \in 1..Cardinality(S) : r[p] = x
<1>1. PICK n \in Nat : n = Cardinality(S)
  BY FS_CardinalityType
<1>2. PICK I : I = 1..n /\ IsFiniteSet(I) /\ Cardinality(I) = n
  BY FS_Interval
<1>3. \A p, q \in 1..n : r[p] = r[q] => p = q
  <2> SUFFICES ASSUME NEW p \in 1..n, NEW q \in 1..n, p < q PROVE r[p] # r[q]
    OBVIOUS
  <2>1. <<r[p], r[q]>> \in R /\ r[p] \in S
    BY <1>1 DEF Ranks
  <2> QED
    BY <2>1 DEF Orders
<1>4. r \in Injection(I, S)
  BY <1>1, <1>2, <1>3 DEF Ranks, Injection, IsInjective
<1>5. r \in Surjection(I, S)
  BY <1>1, <1>2, <1>4, FS_Injection
<1> QED
  BY <1>1, <1>2, <1>3, <1>5 DEF Surjection

-----------------------------------------------------------------------------
\* AuditRows.

Sorted(T, s) == s \in [1..Cardinality(T) -> T] /\ Rows!InOrder(s)

\* Rows of which no two share a position can be put in order.
LEMMA SortingExists ==
  ASSUME NEW most \in Nat, NEW T, IsFiniteSet(T), \A r \in T : r.seq \in 0..most,
         \A r, q \in T : r.seq = q.seq => r = q
  PROVE  \E s : Sorted(T, s)
<1> DEFINE Earlier == {pair \in T \X T : pair[1].seq < pair[2].seq}
<1>1. \A r, q \in T : <<r, q>> \in Earlier <=> r.seq < q.seq
  OBVIOUS
<1>2. \A r \in T : r.seq \in Nat
  OBVIOUS
<1> HIDE DEF Earlier
<1>3. Orders(Earlier, T)
  <2>1. \A r \in T : <<r, r>> \notin Earlier
    BY <1>1, <1>2
  <2>2. \A r, q \in T : r = q \/ <<r, q>> \in Earlier \/ <<q, r>> \in Earlier
    <3> SUFFICES ASSUME NEW r \in T, NEW q \in T PROVE r = q \/ r.seq < q.seq \/ q.seq < r.seq
      BY <1>1
    <3>1. r.seq \in Nat /\ q.seq \in Nat
      BY <1>2
    <3>2. r.seq = q.seq => r = q
      OBVIOUS
    <3> QED
      BY <3>1, <3>2
  <2>3. \A r, q, p \in T : <<r, q>> \in Earlier /\ <<q, p>> \in Earlier => <<r, p>> \in Earlier
    BY <1>1, <1>2
  <2> QED
    BY <2>1, <2>2, <2>3 DEF Orders
<1>4. PICK s : Ranks(s, T, Earlier)
  BY <1>3, RankingExists
<1>5. s \in [1..Cardinality(T) -> T]
  BY <1>4 DEF Ranks
<1>6. \A i, j \in DOMAIN s : i < j => s[i].seq < s[j].seq
  BY <1>1, <1>4, <1>5 DEF Ranks
<1> QED
  BY <1>5, <1>6 DEF Sorted, Rows!InOrder

\* A row has an entry's columns and no other.
RowOf(seq, prev_hash, content, hash) ==
  [seq |-> seq, prev_hash |-> prev_hash, content |-> content, hash |-> hash]
IsRow(row) == row = RowOf(row.seq, row.prev_hash, row.content, row.hash)

LEMMA Columns ==
  ASSUME NEW seq, NEW prev_hash, NEW content, NEW hash
  PROVE  LET row == RowOf(seq, prev_hash, content, hash)
         IN  /\ row.seq = seq /\ row.prev_hash = prev_hash
             /\ row.content = content /\ row.hash = hash
             /\ IsRow(row)
  BY DEF RowOf, IsRow

LEMMA Edited ==
  ASSUME NEW row, IsRow(row), NEW value
  PROVE  /\ [row EXCEPT !.content = value] = RowOf(row.seq, row.prev_hash, value, row.hash)
         /\ [row EXCEPT !.seq = value] = RowOf(value, row.prev_hash, row.content, row.hash)
         /\ [row EXCEPT !.prev_hash = value] = RowOf(row.seq, value, row.content, row.hash)
         /\ [row EXCEPT !.hash = value] = RowOf(row.seq, row.prev_hash, row.content, value)
<1> DEFINE r == RowOf(row.seq, row.prev_hash, row.content, row.hash)
<1>1. row = r
  BY DEF IsRow
<1>2. /\ [r EXCEPT !.content = value] = RowOf(row.seq, row.prev_hash, value, row.hash)
      /\ [r EXCEPT !.seq = value] = RowOf(value, row.prev_hash, row.content, row.hash)
      /\ [r EXCEPT !.prev_hash = value] = RowOf(row.seq, value, row.content, row.hash)
      /\ [r EXCEPT !.hash = value] = RowOf(row.seq, row.prev_hash, row.content, value)
  BY DEF RowOf
<1> HIDE DEF r
<1> QED
  BY <1>1, <1>2

Written == {log[i] : i \in 1..Len(log)}

\* The log is a chain; the rows have positions of their own, those of the log
\* until the first change; and no hash is new that was not computed anew.
RowsInv ==
  /\ IsLog(log) /\ Numbered(log) /\ Verify(log)
  /\ Len(log) <= MaxEntries
  /\ \A i \in 1..Len(log) : IsRow(log[i])
  /\ IsFiniteSet(rows)
  /\ \A row \in rows : IsRow(row) /\ row.seq \in 1..MaxEntries + 1
  /\ \A row, other \in rows : row.seq = other.seq => row = other
  /\ changes \in Nat
  /\ changes = 0 => rows \subseteq Written
  /\ ~rehashed => \A row \in rows : row.hash \in Rows!Hashes

LEMMA SameChain ==
  /\ \A entry : Rows!Digest(entry) = Digest(entry)
  /\ \A previous, content : Rows!NextEntry(previous, content) = NextEntry(previous, content)
  /\ \A entries : Rows!LastRow(entries) = LastRow(entries)
  /\ \A entries : Rows!Verify(entries) <=> Verify(entries)
<1>1. \A entry : Rows!Digest(entry) = Digest(entry)
  BY DEF Rows!Digest, Digest
<1>2. \A previous, content : Rows!NextEntry(previous, content) = NextEntry(previous, content)
  BY DEF Rows!NextEntry, NextEntry, Rows!Linked, Linked, Rows!Continues, Continues,
         Rows!Digest, Digest, Rows!GENESIS, GENESIS
<1>3. \A entries : Rows!LastRow(entries) = LastRow(entries)
  BY DEF Rows!LastRow, LastRow
<1>4. \A entries : Rows!Verify(entries) <=> Verify(entries)
  BY DEF Rows!Verify, Verify, Rows!FollowsPredecessor, FollowsPredecessor,
         Rows!HashesToWhatItSays, HashesToWhatItSays, Rows!Digest, Digest, Rows!GENESIS, GENESIS
<1> QED
  BY <1>1, <1>2, <1>3, <1>4

\* Whatever row takes a row's place, at a position that is its own.
LEMMA ReplaceKeeps ==
  ASSUME RowsInv, NEW row \in rows, NEW by, Rows!Replace(row, by),
         by = {} \/ \E new : /\ by = {new} /\ IsRow(new)
                             /\ new.seq \in 1..MaxEntries + 1
                             /\ \A other \in rows \ {row} : other.seq # new.seq
                             /\ ~rehashed' => new.hash \in Rows!Hashes,
         ~rehashed' => ~rehashed
  PROVE  RowsInv'
<1>1. log' = log /\ rows' = (rows \ {row}) \union by /\ changes' = changes + 1
  BY DEF Rows!Replace
<1>2. changes' \in Nat /\ changes' # 0
  BY <1>1 DEF RowsInv
<1>3. /\ IsLog(log)' /\ Numbered(log)' /\ Verify(log)' /\ Len(log') <= MaxEntries
      /\ \A i \in 1..Len(log') : IsRow(log'[i])
  BY <1>1 DEF RowsInv
<1>4. IsFiniteSet(rows \ {row})
  BY FS_RemoveElement DEF RowsInv
<1>5. /\ \A r \in rows \ {row} : IsRow(r) /\ r.seq \in 1..MaxEntries + 1
      /\ \A r, q \in rows \ {row} : r.seq = q.seq => r = q
      /\ ~rehashed' => \A r \in rows \ {row} : r.hash \in Rows!Hashes
  BY DEF RowsInv
<1>6. Rows!Hashes' = Rows!Hashes
  BY <1>1 DEF Rows!Hashes
<1>7. CASE by = {}
  BY <1>1, <1>2, <1>3, <1>4, <1>5, <1>6, <1>7 DEF RowsInv
<1>8. CASE by # {}
  <2>1. PICK new : /\ by = {new} /\ IsRow(new)
                   /\ new.seq \in 1..MaxEntries + 1
                   /\ \A other \in rows \ {row} : other.seq # new.seq
                   /\ ~rehashed' => new.hash \in Rows!Hashes
    BY <1>8
  <2> DEFINE kept == rows \ {row}
  <2>2. rows' = kept \union {new}
    BY <1>1, <2>1
  <2>3. IsFiniteSet(kept \union {new})
    BY <1>4, FS_AddElement
  <2> HIDE DEF kept
  <2>4. IsFiniteSet(rows')
    BY <2>2, <2>3
  <2>5. \A r \in rows' : IsRow(r) /\ r.seq \in 1..MaxEntries + 1
    BY <1>5, <2>1, <2>2 DEF kept
  <2>6. \A r, q \in rows' : r.seq = q.seq => r = q
    BY <1>5, <2>1, <2>2 DEF kept
  <2>7. ~rehashed' => \A r \in rows' : r.hash \in Rows!Hashes'
    BY <1>5, <1>6, <2>1, <2>2 DEF kept
  <2> QED
    BY <1>2, <1>3, <2>4, <2>5, <2>6, <2>7 DEF RowsInv
<1> QED
  BY <1>7, <1>8

\* The store's own append: the next position, on the end of the chain.
LEMMA AppendKeeps ==
  ASSUME RowsInv, Rows!StoreAppends
  PROVE  RowsInv'
<1>1. PICK content \in Contents :
        LET entry == Rows!NextEntry(Rows!LastRow(log), content)
        IN  log' = Append(log, entry) /\ rows' = rows \union {entry}
  BY DEF Rows!StoreAppends
<1> DEFINE entry == NextEntry(LastRow(log), content)
<1>2. log' = Append(log, entry) /\ rows' = rows \union {entry}
  BY <1>1, SameChain
<1>3. changes = 0 /\ Len(log) < MaxEntries /\ changes' = changes /\ rehashed' = rehashed
  BY DEF Rows!StoreAppends
<1>4. IsLog(log) /\ Numbered(log) /\ Verify(log) /\ MaxEntries \in Nat
  BY BoundsAssumption DEF RowsInv
<1>5. IsRow(entry)
  BY DEF NextEntry, Linked, IsRow, RowOf
<1>6. PICK n \in Nat : n = Len(log)
  BY <1>4, EmptyLog
<1> HIDE DEF entry
<1>7. /\ entry.seq = n + 1 /\ Numbered(Append(log, entry)) /\ Verify(Append(log, entry))
  BY <1>4, <1>6, NextEntryKeepsChain DEF entry
<1>8. /\ IsLog(Append(log, entry)) /\ Len(Append(log, entry)) = n + 1
      /\ \A i \in 1..n : Append(log, entry)[i] = log[i]
      /\ Append(log, entry)[n + 1] = entry
  BY <1>4, <1>6, AppendIsLog
<1>9. IsLog(log)' /\ Numbered(log)' /\ Verify(log)' /\ Len(log') <= MaxEntries
  BY <1>2, <1>3, <1>4, <1>6, <1>7, <1>8 DEF Numbered
<1>10. \A i \in 1..Len(log') : i \in 1..n \/ i = n + 1
  BY <1>2, <1>8
<1>11. \A i \in 1..Len(log') : IsRow(log'[i])
  BY <1>2, <1>5, <1>6, <1>8, <1>10 DEF RowsInv
<1>12. \A row \in rows : \E i \in 1..n : row = log[i] /\ row.seq = i
  BY <1>3, <1>6 DEF RowsInv, Written, Numbered
<1>13. IsFiniteSet(rows')
  BY <1>2, FS_AddElement DEF RowsInv
<1>14. \A row \in rows' : IsRow(row) /\ row.seq \in 1..MaxEntries + 1
  BY <1>2, <1>3, <1>4, <1>5, <1>6, <1>7 DEF RowsInv
<1>15. \A row, other \in rows' : row.seq = other.seq => row = other
  <2>1. \A row \in rows : row.seq # n + 1
    BY <1>12
  <2> QED
    BY <1>2, <1>7, <2>1 DEF RowsInv
<1>16. rows' \subseteq Written'
  <2>1. Written' = {log'[i] : i \in 1..n + 1}
    BY <1>2, <1>8 DEF Written
  <2>2. \A row \in rows : \E i \in 1..n + 1 : row = log'[i]
    BY <1>2, <1>8, <1>12
  <2>3. entry = log'[n + 1] /\ n + 1 \in 1..n + 1
    BY <1>2, <1>8
  <2> QED
    BY <1>2, <2>1, <2>2, <2>3
<1>17. \A row \in rows' : row.hash \in Rows!Hashes'
  BY <1>16 DEF Written, Rows!Hashes
<1> QED
  BY <1>3, <1>9, <1>11, <1>13, <1>14, <1>15, <1>16, <1>17 DEF RowsInv

LEMMA RowsStep ==
  ASSUME RowsInv, Rows!Next
  PROVE  RowsInv'
<1>1. CASE Rows!StoreAppends
  BY <1>1, AppendKeeps
<1>2. ASSUME NEW row \in rows,
             \/ Rows!EditContent(row)
             \/ Rows!EditSeq(row)
             \/ Rows!EditPrevHash(row)
             \/ Rows!EditHash(row)
             \/ Rows!RemoveRow(row)
             \/ Rows!Rehash(row)
      PROVE  RowsInv'
  <2>1. /\ IsRow(row) /\ row.seq \in 1..MaxEntries + 1
        /\ \A other \in rows \ {row} : other.seq # row.seq
        /\ ~rehashed => row.hash \in Rows!Hashes
    BY DEF RowsInv
  <2>2. CASE Rows!EditContent(row)
    <3>1. PICK content \in Contents : Rows!Replace(row, {[row EXCEPT !.content = content]})
      BY <2>2 DEF Rows!EditContent
    <3> DEFINE new == RowOf(row.seq, row.prev_hash, content, row.hash)
    <3>2. [row EXCEPT !.content = content] = new
      BY <2>1, Edited
    <3>3. new.seq = row.seq /\ new.hash = row.hash /\ IsRow(new)
      BY Columns
    <3>4. rehashed' = rehashed
      BY <2>2 DEF Rows!EditContent
    <3> HIDE DEF new
    <3> QED
      BY <2>1, <3>1, <3>2, <3>3, <3>4, ReplaceKeeps
  <2>3. CASE Rows!EditSeq(row)
    <3>1. PICK seq \in Rows!FreeSeqs : Rows!Replace(row, {[row EXCEPT !.seq = seq]})
      BY <2>3 DEF Rows!EditSeq
    <3> DEFINE new == RowOf(seq, row.prev_hash, row.content, row.hash)
    <3>2. [row EXCEPT !.seq = seq] = new
      BY <2>1, Edited
    <3>3. new.seq = seq /\ new.hash = row.hash /\ IsRow(new)
      BY Columns
    <3>4. rehashed' = rehashed
      BY <2>3 DEF Rows!EditSeq
    <3>5. seq \in 1..MaxEntries + 1 /\ \A other \in rows : other.seq # seq
      BY DEF Rows!FreeSeqs
    <3> HIDE DEF new
    <3> QED
      BY <2>1, <3>1, <3>2, <3>3, <3>4, <3>5, ReplaceKeeps
  <2>4. CASE Rows!EditPrevHash(row)
    <3>1. PICK hash \in Rows!Hashes \union {Rows!GENESIS} :
            Rows!Replace(row, {[row EXCEPT !.prev_hash = hash]})
      BY <2>4 DEF Rows!EditPrevHash
    <3> DEFINE new == RowOf(row.seq, hash, row.content, row.hash)
    <3>2. [row EXCEPT !.prev_hash = hash] = new
      BY <2>1, Edited
    <3>3. new.seq = row.seq /\ new.hash = row.hash /\ IsRow(new)
      BY Columns
    <3>4. rehashed' = rehashed
      BY <2>4 DEF Rows!EditPrevHash
    <3> HIDE DEF new
    <3> QED
      BY <2>1, <3>1, <3>2, <3>3, <3>4, ReplaceKeeps
  <2>5. CASE Rows!EditHash(row)
    <3>1. PICK hash \in Rows!Hashes : Rows!Replace(row, {[row EXCEPT !.hash = hash]})
      BY <2>5 DEF Rows!EditHash
    <3> DEFINE new == RowOf(row.seq, row.prev_hash, row.content, hash)
    <3>2. [row EXCEPT !.hash = hash] = new
      BY <2>1, Edited
    <3>3. new.seq = row.seq /\ new.hash = hash /\ IsRow(new)
      BY Columns
    <3>4. rehashed' = rehashed
      BY <2>5 DEF Rows!EditHash
    <3> HIDE DEF new
    <3> QED
      BY <2>1, <3>1, <3>2, <3>3, <3>4, ReplaceKeeps
  <2>6. CASE Rows!RemoveRow(row)
    <3>1. Rows!Replace(row, {}) /\ rehashed' = rehashed
      BY <2>6 DEF Rows!RemoveRow
    <3> QED
      BY <3>1, ReplaceKeeps
  <2>7. CASE Rows!Rehash(row)
    <3> DEFINE hash == Rows!Digest(row)
               new == RowOf(row.seq, row.prev_hash, row.content, hash)
    <3>1. Rows!Replace(row, {[row EXCEPT !.hash = hash]}) /\ rehashed' = TRUE
      BY <2>7 DEF Rows!Rehash
    <3> HIDE DEF hash
    <3>2. [row EXCEPT !.hash = hash] = new
      BY <2>1, Edited
    <3>3. new.seq = row.seq /\ new.hash = hash /\ IsRow(new)
      BY Columns
    <3> HIDE DEF new
    <3> QED
      BY <2>1, <3>1, <3>2, <3>3, ReplaceKeeps
  <2> QED
    BY <1>2, <2>2, <2>3, <2>4, <2>5, <2>6, <2>7
<1> QED
  BY <1>1, <1>2 DEF Rows!Next

LEMMA RowsStart ==
  ASSUME Rows!Init
  PROVE  RowsInv
<1>1. log = <<>> /\ rows = {} /\ changes = 0
  BY DEF Rows!Init
<1>2. IsLog(log) /\ Len(log) = 0
  BY <1>1, EmptyLog DEF IsLog
<1> QED
  BY <1>1, <1>2, FS_EmptySet, BoundsAssumption DEF RowsInv, Numbered, Verify

\* A set of rows is counted alike wherever it is counted.
LEMMA RowsCounted == \A S : Rows!Cardinality(S) = Cardinality(S)
  BY DEF Rows!Cardinality, Cardinality

\* The rows as verify reads them: every entry is a row, and they are in order.
LEMMA EntriesAreRows ==
  ASSUME RowsInv
  PROVE  /\ IsLog(Rows!Entries)
         /\ Len(Rows!Entries) \in Nat
         /\ \A i \in 1..Len(Rows!Entries) : Rows!Entries[i] \in rows
<1>1. PICK most \in Nat : most = MaxEntries + 1
  BY BoundsAssumption
<1>2. PICK T : T = rows
  OBVIOUS
<1>3. IsFiniteSet(T) /\ (\A r \in T : r.seq \in 0..most) /\ \A r, q \in T : r.seq = q.seq => r = q
  BY <1>1, <1>2 DEF RowsInv
<1>4. \E s : Sorted(T, s)
  BY <1>3, SortingExists
<1>5. Sorted(T, Rows!Entries)
  BY <1>2, <1>4, RowsCounted DEF Sorted, Rows!Entries
<1>6. Cardinality(T) \in Nat
  BY <1>3, FS_CardinalityType
<1>7. PICK entries : entries = Rows!Entries
  OBVIOUS
<1>8. entries \in [1..Cardinality(T) -> T]
  BY <1>5, <1>7 DEF Sorted
<1>9. entries \in Seq(T) /\ Len(entries) \in Nat
  BY <1>6, <1>8
<1>10. entries \in Seq({entries[i] : i \in 1..Len(entries)})
  BY <1>9
<1> QED
  BY <1>2, <1>7, <1>9, <1>10 DEF IsLog

LEMMA EntryIs ==
  ASSUME NEW e, NEW f, IsRow(e), IsRow(f), SameEntry(e, f)
  PROVE  e = f
  BY DEF IsRow, SameEntry

LEMMA SameSequence ==
  ASSUME NEW s, NEW t, IsLog(s), IsLog(t), Len(s) = Len(t), \A i \in 1..Len(s) : s[i] = t[i]
  PROVE  s = t
<1> DEFINE S == {s[i] : i \in 1..Len(s)}  T == {t[i] : i \in 1..Len(t)}
<1>1. s \in Seq(S) /\ t \in Seq(T)
  BY DEF IsLog
<1>2. S = T
  OBVIOUS
<1> HIDE DEF S, T
<1> QED
  BY <1>1, <1>2, SeqEqual

\* A log that agrees with another as far as it goes is a beginning of it.
LEMMA CutIsPrefix ==
  ASSUME NEW s, NEW t, IsLog(s), IsLog(t), Len(s) \in Nat, Len(t) \in Nat,
         \A i \in 1..Len(s) : i \in 1..Len(t) /\ s[i] = t[i]
  PROVE  IsPrefix(s, t)
<1>1. Len(s) <= Len(t)
  <2>1. Len(s) = 0 \/ Len(s) \in 1..Len(s)
    OBVIOUS
  <2> QED
    BY <2>1
<1> DEFINE S == {s[i] : i \in 1..Len(s)}  T == {t[i] : i \in 1..Len(t)}  n == Len(s)
           cut == SubSeq(t, 1, n)
<1>2. s \in Seq(S) /\ S \subseteq T
  BY DEF IsLog
<1>3. s \in Seq(T)
  BY <1>2, SeqMonotonic
<1>4. \A i \in 1..n : t[i] \in T
  BY <1>1
<1> HIDE DEF S, T
<1>5. /\ cut \in Seq(T) /\ Len(cut) = n
      /\ \A i \in 1..n : cut[i] = t[i]
  <2> HIDE DEF n
  <2>1. n \in Nat /\ 1 \in Int /\ n \in Int
    BY DEF n
  <2>2. /\ cut \in Seq(T) /\ Len(cut) = IF 1 <= n THEN n - 1 + 1 ELSE 0
        /\ \A i \in 1..n - 1 + 1 : cut[i] = t[1 + i - 1]
    BY <1>4, <2>1, SubSeqProperties
  <2> HIDE DEF cut
  <2> QED
    BY <2>1, <2>2
<1>6. cut = s
  <2> HIDE DEF cut
  <2> QED
    BY <1>3, <1>5, SeqEqual
<1>7. SubSeq(s, 1, n) = s
  BY <1>3, SubSeqFull
<1> QED
  BY <1>1, <1>6, <1>7 DEF IsPrefix

\* What is kept of the rows shows both properties.
LEMMA RowsShow ==
  ASSUME RowsInv
  PROVE  OnlyACutVerifies /\ HeadPinsTheChain
<1> DEFINE entries == Rows!Entries
<1>1. /\ IsLog(entries) /\ Len(entries) \in Nat
      /\ \A i \in 1..Len(entries) : entries[i] \in rows /\ IsRow(entries[i])
  BY EntriesAreRows DEF RowsInv
<1>2. PICK written : written = log
  OBVIOUS
<1>3. /\ IsLog(written) /\ Numbered(written) /\ Verify(written) /\ Len(written) \in Nat
      /\ \A i \in 1..Len(written) : IsRow(written[i])
  BY <1>2, EmptyLog DEF RowsInv
<1>4. PICK read : read = entries
  OBVIOUS
<1> HIDE DEF entries
<1>5. ASSUME ~rehashed, Rows!Verify(read)
      PROVE  Rows!IsPrefix(read, written)
  <2>1. \A i \in 1..Len(read) : \E j \in 1..Len(written) : read[i].hash = written[j].hash
    BY <1>1, <1>2, <1>4, <1>5 DEF RowsInv, Rows!Hashes
  <2>2. Verify(read) /\ IsLog(read)
    BY <1>1, <1>4, <1>5, SameChain
  <2>3. \A i \in 1..Len(read) : i \in 1..Len(written) /\ SameEntry(read[i], written[i])
    BY <1>3, <2>1, <2>2, WithoutNewHashesOnlyACut
  <2>4. \A i \in 1..Len(read) : i \in 1..Len(written) /\ read[i] = written[i]
    BY <1>1, <1>3, <1>4, <2>3, EntryIs
  <2>5. IsPrefix(read, written)
    BY <1>1, <1>3, <1>4, <2>4, CutIsPrefix
  <2> QED
    BY <2>5 DEF IsPrefix, Rows!IsPrefix
<1>6. ASSUME Rows!Verify(read), read # <<>>, written # <<>>,
             Rows!Last(read).hash = Rows!Last(written).hash
      PROVE  read = written
  <2>1. Len(read) > 0 /\ Len(written) > 0
    BY <1>1, <1>3, <1>4, <1>6, EmptyLog
  <2>2. read[Len(read)].hash = written[Len(written)].hash
    BY <1>6 DEF Rows!Last
  <2>3. Verify(read) /\ IsLog(read)
    BY <1>1, <1>4, <1>6, SameChain
  <2>4. Len(read) = Len(written) /\ \A i \in 1..Len(written) : SameEntry(read[i], written[i])
    BY <1>3, <2>1, <2>2, <2>3, HeadPinsEveryEntry
  <2>5. \A i \in 1..Len(read) : read[i] = written[i]
    BY <1>1, <1>3, <1>4, <2>4, EntryIs
  <2> QED
    BY <1>3, <2>3, <2>4, <2>5, SameSequence
<1>7. OnlyACutVerifies
  BY <1>2, <1>4, <1>5 DEF OnlyACutVerifies, Rows!OnlyACutVerifies, entries
<1>8. HeadPinsTheChain
  BY <1>2, <1>4, <1>6 DEF HeadPinsTheChain, Rows!HeadPinsTheChain, entries
<1> QED
  BY <1>7, <1>8
-----------------------------------------------------------------------------
\* ModelPort.

\* No two fixtures an adapter was built from record one call, and what it answers
\* a call is what its fixture says.
BuiltFrom(fixtures, recorded) ==
  /\ \A fixture \in fixtures : fixture.answer \in Answers
  /\ DOMAIN recorded = {fixture.call : fixture \in fixtures}
  /\ \A fixture \in fixtures : recorded[fixture.call] = fixture.answer

PortInv ==
  /\ directory \in [Names -> Port!Files]
  /\ adapter.is = "replay" => BuiltFrom(adapter.fixtures, adapter.recorded)
  /\ AnswersAreTheRecordings

LEMMA FixtureFiles ==
  ASSUME NEW file \in Port!Files, file.is = "fixture"
  PROVE  file.answer \in Answers /\ file.call \in Port!Calls
<1>1. file \in Port!Fixtures
  BY DEF Port!Files, Port!File
<1> QED
  BY <1>1 DEF Port!Fixtures

LEMMA ReadWhole ==
  ASSUME PortInv, \A name \in Port!There : ~Port!Faulty(name)
  PROVE  BuiltFrom({directory[name] : name \in Port!There}, Port!Recorded)
<1> DEFINE fixtures == {directory[name] : name \in Port!There}
<1>1. \A name \in Port!There : name \in Names /\ directory[name].is = "fixture"
  BY DEF Port!There, Port!Faulty
<1>2. \A name \in Port!There : directory[name].answer \in Answers
  BY <1>1, FixtureFiles DEF PortInv
<1>3. ASSUME NEW name \in Port!There, NEW other \in Port!There,
             directory[name].call = directory[other].call
      PROVE  name = other
  <2>1. ~(name < other) /\ ~(other < name)
    BY <1>3 DEF Port!Faulty, Port!Fingerprint
  <2>2. name \in Nat /\ other \in Nat
    BY <1>1, NamesAssumption
  <2> QED
    BY <2>1, <2>2
<1>4. ASSUME NEW name \in Port!There
      PROVE  /\ directory[name].call \in DOMAIN Port!Recorded
             /\ Port!Recorded[directory[name].call] = directory[name].answer
  <2> DEFINE call == directory[name].call
             at == Port!Max({n \in Port!There : directory[n].call = call})
  <2>1. {n \in Port!There : directory[n].call = call} = {name}
    BY <1>3
  <2>2. name \in Nat
    BY <1>1, NamesAssumption
  <2>3. at = name
    BY <2>1, <2>2 DEF Port!Max
  <2>4. call \in {directory[n].call : n \in Port!There}
    OBVIOUS
  <2>5. Port!Recorded[call] = directory[at].answer /\ call \in DOMAIN Port!Recorded
    BY <2>4 DEF Port!Recorded, Port!Fingerprint
  <2> QED
    BY <2>3, <2>5
<1>5. DOMAIN Port!Recorded = {directory[name].call : name \in Port!There}
  BY DEF Port!Recorded, Port!Fingerprint
<1>6. {directory[name].call : name \in Port!There} = {fixture.call : fixture \in fixtures}
  OBVIOUS
<1> QED
  BY <1>2, <1>4, <1>5, <1>6 DEF BuiltFrom

LEMMA Replies ==
  ASSUME NEW call \in Port!Calls, adapter.is = "replay", BuiltFrom(adapter.fixtures, adapter.recorded),
         told' = [by |-> "replay", call |-> call, fixtures |-> adapter.fixtures,
                  ending |-> Port!Replayed(call)]
  PROVE  AnswersAreTheRecordings'
<1> DEFINE fixtures == adapter.fixtures
           recordings == {fixture.answer : fixture \in {f \in fixtures : f.call = call}}
           ending == Port!Replayed(call)
<1>1. /\ told'.by = "replay" /\ told'.call = call /\ told'.fixtures = fixtures
      /\ told'.ending = ending
  OBVIOUS
<1>2. SUFFICES
        /\ ending.is = "answer" => call.schema \in ending.answer.fits
        /\ \/ ending.is = "answer" /\ recordings = {ending.answer}
           \/ /\ ending.is = "UnusableFixture"
              /\ \E answer \in Answers : recordings = {answer} /\ call.schema \notin answer.fits
           \/ ending.is = "NoFixture" /\ recordings = {}
  BY <1>1 DEF AnswersAreTheRecordings, Port!AnswersAreTheRecordings
<1>3. CASE call \in DOMAIN adapter.recorded
  <2>1. PICK fixture \in fixtures : fixture.call = call
    BY <1>3 DEF BuiltFrom
  <2> DEFINE answer == fixture.answer
  <2>2. adapter.recorded[call] = answer /\ answer \in Answers
    BY <2>1 DEF BuiltFrom
  <2>3. \A f \in fixtures : f.call = call => f.answer = answer
    BY <2>2 DEF BuiltFrom
  <2>4. recordings = {answer}
    BY <2>1, <2>3
  <2>5. ending = IF call.schema \in answer.fits
                 THEN [is |-> "answer", answer |-> answer]
                 ELSE [is |-> "UnusableFixture", answer |-> Port!NoAnswer]
    BY <1>3, <2>2 DEF Port!Replayed, Port!Fingerprint, Port!Validated, Port!Answered, Port!Ending
  <2> HIDE DEF answer, ending, recordings, fixtures
  <2>6. CASE call.schema \in answer.fits
    <3>1. ending.is = "answer" /\ ending.answer = answer
      BY <2>5, <2>6
    <3> QED
      BY <2>4, <2>6, <3>1
  <2>7. CASE call.schema \notin answer.fits
    <3>1. ending.is = "UnusableFixture"
      BY <2>5, <2>7
    <3> QED
      BY <2>2, <2>4, <2>7, <3>1
  <2> QED
    BY <2>6, <2>7
<1>4. CASE call \notin DOMAIN adapter.recorded
  <2>1. ending = [is |-> "NoFixture", answer |-> Port!NoAnswer]
    BY <1>4 DEF Port!Replayed, Port!Fingerprint, Port!Ending
  <2>2. recordings = {}
    BY <1>4 DEF BuiltFrom
  <2> QED
    BY <2>1, <2>2
<1> QED
  BY <1>3, <1>4

LEMMA PortStep ==
  ASSUME PortInv, Port!Next
  PROVE  PortInv'
<1>1. CASE Port!Edit
  <2>1. directory' \in [Names -> Port!Files]
    BY <1>1 DEF Port!Edit, PortInv
  <2> QED
    BY <1>1, <2>1 DEF Port!Edit, PortInv, AnswersAreTheRecordings, Port!AnswersAreTheRecordings
<1>2. CASE Port!BuildReplay
  <2>1. UNCHANGED <<directory, told>>
    BY <1>2 DEF Port!BuildReplay
  <2>2. \/ adapter'.is # "replay"
        \/ /\ \A name \in Port!There : ~Port!Faulty(name)
           /\ adapter' = [is |-> "replay", recorded |-> Port!Recorded,
                          fixtures |-> {directory[name] : name \in Port!There}]
    BY <1>2 DEF Port!BuildReplay, Port!Adapter
  <2>3. adapter'.is = "replay" => BuiltFrom(adapter'.fixtures, adapter'.recorded)
    BY <2>2, ReadWhole
  <2> QED
    BY <2>1, <2>3 DEF PortInv, BuiltFrom, AnswersAreTheRecordings, Port!AnswersAreTheRecordings
<1>3. CASE Port!BuildProvider
  <2>1. UNCHANGED <<directory, told>> /\ adapter'.is # "replay"
    BY <1>3 DEF Port!BuildProvider, Port!Adapter
  <2> QED
    BY <2>1 DEF PortInv, AnswersAreTheRecordings, Port!AnswersAreTheRecordings
<1>4. CASE Port!AskReplay
  <2>1. UNCHANGED <<directory, adapter>>
    BY <1>4 DEF Port!AskReplay
  <2>2. AnswersAreTheRecordings'
    BY <1>4, Replies DEF Port!AskReplay, PortInv
  <2> QED
    BY <2>1, <2>2 DEF PortInv, BuiltFrom
<1>5. CASE Port!AskProvider
  <2>1. PICK call \in Port!Calls, reply \in Port!Replies :
          told' = [by |-> "provider", call |-> call, fixtures |-> {}, ending |-> Port!Provided(call, reply)]
    BY <1>5 DEF Port!AskProvider
  <2>2. /\ told'.by = "provider" /\ told'.call = call /\ told'.ending = Port!Provided(call, reply)
    BY <2>1
  <2>3. told'.ending.is = "answer" => call.schema \in told'.ending.answer.fits
    BY <2>2 DEF Port!Provided, Port!Validated, Port!Answered, Port!Ending
  <2>4. AnswersAreTheRecordings'
    BY <2>2, <2>3 DEF AnswersAreTheRecordings, Port!AnswersAreTheRecordings
  <2> QED
    BY <1>5, <2>4 DEF Port!AskProvider, PortInv, BuiltFrom
<1> QED
  BY <1>1, <1>2, <1>3, <1>4, <1>5 DEF Port!Next

LEMMA PortStart ==
  ASSUME Port!Init
  PROVE  PortInv
<1>1. directory \in [Names -> Port!Files]
  BY DEF Port!Init, Port!Files
<1>2. adapter.is # "replay" /\ told.by = "nobody" /\ told.ending.is = "nothing"
  BY DEF Port!Init, Port!Adapter, Port!NothingTold, Port!Ending
<1> QED
  BY <1>1, <1>2 DEF PortInv, AnswersAreTheRecordings, Port!AnswersAreTheRecordings
-----------------------------------------------------------------------------
\* ContractGenerator.

\* A contract as it is edited: keywords come and go, types and references stay.
Shaped(of) ==
  /\ of \in [Contract!Sites -> Contract!Nodes]
  /\ of.object.type = "object"
  /\ of.primitive.type \in {"string", "integer"}
  /\ of.enumeration.type = "string"

Accepted(of) ==
  \A name \in {"object", "primitive", "enumeration"} : ~Contract!BlockRefused(of, of[name])

\* Nothing stands beside a reference.
Bare(node) == node.ref # "none" => node.has = {}

LEMMA NodeIs ==
  ASSUME NEW node \in Contract!Nodes
  PROVE  /\ node = [type |-> node.type, ref |-> node.ref, has |-> node.has]
         /\ node.ref \in {"none", "primitive", "enumeration"}
         /\ node.has \subseteq Contract!Keywords
         /\ node.ref # "none" => node.type = "none"
  BY DEF Contract!Nodes

\* What an annotation that is not refused asks of a value.
LEMMA DirectEnforces ==
  ASSUME NEW of, NEW node, NEW items, NEW annotation,
         annotation = Contract!Direct(node, items), annotation.type # "refused",
         node.type # "array" \/ "enum" \in node.has
  PROVE  /\ Contract!Demands(node.has, node.type) \subseteq Contract!Enforced(of, annotation)
         /\ Contract!IsRead(node)
<1>1. Contract!Refused.type = "refused"
  BY DEF Contract!Refused
<1>2. Contract!IsRead(node)
  BY <1>1 DEF Contract!Direct, Contract!Annotated
<1>3. CASE "enum" \in node.has
  <2>1. annotation = Contract!Annotated(node, "Literal", FALSE)
    BY <1>3 DEF Contract!Direct
  <2>2. Contract!IsRead(node) /\ annotation.type = "Literal"
    BY <1>2, <2>1 DEF Contract!Annotated
  <2>3. "enum" \in Contract!Enforced(of, annotation)
    BY <2>2 DEF Contract!Enforced
  <2>4. Contract!Demands(node.has, node.type) \subseteq {"enum"}
    BY <1>3, <2>2 DEF Contract!Demands, Contract!IsRead, Contract!Supported, Contract!Bounds
  <2> QED
    BY <2>2, <2>3, <2>4
<1>4. CASE "enum" \notin node.has /\ node.type = "string"
  <2>1. annotation = Contract!Annotated(node, "str", "format" \in node.has)
    BY <1>4 DEF Contract!Direct
  <2>2. /\ Contract!IsRead(node) /\ annotation.bounds = node.has \intersect Contract!Bounds
        /\ annotation.format = ("format" \in node.has)
    BY <1>2, <2>1 DEF Contract!Annotated
  <2>3. Contract!Demands(node.has, node.type) \subseteq {"minLength", "pattern", "format"} \intersect node.has
    BY <1>4, <2>2 DEF Contract!Demands, Contract!IsRead, Contract!Supported, Contract!Bounds,
                      Contract!ReadBy
  <2>4. {"minLength", "pattern"} \intersect node.has \subseteq Contract!Enforced(of, annotation)
    BY <2>2 DEF Contract!Enforced, Contract!Bounds
  <2>5. "format" \in node.has => "format" \in Contract!Enforced(of, annotation)
    BY <2>2 DEF Contract!Enforced
  <2> QED
    BY <2>2, <2>3, <2>4, <2>5
<1>5. CASE "enum" \notin node.has /\ node.type = "integer"
  <2>1. annotation = Contract!Annotated(node, "int", FALSE)
    BY <1>5 DEF Contract!Direct
  <2>2. Contract!IsRead(node) /\ annotation.bounds = node.has \intersect Contract!Bounds
    BY <1>2, <2>1 DEF Contract!Annotated
  <2>3. Contract!Demands(node.has, node.type) \subseteq {"minimum"} \intersect node.has
    BY <1>5, <2>2 DEF Contract!Demands, Contract!IsRead, Contract!Supported, Contract!Bounds,
                      Contract!ReadBy
  <2>4. {"minimum"} \intersect node.has \subseteq Contract!Enforced(of, annotation)
    BY <2>2 DEF Contract!Enforced, Contract!Bounds
  <2> QED
    BY <2>2, <2>3, <2>4
<1>6. CASE "enum" \notin node.has /\ node.type \notin {"string", "integer"}
  BY <1>1, <1>6 DEF Contract!Direct
<1> QED
  BY <1>3, <1>4, <1>5, <1>6

\* A schema that is referred to and accepted is read, and is no object.
LEMMA ReferredTo ==
  ASSUME NEW of, Shaped(of), Accepted(of), NEW name \in {"primitive", "enumeration"}
  PROVE  /\ Contract!IsRead(of[name])
         /\ of[name].type \in {"string", "integer"}
         /\ Contract!IsClass(of[name]) <=> "enum" \in of[name].has
         /\ Contract!IsEnum(of[name]) <=> "enum" \in of[name].has
<1>1. of[name].type \in {"string", "integer"}
  BY DEF Shaped
<1>2. Contract!IsRead(of[name])
  BY <1>1 DEF Accepted, Contract!BlockRefused, Contract!IsEnum, Contract!IsObject
<1> QED
  BY <1>1, <1>2 DEF Contract!IsClass, Contract!IsEnum, Contract!IsObject

LEMMA AnnotationEnforces ==
  ASSUME NEW of, Shaped(of), Accepted(of), NEW node \in Contract!Nodes, Bare(node),
         NEW items, NEW annotation, annotation = Contract!Annotation(of, node, items),
         annotation.type # "refused",
         node.ref # "none" \/ node.type # "array" \/ "enum" \in node.has
  PROVE  Contract!Meant(of, node) \subseteq Contract!Enforced(of, annotation)
<1>1. CASE node.ref = "none"
  <2>1. annotation = Contract!Direct(node, items)
    BY <1>1 DEF Contract!Annotation
  <2>2. Contract!Demands(node.has, node.type) \subseteq Contract!Enforced(of, annotation)
    BY <1>1, <2>1, DirectEnforces
  <2> QED
    BY <1>1, <2>2 DEF Contract!Meant
<1>2. CASE node.ref # "none"
  <2> DEFINE name == node.ref
             its == of[name]
  <2>1. name \in {"primitive", "enumeration"} /\ node.has = {}
    BY <1>2, NodeIs DEF Bare
  <2>2. /\ Contract!IsRead(its) /\ its.type \in {"string", "integer"}
        /\ Contract!IsClass(its) <=> "enum" \in its.has
        /\ Contract!IsEnum(its) <=> "enum" \in its.has
    BY <2>1, ReferredTo
  <2>3. Contract!Meant(of, node) = Contract!Demands(its.has, its.type)
    BY <1>2, <2>1 DEF Contract!Meant
  <2>4. CASE "enum" \in its.has
    <3>1. annotation.type = name
      BY <1>2, <2>2, <2>4 DEF Contract!Annotation
    <3>2. "enum" \in Contract!Enforced(of, annotation)
      BY <2>1, <2>2, <2>4, <3>1 DEF Contract!Enforced, Contract!Sites
    <3>3. Contract!Demands(its.has, its.type) \subseteq {"enum"}
      BY <2>2, <2>4 DEF Contract!Demands, Contract!IsRead, Contract!Supported, Contract!Bounds
    <3> QED
      BY <2>3, <3>2, <3>3
  <2>5. CASE "enum" \notin its.has
    <3>1. annotation = Contract!Direct(its, Contract!Refused)
      BY <1>2, <2>2, <2>5 DEF Contract!Annotation
    <3>2. Contract!Demands(its.has, its.type) \subseteq Contract!Enforced(of, annotation)
      <4>1. PICK target : target = its
        OBVIOUS
      <4> HIDE DEF its
      <4>2. target.type # "array" /\ annotation = Contract!Direct(target, Contract!Refused)
        BY <2>2, <3>1, <4>1
      <4> QED
        BY <4>1, <4>2, DirectEnforces
    <3> QED
      BY <2>3, <3>2
  <2> QED
    BY <2>4, <2>5
<1> QED
  BY <1>1, <1>2

\* The models of an accepted contract ask what it asks of the field.
LEMMA AcceptedIgnoresNothing ==
  ASSUME NEW of, Shaped(of), Accepted(of), Bare(of.field), Bare(of.items)
  PROVE  Contract!Ignored(of) = {}
<1> DEFINE field == of.field
           items == of.items
           itemsSay == Contract!Annotation(of, items, Contract!Refused)
           says == Contract!Annotation(of, field, itemsSay)
<1>1. field \in Contract!Nodes /\ items \in Contract!Nodes
  BY DEF Shaped, Contract!Sites
<1>2. says.type # "refused"
  BY DEF Accepted, Shaped, Contract!BlockRefused, Contract!IsEnum, Contract!IsObject, Contract!FieldOf
<1>3. SUFFICES Contract!FieldMeant(of) \subseteq Contract!Enforced(of, says)
  BY DEF Contract!Ignored, Contract!FieldOf
<1>4. CASE field.ref # "none" \/ field.type # "array" \/ "enum" \in field.has
  <2>1. Contract!Meant(of, field) \subseteq Contract!Enforced(of, says)
    <3> HIDE DEF field, items, itemsSay
    <3> QED
      BY <1>1, <1>2, <1>4, AnnotationEnforces DEF field
  <2>2. field.type # "array" \/ "enum" \in field.has
    BY <1>1, <1>4, NodeIs
  <2> QED
    BY <2>1, <2>2 DEF Contract!FieldMeant
<1>5. CASE field.ref = "none" /\ field.type = "array" /\ "enum" \notin field.has
  <2>1. says = Contract!Direct(field, itemsSay)
    BY <1>5 DEF Contract!Annotation
  <2>2. Contract!Refused.type = "refused"
    BY DEF Contract!Refused
  <2>3. itemsSay.type # "refused" /\ itemsSay.bounds = {}
    BY <1>2, <1>5, <2>1, <2>2 DEF Contract!Direct
  <2>4. /\ Contract!IsRead(field)
        /\ says = [type |-> itemsSay.type, format |-> itemsSay.format,
                   bounds |-> field.has \intersect Contract!Bounds]
    BY <1>2, <1>5, <2>1, <2>2, <2>3 DEF Contract!Direct, Contract!Annotated
  <2>5. Contract!Meant(of, field) \subseteq Contract!Enforced(of, says)
    <3>1. Contract!Meant(of, field) \subseteq {"minItems"} \intersect field.has
      BY <1>5, <2>4 DEF Contract!Meant, Contract!Demands, Contract!ReadBy, Contract!IsRead,
                        Contract!Supported, Contract!Bounds
    <3>2. {"minItems"} \intersect field.has \subseteq Contract!Enforced(of, says)
      BY <2>4 DEF Contract!Enforced, Contract!Bounds
    <3> QED
      BY <3>1, <3>2
  <2>6. items.ref # "none" \/ items.type # "array" \/ "enum" \in items.has
    BY <2>2, <2>3 DEF Contract!Annotation, Contract!Direct
  <2>7. Contract!Meant(of, items) \subseteq Contract!Enforced(of, itemsSay)
    <3>1. PICK node \in Contract!Nodes : node = items
      BY <1>1
    <3> HIDE DEF items
    <3> QED
      BY <2>3, <2>6, <3>1, AnnotationEnforces DEF items
  <2>8. Contract!Enforced(of, itemsSay) \subseteq Contract!Enforced(of, says)
    <3> HIDE DEF itemsSay, says
    <3>1. says.type = itemsSay.type /\ says.format = itemsSay.format
      BY <2>4
    <3> QED
      BY <2>3, <3>1 DEF Contract!Enforced
  <2> QED
    BY <1>5, <2>5, <2>7, <2>8 DEF Contract!FieldMeant
<1> QED
  BY <1>4, <1>5

\* What is on disk is one accepted contract, and the contract keeps its shape.
FilesInv ==
  /\ DOMAIN files = {"models", "client"} /\ files.models = files.client
  /\ files.models # Nothing => Shaped(files.models.schemas) /\ Accepted(files.models.schemas)

LEMMA EditedShape ==
  ASSUME NEW of, Shaped(of), NEW site \in Contract!Sites, NEW has \in SUBSET Contract!Keywords
  PROVE  Shaped([of EXCEPT ![site].has = has])
<1> DEFINE node == of[site]
           edited == [node EXCEPT !.has = has]
           new == [of EXCEPT ![site] = edited]
<1>1. /\ node = [type |-> node.type, ref |-> node.ref, has |-> node.has]
      /\ node \in Contract!Nodes /\ of \in [Contract!Sites -> Contract!Nodes]
  BY NodeIs DEF Shaped
<1>2. edited = [type |-> node.type, ref |-> node.ref, has |-> has]
  <2> DEFINE type == node.type  ref == node.ref  its == node.has
  <2>1. node = [type |-> type, ref |-> ref, has |-> its]
    BY <1>1
  <2> HIDE DEF node, type, ref, its
  <2> QED
    BY <2>1 DEF type, ref
<1>3. edited \in Contract!Nodes /\ edited.type = node.type
  BY <1>1, <1>2 DEF Contract!Nodes
<1>4. \A other \in Contract!Sites : new[other].type = of[other].type
  <2> HIDE DEF edited
  <2> QED
    BY <1>1, <1>3
<1>5. new \in [Contract!Sites -> Contract!Nodes]
  BY <1>1, <1>3
<1>6. [of EXCEPT ![site].has = has] = new
  OBVIOUS
<1> HIDE DEF new
<1>7. Shaped(new)
  BY <1>4, <1>5 DEF Shaped, Contract!Sites
<1> QED
  BY <1>6, <1>7

LEMMA ContractStep ==
  ASSUME FilesInv, Shaped(schemas), Contract!Next
  PROVE  FilesInv' /\ Shaped(schemas')
<1>1. CASE Contract!EditKeyword
  <2>1. PICK site \in Contract!Sites, keyword \in Contract!Keywords :
          schemas' = [schemas EXCEPT ![site].has =
                        IF keyword \in @ THEN @ \ {keyword} ELSE @ \union {keyword}]
    BY <1>1 DEF Contract!EditKeyword
  <2>2. PICK has : has = IF keyword \in schemas[site].has THEN schemas[site].has \ {keyword}
                         ELSE schemas[site].has \union {keyword}
    OBVIOUS
  <2>3. has \in SUBSET Contract!Keywords
    BY <2>2, NodeIs DEF Shaped
  <2>4. schemas' = [schemas EXCEPT ![site].has = has]
    BY <2>1, <2>2
  <2>5. PICK of : of = schemas
    OBVIOUS
  <2>6. Shaped([of EXCEPT ![site].has = has])
    BY <2>3, <2>5, EditedShape
  <2> QED
    BY <1>1, <2>4, <2>5, <2>6 DEF Contract!EditKeyword, FilesInv
<1>2. CASE Contract!EditOperation
  BY <1>2 DEF Contract!EditOperation, FilesInv
<1>3. CASE Contract!Generate
  <2>1. schemas' = schemas
    BY <1>3 DEF Contract!Generate
  <2>2. CASE Contract!ModelsRefused \/ Contract!ClientRefused
    BY <1>3, <2>1, <2>2 DEF Contract!Generate, FilesInv
  <2>3. CASE ~(Contract!ModelsRefused \/ Contract!ClientRefused)
    <3>1. files' = [file \in {"models", "client"} |-> Contract!document]
      BY <1>3, <2>3 DEF Contract!Generate, FilesInv
    <3>2. Accepted(schemas)
      BY <2>3 DEF Accepted, Contract!ModelsRefused
    <3>3. files'.models.schemas = schemas
      BY <3>1 DEF Contract!document
    <3>4. DOMAIN files' = {"models", "client"} /\ files'.models = files'.client
      BY <3>1
    <3> QED
      BY <2>1, <3>2, <3>3, <3>4 DEF FilesInv
  <2> QED
    BY <2>2, <2>3
<1> QED
  BY <1>1, <1>2, <1>3 DEF Contract!Next

LEMMA ContractStart ==
  ASSUME Contract!Init
  PROVE  FilesInv /\ Shaped(schemas)
<1>1. PICK field \in Fields, type \in {"string", "integer"} :
        schemas = [object |-> Contract!Node("object", "none", {"additionalProperties"}),
                   field |-> field.node, items |-> field.items,
                   primitive |-> Contract!Plain(type),
                   enumeration |-> Contract!Node("string", "none", {"enum"})]
  BY DEF Contract!Init
<1>2. field.node \in Contract!Nodes /\ field.items \in Contract!Nodes
  BY FieldsAssumption
<1>3. /\ Contract!Node("object", "none", {"additionalProperties"}) \in Contract!Nodes
      /\ Contract!Plain(type) \in Contract!Nodes
      /\ Contract!Node("string", "none", {"enum"}) \in Contract!Nodes
  BY DEF Contract!Nodes, Contract!Node, Contract!Plain, Contract!Keywords, Contract!Supported
<1>4. schemas \in [Contract!Sites -> Contract!Nodes]
  BY <1>1, <1>2, <1>3 DEF Contract!Sites
<1>5. Shaped(schemas)
  BY <1>1, <1>4 DEF Shaped, Contract!Node, Contract!Plain
<1> QED
  BY <1>5 DEF Contract!Init, FilesInv

LEMMA FilesShow ==
  ASSUME FilesInv
  PROVE  AllFilesOrNone
<1>1. CASE files.models = Nothing
  BY <1>1 DEF FilesInv, AllFilesOrNone, Contract!AllFilesOrNone
<1>2. CASE files.models # Nothing
  <2>1. PICK of : of = files.models.schemas
    OBVIOUS
  <2>2. Shaped(of) /\ Accepted(of)
    BY <1>2, <2>1 DEF FilesInv
  <2>3. (\A site \in {"field", "items"} : of[site].ref # "none" => of[site].has = {})
          => Contract!Ignored(of) = {}
    BY <2>2, AcceptedIgnoresNothing DEF Bare
  <2> QED
    BY <1>2, <2>1, <2>3 DEF FilesInv, AllFilesOrNone, Contract!AllFilesOrNone
<1> QED
  BY <1>1, <1>2


-----------------------------------------------------------------------------
\* Material.

Lines(S) == [is : {"header", "case", "malformed", "overlong"}, of : S]

LEMMA FilesCounted == \A S : Files!Cardinality(S) = Cardinality(S)
  BY DEF Files!Cardinality, Cardinality

\* The lines that are cases of a file without repeats are as many as its cases.
LEMMA CasesCounted ==
  ASSUME NEW lines, NEW n \in Nat, NEW skip \in {0, 1}, DOMAIN lines = 1..n + skip,
         \A m \in 1..n : lines[m + skip].is = "case"
                         /\ lines[m + skip] = Files!Line("case", lines[m + skip].of),
         skip = 1 => lines[1].is # "case",
         ~Files!Repeats(lines)
  PROVE  Cardinality(Files!CaseIdsOf(lines)) = n
<1> DEFINE ids == Files!CaseIdsOf(lines)
           f == [m \in 1..n |-> lines[m + skip].of]
<1>1. ids = {lines[m].of : m \in {k \in 1..n + skip : lines[k].is = "case"}}
  BY DEF Files!CaseIdsOf
<1>2. \A m \in 1..n + skip : lines[m].is = "case" => m - skip \in 1..n
  OBVIOUS
<1>3. \A m \in 1..n : m + skip \in 1..n + skip
  OBVIOUS
<1>4. f \in [1..n -> ids]
  BY <1>1, <1>3
<1>5. \A id \in ids : \E m \in 1..n : f[m] = id
  <2> SUFFICES ASSUME NEW id \in ids PROVE \E m \in 1..n : f[m] = id
    OBVIOUS
  <2>1. PICK k \in 1..n + skip : lines[k].is = "case" /\ lines[k].of = id
    BY <1>1
  <2>2. k - skip \in 1..n /\ k - skip + skip = k
    BY <1>2, <2>1
  <2> QED
    BY <2>1, <2>2
<1>6. \A m, k \in 1..n : f[m] = f[k] => m = k
  <2> SUFFICES ASSUME NEW m \in 1..n, NEW k \in 1..n, f[m] = f[k], m # k PROVE FALSE
    OBVIOUS
  <2>0. lines[m + skip].of = lines[k + skip].of
    OBVIOUS
  <2>1. lines[m + skip] = lines[k + skip] /\ lines[m + skip].is = "case" /\ m + skip # k + skip
    <3>1. /\ lines[m + skip] = Files!Line("case", lines[m + skip].of)
          /\ lines[k + skip] = Files!Line("case", lines[k + skip].of)
          /\ lines[m + skip].is = "case"
      OBVIOUS
    <3>2. m + skip # k + skip
      OBVIOUS
    <3> HIDE DEF f, ids
    <3> QED
      BY ONLY <2>0, <3>1, <3>2
  <2>2. m + skip \in DOMAIN lines /\ k + skip \in DOMAIN lines
    BY <1>3
  <2> QED
    BY <2>1, <2>2 DEF Files!Repeats
<1> HIDE DEF f, ids
<1>7. f \in Bijection(1..n, ids)
  BY <1>4, <1>5, <1>6 DEF Bijection, Injection, Surjection, IsInjective
<1>8. ExistsBijection(1..n, ids)
  BY <1>7 DEF ExistsBijection
<1> QED
  BY <1>8, FS_CountingElements DEF ids

\* Every file's lines are a sequence of lines.
LEMMA LinesOfFiles ==
  ASSUME NEW file \in Files!SetFiles \union Files!AnswersFiles
  PROVE  /\ Len(file.lines) \in Nat
         /\ DOMAIN file.lines = 1..Len(file.lines)
         /\ \A n \in 1..Len(file.lines) : file.lines[n] = Files!Line(file.lines[n].is, file.lines[n].of)
<1> DEFINE OfASet == Files!Headers \union Files!Cases(CaseIds) \union Files!Broken
           OfAnswers == Files!Cases(CaseIds \union {Strange}) \union Files!Broken
           All == OfASet \union OfAnswers
<1>1. \A line \in All : line = Files!Line(line.is, line.of)
  BY DEF Files!Headers, Files!Broken, Files!Cases, Files!Line
<1>2. OfASet \subseteq All /\ OfAnswers \subseteq All
  OBVIOUS
<1>3. \/ file = Files!Undecodable
      \/ \E ls \in Files!UpTo(MaxCases + 1, OfASet) : file = Files!Text(ls)
      \/ \E ls \in Files!UpTo(MaxCases, OfAnswers) : file = Files!Text(ls)
  BY Zenon DEF Files!SetFiles, Files!AnswersFiles
<1> HIDE DEF All, OfASet, OfAnswers
<1>4. \A n \in Nat : \A S, ls : ls \in Files!UpTo(n, S) => ls \in Seq(S)
  <2> SUFFICES ASSUME NEW n \in Nat, NEW S, NEW ls \in Files!UpTo(n, S) PROVE ls \in Seq(S)
    OBVIOUS
  <2>1. PICK k \in 0..n : ls \in [1..k -> S]
    BY DEF Files!UpTo
  <2>2. k \in Nat
    OBVIOUS
  <2> QED
    BY <2>1, <2>2
<1>5. \A S, ls : S \subseteq All /\ ls \in Seq(S) => ls \in Seq(All)
  BY SeqMonotonic
<1>6. MaxCases \in Nat /\ MaxCases + 1 \in Nat
  BY BoundsAssumption
<1>7. file.lines \in Seq(All)
  <2>1. CASE file = Files!Undecodable
    <3>1. file.lines = <<>>
      BY <2>1 DEF Files!Undecodable
    <3> QED
      BY <3>1
  <2>2. CASE \E ls \in Files!UpTo(MaxCases + 1, OfASet) : file = Files!Text(ls)
    <3>1. PICK ls \in Files!UpTo(MaxCases + 1, OfASet) : file = Files!Text(ls)
      BY <2>2
    <3>2. ls \in Seq(All)
      BY <1>2, <1>4, <1>5, <1>6
    <3> QED
      BY <3>1, <3>2 DEF Files!Text
  <2>3. CASE \E ls \in Files!UpTo(MaxCases, OfAnswers) : file = Files!Text(ls)
    <3>1. PICK ls \in Files!UpTo(MaxCases, OfAnswers) : file = Files!Text(ls)
      BY <2>3
    <3>2. ls \in Seq(All)
      BY <1>2, <1>4, <1>5, <1>6
    <3> QED
      BY <3>1, <3>2 DEF Files!Text
  <2> QED
    BY <1>3, <2>1, <2>2, <2>3
<1> QED
  BY <1>1, <1>7, LenProperties, ElementOfSeq

\* A set that is read has a header, and as many cases as lines after it.
LEMMA SetCounted ==
  ASSUME NEW file \in Files!SetFiles, NEW name, Files!SetRead(name, file) = "read"
  PROVE  Cardinality(Files!CaseIdsOf(file.lines)) + 1 = Len(file.lines)
<1> DEFINE lines == file.lines
<1>1. /\ Len(lines) \in Nat /\ DOMAIN lines = 1..Len(lines)
      /\ \A n \in 1..Len(lines) : lines[n] = Files!Line(lines[n].is, lines[n].of)
  BY LinesOfFiles
<1>2. \A n \in DOMAIN lines : IF n = 1 THEN lines[n] = Files!Line("header", name)
                                       ELSE lines[n].is = "case"
  BY DEF Files!SetRead, Files!Parsed
<1>3. lines # <<>> /\ ~Files!Repeats(lines)
  BY DEF Files!SetRead
<1> HIDE DEF lines
<1>4. Len(lines) # 0
  BY <1>1, <1>3
<1>5. PICK n \in Nat : Len(lines) = n + 1
  <2>1. PICK k : k = Len(lines)
    OBVIOUS
  <2>2. k \in Nat /\ k # 0
    BY <1>1, <1>4, <2>1
  <2>3. k - 1 \in Nat /\ k = k - 1 + 1
    BY <2>2
  <2> QED
    BY <2>1, <2>3
<1>6. /\ DOMAIN lines = 1..n + 1 /\ lines[1].is # "case"
      /\ \A m \in 1..n : lines[m + 1].is = "case" /\ lines[m + 1] = Files!Line("case", lines[m + 1].of)
  BY <1>1, <1>2, <1>5 DEF Files!Line
<1>7. Cardinality(Files!CaseIdsOf(lines)) = n
  BY <1>3, <1>6, CasesCounted
<1> QED
  BY <1>5, <1>7 DEF lines

\* Answers that are read are as many as their lines, each to a case held.
LEMMA AnswersCounted ==
  ASSUME NEW file \in Files!AnswersFiles, NEW held, Files!AnswersRead(file, held) = "read"
  PROVE  /\ Cardinality(Files!CaseIdsOf(file.lines)) = Len(file.lines)
         /\ Files!CaseIdsOf(file.lines) \subseteq held
<1> DEFINE lines == file.lines
<1>1. /\ Len(lines) \in Nat /\ DOMAIN lines = 1..Len(lines)
      /\ \A n \in 1..Len(lines) : lines[n] = Files!Line(lines[n].is, lines[n].of)
  BY LinesOfFiles
<1>2. \A n \in DOMAIN lines : lines[n].is = "case" /\ lines[n].of \in held
  BY DEF Files!AnswersRead, Files!AnswersParsed, Files!Parsed
<1>3. ~Files!Repeats(lines)
  BY DEF Files!AnswersRead
<1> HIDE DEF lines
<1>4. PICK n \in Nat : n = Len(lines)
  BY <1>1, Zenon
<1>5. /\ DOMAIN lines = 1..n + 0
      /\ \A m \in 1..n : lines[m + 0].is = "case" /\ lines[m + 0] = Files!Line("case", lines[m + 0].of)
  BY <1>1, <1>2, <1>4
<1>6. Cardinality(Files!CaseIdsOf(lines)) = n
  BY <1>3, <1>5, CasesCounted
<1>7. Files!CaseIdsOf(lines) \subseteq held
  BY <1>2 DEF Files!CaseIdsOf
<1> QED
  BY <1>4, <1>6, <1>7 DEF lines

\* What is made of a capability's answers, of the cases held and the capabilities given.
AnswerCounts(answer, held, name, given) ==
  /\ answer.asked <=> held # {}
  /\ answer.asked <=> name \in given
  /\ answer.asked => /\ Cardinality(answer.answered) = Len(answer.file.lines)
                     /\ answer.answered \subseteq held

LEMMA AskedCounts ==
  ASSUME NEW file \in Files!AnswersFiles, NEW held, NEW name, NEW given,
         held # {}, name \in given, Files!AnswersRead(file, held) = "read"
  PROVE  AnswerCounts(Files!Asked(file), held, name, given)
<1>1. /\ Cardinality(Files!CaseIdsOf(file.lines)) = Len(file.lines)
      /\ Files!CaseIdsOf(file.lines) \subseteq held
  BY AnswersCounted
<1>2. /\ Files!Asked(file).asked = TRUE
      /\ Files!Asked(file).file = file
      /\ Files!Asked(file).answered = Files!CaseIdsOf(file.lines)
  BY Zenon DEF Files!Asked
<1>3. Files!Asked(file).asked
  BY <1>2, Zenon
<1> QED
  BY <1>1, <1>2, <1>3, Zenon DEF AnswerCounts

LEMMA UnaskedCounts ==
  ASSUME NEW held, NEW name, NEW given, held = {}, name \notin given
  PROVE  AnswerCounts(Files!Unasked, held, name, given)
<1>1. ~Files!Unasked.asked
  BY Zenon DEF Files!Unasked
<1> QED
  BY <1>1, Zenon DEF AnswerCounts

\* A reader goes on, refuses or crashes.
LEMMA SetReadings ==
  \A name, file : Files!SetRead(name, file) \in {"read", "refused", "crashed"}
  BY DEF Files!SetRead, Files!Parsed

LEMMA AnswersReadings ==
  \A file, held : Files!AnswersRead(file, held) \in {"read", "refused", "crashed"}
  BY DEF Files!AnswersRead, Files!AnswersParsed, Files!Parsed

\* What a run has read when it has read so much.
SetsGoOn == reading \in {"started", "sets"}
AnswersGoOn == reading \in {"listing", "answers", "read"}

MaterialInv ==
  /\ reading \in {"started", "sets", "listing", "answers", "read", "refused", "crashed"}
  /\ sets \in Seq(Files!SetFiles)
  /\ answers \in Seq({Files!Unasked} \union {Files!Asked(file) : file \in Files!AnswersFiles})
  /\ SetsGoOn => Len(sets) < Len(Capabilities)
  /\ AnswersGoOn => Len(sets) = Len(Capabilities)
  /\ reading \in {"started", "sets", "listing"} => answers = <<>>
  /\ reading = "answers" => Len(answers) < Len(Capabilities)
  /\ reading = "read" => Len(answers) = Len(Capabilities)
  /\ SetsGoOn \/ AnswersGoOn =>
       \A i \in 1..Len(sets) : Cardinality(Files!CaseIdsOf(sets[i].lines)) + 1 = Len(sets[i].lines)
  /\ AnswersGoOn =>
       \A i \in 1..Len(answers) :
         AnswerCounts(answers[i], Files!CaseIdsOf(sets[i].lines), Capabilities[i], present["answers"])

LEMMA MaterialStart == sets = <<>> /\ answers = <<>> /\ reading = "started" => MaterialInv
<1> SUFFICES ASSUME sets = <<>>, answers = <<>>, reading = "started" PROVE MaterialInv
  OBVIOUS
<1>1. Len(Capabilities) \in Nat \ {0}
  BY CapabilitiesAssumption
<1> QED
  BY <1>1 DEF MaterialInv, SetsGoOn, AnswersGoOn

LEMMA MaterialStep == MaterialInv /\ (Files!Next \/ UNCHANGED material) => MaterialInv'
<1> SUFFICES ASSUME MaterialInv, Files!Next \/ UNCHANGED material PROVE MaterialInv'
  OBVIOUS
<1>1. Len(Capabilities) \in Nat \ {0}
  BY CapabilitiesAssumption
<1>2. sets \in Seq(Files!SetFiles) /\ Len(sets) \in Nat /\ Len(answers) \in Nat
      /\ answers \in Seq({Files!Unasked} \union {Files!Asked(file) : file \in Files!AnswersFiles})
  BY DEF MaterialInv
<1>3. CASE UNCHANGED material
  BY <1>3 DEF MaterialInv, SetsGoOn, AnswersGoOn, material
<1>4. CASE Files!ListSets
  BY <1>4 DEF Files!ListSets, MaterialInv, SetsGoOn, AnswersGoOn
<1>5. CASE Files!ReadSet
  <2>1. PICK file \in Files!SetFiles, read \in {"read", "refused", "crashed"} :
          /\ read = Files!SetRead(Capabilities[Len(sets) + 1], file)
          /\ sets' = Append(sets, file)
          /\ reading' = IF read # "read" THEN read
                        ELSE IF Len(sets') = Len(Capabilities) THEN "listing" ELSE "sets"
    BY <1>5, SetReadings, Zenon DEF Files!ReadSet
  <2>2. /\ reading = "sets" /\ UNCHANGED <<strays, present, answers>>
        /\ answers = <<>> /\ Len(sets) < Len(Capabilities)
        /\ \A i \in 1..Len(sets) : Cardinality(Files!CaseIdsOf(sets[i].lines)) + 1 = Len(sets[i].lines)
    BY <1>5 DEF Files!ReadSet, MaterialInv, SetsGoOn
  <2>3. read \in {"read", "refused", "crashed"}
    OBVIOUS
  <2>4. /\ sets' \in Seq(Files!SetFiles) /\ Len(sets') = Len(sets) + 1
        /\ \A i \in 1..Len(sets) : sets'[i] = sets[i]
        /\ sets'[Len(sets) + 1] = file
    BY <1>2, <2>1
  <2>5. CASE read # "read"
    BY <1>2, <2>1, <2>2, <2>3, <2>4, <2>5 DEF MaterialInv, SetsGoOn, AnswersGoOn
  <2>6. CASE read = "read"
    <3>1. Cardinality(Files!CaseIdsOf(file.lines)) + 1 = Len(file.lines)
      BY <2>1, <2>6, SetCounted
    <3>2. \A i \in 1..Len(sets') :
            Cardinality(Files!CaseIdsOf(sets'[i].lines)) + 1 = Len(sets'[i].lines)
      BY <1>2, <2>2, <2>4, <3>1
    <3>3. reading' \in {"listing", "sets"} /\ (reading' = "listing" <=> Len(sets') = Len(Capabilities))
      BY <2>1, <2>6
    <3>4. Len(sets') \in Nat /\ Len(sets') <= Len(Capabilities)
      BY <1>1, <1>2, <2>2, <2>4
    <3>5. (answers = <<>>)' /\ (answers \in Seq({Files!Unasked} \union {Files!Asked(f) : f \in Files!AnswersFiles}))'
      BY <1>2, <2>2
    <3> QED
      BY <1>1, <2>4, <3>2, <3>3, <3>4, <3>5 DEF MaterialInv, SetsGoOn, AnswersGoOn
  <2> QED
    BY <2>5, <2>6
<1>6. CASE Files!ListAnswers
  BY <1>1, <1>6 DEF Files!ListAnswers, MaterialInv, SetsGoOn, AnswersGoOn
<1>7. CASE Files!ReadAnswers
  <2> DEFINE i == Len(answers) + 1
             held == Files!CaseIdsOf(sets[i].lines)
             given == present["answers"]
             there == Capabilities[i] \in given
             Outcomes == {Files!Unasked} \union {Files!Asked(f) : f \in Files!AnswersFiles}
  <2>1. /\ reading = "answers" /\ UNCHANGED <<strays, present, sets>>
        /\ Len(answers) < Len(Capabilities) /\ Len(sets) = Len(Capabilities)
        /\ \A k \in 1..Len(sets) : Cardinality(Files!CaseIdsOf(sets[k].lines)) + 1 = Len(sets[k].lines)
        /\ \A k \in 1..Len(answers) :
             AnswerCounts(answers[k], Files!CaseIdsOf(sets[k].lines), Capabilities[k], given)
    BY <1>7 DEF Files!ReadAnswers, MaterialInv, AnswersGoOn
  <2>2. PICK answer \in Outcomes, read \in {"read", "refused", "crashed"} :
          /\ answers' = Append(answers, answer)
          /\ Files!GoesOn(read)
          /\ read = "read" => AnswerCounts(answer, held, Capabilities[i], given)
    <3>1. CASE there /\ held # {}
      <4>1. PICK file \in Files!AnswersFiles :
              answers' = Append(answers, Files!Asked(file)) /\ Files!GoesOn(Files!AnswersRead(file, held))
        BY <1>7, <3>1 DEF Files!ReadAnswers
      <4>2. PICK read : read = Files!AnswersRead(file, held)
        OBVIOUS
      <4>3. PICK name, hold, offered : name = Capabilities[i] /\ hold = held /\ offered = given
        OBVIOUS
      <4>4. read = "read" => AnswerCounts(Files!Asked(file), hold, name, offered)
        BY <3>1, <4>2, <4>3, AskedCounts
      <4>5. read \in {"read", "refused", "crashed"}
        BY <4>2, AnswersReadings
      <4>6. Files!Asked(file) \in Outcomes
        OBVIOUS
      <4> HIDE DEF Outcomes
      <4> QED
        BY <4>1, <4>2, <4>3, <4>4, <4>5, <4>6
    <3>2. CASE ~(there /\ held # {})
      <4>1. PICK read : /\ read = (IF there \/ held # {} THEN "refused" ELSE "read")
                        /\ answers' = Append(answers, Files!Unasked) /\ Files!GoesOn(read)
        BY <1>7, <3>2 DEF Files!ReadAnswers
      <4>3. PICK name, hold, offered : name = Capabilities[i] /\ hold = held /\ offered = given
        OBVIOUS
      <4>4. read = "read" => AnswerCounts(Files!Unasked, hold, name, offered)
        BY <3>2, <4>1, <4>3, UnaskedCounts
      <4>5. read \in {"read", "refused", "crashed"}
        BY <4>1
      <4>6. Files!Unasked \in Outcomes
        OBVIOUS
      <4> HIDE DEF Outcomes
      <4> QED
        BY <4>1, <4>3, <4>4, <4>5, <4>6
    <3> QED
      BY <3>1, <3>2
  <2> HIDE DEF Outcomes
  <2>3. /\ answers' \in Seq(Outcomes) /\ Len(answers') = Len(answers) + 1
        /\ \A k \in 1..Len(answers) : answers'[k] = answers[k]
        /\ answers'[i] = answer
    BY <1>2, <2>2 DEF Outcomes
  <2>4. reading' = IF read # "read" THEN read
                   ELSE IF Len(answers') = Len(Capabilities) THEN "read" ELSE "answers"
    BY <2>2 DEF Files!GoesOn
  <2>5. sets' \in Seq(Files!SetFiles) /\ sets' = sets /\ present' = present
    BY <1>2, <2>1
  <2>6. CASE read # "read"
    BY <2>2, <2>3, <2>4, <2>5, <2>6 DEF MaterialInv, SetsGoOn, AnswersGoOn, Outcomes
  <2>7. CASE read = "read"
    <3>1. \A k \in 1..Len(answers') :
            AnswerCounts(answers'[k], Files!CaseIdsOf(sets[k].lines), Capabilities[k], given)
      BY <1>2, <2>1, <2>2, <2>3, <2>7
    <3>2. reading' \in {"read", "answers"} /\ (reading' = "read" <=> Len(answers') = Len(Capabilities))
      BY <2>4, <2>7
    <3>3. Len(answers') \in Nat /\ Len(answers') <= Len(Capabilities)
      BY <1>1, <1>2, <2>1, <2>3
    <3> QED
      BY <1>1, <2>1, <2>3, <2>5, <3>1, <3>2, <3>3 DEF MaterialInv, SetsGoOn, AnswersGoOn, Outcomes
  <2> QED
    BY <2>6, <2>7
<1> QED
  BY <1>3, <1>4, <1>5, <1>6, <1>7 DEF Files!Next

LEMMA MaterialShows == MaterialInv => EveryLineCountsOnce
<1> SUFFICES ASSUME MaterialInv, reading = "read", NEW i \in 1..Len(Capabilities)
             PROVE  LET ids == Files!CaseIdsOf(sets[i].lines)
                    IN  /\ Files!Cardinality(ids) + 1 = Len(sets[i].lines)
                        /\ answers[i].asked <=> ids # {}
                        /\ answers[i].asked <=> Capabilities[i] \in present["answers"]
                        /\ answers[i].asked =>
                             /\ Files!Cardinality(answers[i].answered) = Len(answers[i].file.lines)
                             /\ answers[i].answered \subseteq ids
  BY CapabilitiesAssumption DEF EveryLineCountsOnce, Files!EveryLineCountsOnce
<1>1. /\ Len(sets) = Len(Capabilities) /\ Len(answers) = Len(Capabilities)
      /\ \A k \in 1..Len(sets) : Cardinality(Files!CaseIdsOf(sets[k].lines)) + 1 = Len(sets[k].lines)
      /\ \A k \in 1..Len(answers) :
           AnswerCounts(answers[k], Files!CaseIdsOf(sets[k].lines), Capabilities[k], present["answers"])
  BY DEF MaterialInv, AnswersGoOn
<1>2. /\ Cardinality(Files!CaseIdsOf(sets[i].lines)) + 1 = Len(sets[i].lines)
      /\ AnswerCounts(answers[i], Files!CaseIdsOf(sets[i].lines), Capabilities[i], present["answers"])
  BY <1>1
<1> QED
  BY <1>2, FilesCounted, Zenon DEF AnswerCounts

-----------------------------------------------------------------------------
\* Scoring: of one list or one count, then of a whole set.

\* metrics.py's hit_at and reciprocal_rank read any ranked list alike: it hits at a
\* depth exactly if its first expected clause has a rank, and that is no deeper.
THEOREM HitsAreRanks ==
  ASSUME NEW ranked, Len(ranked) \in Nat, NEW expected, NEW k \in Nat
  PROVE  LET rank == Score!ReciprocalRank(ranked, expected)
         IN  Score!HitAt(ranked, expected, k) <=> rank # <<0, 1>> /\ rank[2] <= k
<1> DEFINE at == {p \in 1..Len(ranked) : ranked[p].id \in expected}
           rank == Score!ReciprocalRank(ranked, expected)
<1>1. Score!HitAt(ranked, expected, k) <=> \E p \in at : p <= k
  BY DEF Score!HitAt
<1>2. rank = IF at = {} THEN <<0, 1>> ELSE <<1, Score!Min(at)>>
  BY DEF Score!ReciprocalRank
<1>3. at \subseteq Nat
  OBVIOUS
<1> HIDE DEF at, rank
<1>4. CASE at = {}
  BY <1>1, <1>2, <1>4 DEF rank
<1>5. CASE at # {}
  <2>1. \E least \in at : \A p \in at : least <= p
    BY <1>3, <1>5, LeastNatural
  <2>2. PICK least : least = Score!Min(at)
    OBVIOUS
  <2>3. least \in at /\ \A p \in at : least <= p
    BY <2>1, <2>2 DEF Score!Min
  <2>4. rank = <<1, least>>
    BY <1>2, <1>5, <2>2
  <2>5. rank # <<0, 1>> /\ rank[2] = least
    BY <2>4
  <2>6. (\E p \in at : p <= k) <=> least <= k
    BY <1>3, <2>3
  <2> QED
    BY <1>1, <2>5, <2>6 DEF rank
<1> QED
  BY <1>4, <1>5

\* metrics.py's citation_counts keeps the page of the last clause with an identity;
\* where no two have the same, a citation resolves exactly if the list has the clause
\* it cites, on the page it gives or on none.
THEOREM CitationsAreRetrieved ==
  ASSUME NEW ranked, Len(ranked) \in Nat, DOMAIN ranked = 1..Len(ranked), NEW citation,
         \A p, q \in 1..Len(ranked) : ranked[p].id = ranked[q].id => p = q
  PROVE  Score!Resolves(ranked, citation) <=>
           \E clause \in ToSet(ranked) :
             clause.id = citation.id
               /\ (citation.page = clause.page \/ Null \in {citation.page, clause.page})
<1> DEFINE at == {p \in 1..Len(ranked) : ranked[p].id = citation.id}
           Agrees(clause) == citation.page = clause.page \/ Null \in {citation.page, clause.page}
<1>1. (\E clause \in ToSet(ranked) : clause.id = citation.id /\ Agrees(clause))
        <=> \E p \in at : Agrees(ranked[p])
  BY DEF ToSet
<1>2. Score!Resolves(ranked, citation) <=> at # {} /\ Agrees(ranked[Score!Max(at)])
  BY DEF Score!Resolves
<1>3. \A p, q \in at : p = q
  OBVIOUS
<1>4. at \subseteq Nat
  OBVIOUS
<1> HIDE DEF at, Agrees
<1>5. CASE at = {}
  BY <1>1, <1>2, <1>5 DEF Agrees
<1>6. CASE at # {}
  <2>1. PICK p \in at : TRUE
    BY <1>6
  <2>2. at = {p} /\ p \in Nat
    BY <1>3, <1>4, <2>1
  <2>3. Score!Max(at) = p
    BY <2>2 DEF Score!Max
  <2> QED
    BY <1>1, <1>2, <2>2, <2>3 DEF Agrees
<1> QED
  BY <1>5, <1>6

\* metrics.py's f1 of any counts is no lower than the lower of precision and recall
\* and no higher than the higher, also where there is nothing to divide by.
THEOREM F1IsBetween ==
  ASSUME NEW counts, counts.tp \in Nat, counts.fp \in Nat, counts.fn \in Nat
  PROVE  \/ /\ Score!AtMost(Score!Precision(counts), Score!F1(counts))
            /\ Score!AtMost(Score!F1(counts), Score!Recall(counts))
         \/ /\ Score!AtMost(Score!Recall(counts), Score!F1(counts))
            /\ Score!AtMost(Score!F1(counts), Score!Precision(counts))
<1>1. PICK tp \in Nat, fp \in Nat, fn \in Nat : tp = counts.tp /\ fp = counts.fp /\ fn = counts.fn
  OBVIOUS
<1>2. /\ Score!Precision(counts) = IF tp + fp = 0 THEN <<0, 1>> ELSE <<tp, tp + fp>>
      /\ Score!Recall(counts) = IF tp + fn = 0 THEN <<0, 1>> ELSE <<tp, tp + fn>>
      /\ Score!F1(counts) = IF 2 * tp + fp + fn = 0 THEN <<0, 1>> ELSE <<2 * tp, 2 * tp + fp + fn>>
  BY <1>1 DEF Score!Precision, Score!Recall, Score!F1, Score!Ratio
<1>3. CASE tp = 0
  BY <1>2, <1>3 DEF Score!AtMost
<1>4. CASE tp # 0
  <2>1. /\ Score!Precision(counts) = <<tp, tp + fp>>
        /\ Score!Recall(counts) = <<tp, tp + fn>>
        /\ Score!F1(counts) = <<2 * tp, 2 * tp + fp + fn>>
    BY <1>2, <1>4
  <2>2. /\ tp * (2 * tp + fp + fn) = 2 * (tp * tp) + tp * fp + tp * fn
        /\ (2 * tp) * (tp + fp) = 2 * (tp * tp) + 2 * (tp * fp)
        /\ (2 * tp) * (tp + fn) = 2 * (tp * tp) + 2 * (tp * fn)
    OBVIOUS
  <2>3. tp * fp \in Nat /\ tp * fn \in Nat /\ tp * tp \in Nat
    OBVIOUS
  <2>4. (tp * fn <= tp * fp) \/ (tp * fp <= tp * fn)
    BY <2>3
  <2>5. /\ Score!AtMost(Score!Precision(counts), Score!F1(counts)) <=> tp * fn <= tp * fp
        /\ Score!AtMost(Score!F1(counts), Score!Recall(counts)) <=> tp * fn <= tp * fp
        /\ Score!AtMost(Score!Recall(counts), Score!F1(counts)) <=> tp * fp <= tp * fn
        /\ Score!AtMost(Score!F1(counts), Score!Precision(counts)) <=> tp * fp <= tp * fn
    BY <2>1, <2>2, <2>3 DEF Score!AtMost
  <2> QED
    BY <2>4, <2>5
<1> QED
  BY <1>3, <1>4

\* Values answered right, however many, never lower what metrics.py makes of the
\* counts they are added to: not the precision, not the recall, not f1.
THEOREM RightValuesNeverLower ==
  ASSUME NEW counts, counts.tp \in Nat, counts.fp \in Nat, counts.fn \in Nat,
         NEW more, more.tp \in Nat, more.tp >= counts.tp, more.fp = counts.fp, more.fn = counts.fn
  PROVE  /\ Score!AtMost(Score!Precision(counts), Score!Precision(more))
         /\ Score!AtMost(Score!Recall(counts), Score!Recall(more))
         /\ Score!AtMost(Score!F1(counts), Score!F1(more))
<1> DEFINE Share(n, d) == IF d = 0 THEN <<0, 1>> ELSE <<n, d>>
<1>1. \A n, m, d \in Nat : n <= m => Score!AtMost(Share(n, n + d), Share(m, m + d))
  <2> SUFFICES ASSUME NEW n \in Nat, NEW m \in Nat, NEW d \in Nat, n <= m
               PROVE  Score!AtMost(Share(n, n + d), Share(m, m + d))
    OBVIOUS
  <2>1. CASE n = 0
    BY <2>1 DEF Score!AtMost
  <2>2. CASE n # 0
    <3>1. Share(n, n + d) = <<n, n + d>> /\ Share(m, m + d) = <<m, m + d>>
      BY <2>2
    <3>2. n * (m + d) = n * m + n * d /\ m * (n + d) = n * m + m * d
      OBVIOUS
    <3>3. PICK k \in Nat : m = n + k
      <4>1. m - n \in Nat /\ m = n + (m - n)
        OBVIOUS
      <4> QED
        BY <4>1
    <3>4. m * d = n * d + k * d /\ k * d \in Nat /\ n * d \in Nat /\ n * m \in Nat
      BY <3>3
    <3> QED
      BY <3>1, <3>2, <3>4 DEF Score!AtMost
  <2> QED
    BY <2>1, <2>2
<1>2. PICK tp \in Nat, fp \in Nat, fn \in Nat : tp = counts.tp /\ fp = counts.fp /\ fn = counts.fn
  OBVIOUS
<1>3. PICK mtp \in Nat : mtp = more.tp /\ tp <= mtp /\ 2 * tp <= 2 * mtp
  BY <1>2
<1>4. /\ Score!Precision(counts) = Share(tp, tp + fp)
      /\ Score!Recall(counts) = Share(tp, tp + fn)
      /\ Score!F1(counts) = Share(2 * tp, 2 * tp + (fp + fn))
  BY <1>2 DEF Score!Precision, Score!Recall, Score!F1, Score!Ratio
<1>5. /\ Score!Precision(more) = Share(mtp, mtp + fp)
      /\ Score!Recall(more) = Share(mtp, mtp + fn)
      /\ Score!F1(more) = Share(2 * mtp, 2 * mtp + (fp + fn))
  BY <1>2, <1>3 DEF Score!Precision, Score!Recall, Score!F1, Score!Ratio
<1> HIDE DEF Share
<1>6. 2 * tp \in Nat /\ 2 * mtp \in Nat /\ fp + fn \in Nat
  OBVIOUS
<1> QED
  BY <1>1, <1>3, <1>4, <1>5, <1>6

\* What is counted is two disjoint kinds of right, and of wrong or missed.
LEMMA TwoKinds ==
  ASSUME NEW tp, NEW fp, NEW fn, IsFiniteSet(tp), IsFiniteSet(fp), IsFiniteSet(fn),
         tp \intersect fp = {}, tp \intersect fn = {},
         NEW counts, counts.tp = Cardinality(tp), counts.fp = Cardinality(fp), counts.fn = Cardinality(fn)
  PROVE  Score!Counted(counts, Cardinality(tp \union fp), Cardinality(tp \union fn))
<1>1. counts.tp \in Nat /\ counts.fp \in Nat /\ counts.fn \in Nat
  BY FS_CardinalityType
<1>2. /\ Cardinality(tp \union fp) = Cardinality(tp) + Cardinality(fp) - Cardinality(tp \intersect fp)
      /\ Cardinality(tp \union fn) = Cardinality(tp) + Cardinality(fn) - Cardinality(tp \intersect fn)
  BY FS_Union
<1>3. Cardinality(tp \intersect fp) = 0 /\ Cardinality(tp \intersect fn) = 0
  BY FS_EmptySet
<1>4. /\ counts.tp + counts.fp = Cardinality(tp \union fp)
      /\ counts.tp + counts.fn = Cardinality(tp \union fn)
  BY <1>1, <1>2, <1>3
<1> QED
  BY <1>1, <1>4, F1IsBetween, Zenon DEF Score!Counted

LEMMA Quantified == \A S : Score!Cardinality(S) = Cardinality(S)
  BY DEF Score!Cardinality, Cardinality

\* A value answered is right or wrong, and one stated or answered found or missed.
LEMMA FieldOutcomes ==
  ASSUME NEW truth, NEW answer
  PROVE  LET counts == Score!FieldCounts(truth, answer)
         IN  /\ (counts["tp"] = 1 \/ counts["fp"] = 1) <=> answer # Null
             /\ (counts["tp"] = 1 \/ counts["fn"] = 1) <=> answer # Null \/ truth # Null
             /\ ~(counts["tp"] = 1 /\ (counts["fp"] = 1 \/ counts["fn"] = 1))
             /\ truth = answer => counts["fp"] # 1 /\ counts["fn"] # 1
  BY DEF Score!FieldCounts, Score!Count

\* The fields of any finite part of a set are counted once.
LEMMA FieldsCounted ==
  ASSUME NEW S, IsFiniteSet(S)
  PROVE  Score!Counted(Score!FieldTotal(S),
                       Cardinality({x \in S : Score!AnsweredAt(x) # Null}),
                       Cardinality({x \in S : Score!AnsweredAt(x) # Null \/ Score!StatedAt(x) # Null}))
<1> DEFINE CountsOf(x) == Score!FieldCounts(Score!StatedAt(x), Score!AnsweredAt(x))
           Of(kind) == {x \in S : CountsOf(x)[kind] = 1}
<1>1. PICK tp, fp, fn : tp = Of("tp") /\ fp = Of("fp") /\ fn = Of("fn")
  OBVIOUS
<1>2. PICK counts : counts = Score!FieldTotal(S)
  OBVIOUS
<1>3. /\ counts.tp = Cardinality(tp) /\ counts.fp = Cardinality(fp) /\ counts.fn = Cardinality(fn)
  BY <1>1, <1>2, Quantified DEF Score!FieldTotal, Score!Total, Score!Quantify
<1>4. \A x \in S :
        /\ (CountsOf(x)["tp"] = 1 \/ CountsOf(x)["fp"] = 1) <=> Score!AnsweredAt(x) # Null
        /\ (CountsOf(x)["tp"] = 1 \/ CountsOf(x)["fn"] = 1)
             <=> Score!AnsweredAt(x) # Null \/ Score!StatedAt(x) # Null
        /\ ~(CountsOf(x)["tp"] = 1 /\ (CountsOf(x)["fp"] = 1 \/ CountsOf(x)["fn"] = 1))
  <2> SUFFICES ASSUME NEW x \in S
      PROVE /\ (CountsOf(x)["tp"] = 1 \/ CountsOf(x)["fp"] = 1) <=> Score!AnsweredAt(x) # Null
            /\ (CountsOf(x)["tp"] = 1 \/ CountsOf(x)["fn"] = 1)
                 <=> Score!AnsweredAt(x) # Null \/ Score!StatedAt(x) # Null
            /\ ~(CountsOf(x)["tp"] = 1 /\ (CountsOf(x)["fp"] = 1 \/ CountsOf(x)["fn"] = 1))
    OBVIOUS
  <2>1. PICK truth, answer : truth = Score!StatedAt(x) /\ answer = Score!AnsweredAt(x)
    OBVIOUS
  <2> QED
    BY <2>1, FieldOutcomes
<1> HIDE DEF CountsOf
<1>5. /\ tp \subseteq S /\ fp \subseteq S /\ fn \subseteq S
      /\ tp \intersect fp = {} /\ tp \intersect fn = {}
  BY <1>1, <1>4
<1>6. /\ tp \union fp = {x \in S : Score!AnsweredAt(x) # Null}
      /\ tp \union fn = {x \in S : Score!AnsweredAt(x) # Null \/ Score!StatedAt(x) # Null}
  BY <1>1, <1>4
<1>7. IsFiniteSet(tp) /\ IsFiniteSet(fp) /\ IsFiniteSet(fn)
  BY <1>5, FS_Subset
<1>8. Score!Counted(counts, Cardinality(tp \union fp), Cardinality(tp \union fn))
  BY <1>3, <1>5, <1>7, TwoKinds
<1> QED
  BY <1>2, <1>6, <1>8

\* A case counts towards a label by being answered with it, or carrying it, or both.
LEMMA LabelOutcomes ==
  ASSUME NEW truth, NEW answered, NEW label
  PROVE  LET counts == Score!LabelCount(truth, answered, label)
         IN  /\ (counts["tp"] = 1 \/ counts["fp"] = 1) <=> answered = label
             /\ (counts["tp"] = 1 \/ counts["fn"] = 1) <=> truth = label
             /\ ~(counts["tp"] = 1 /\ (counts["fp"] = 1 \/ counts["fn"] = 1))
<1>1. CASE label = truth
  BY <1>1 DEF Score!LabelCount, Score!Count
<1>2. CASE label # truth /\ label = answered
  BY <1>2 DEF Score!LabelCount, Score!Count
<1>3. CASE label # truth /\ label # answered
  BY <1>3 DEF Score!LabelCount, Score!Count
<1> QED
  BY <1>1, <1>2, <1>3

\* The cases that count towards a label are counted once.
LEMMA LabelsCounted ==
  ASSUME NEW label, Len(cases) \in Nat
  PROVE  Score!Counted(Score!LabelCounts(label),
                       Cardinality({i \in 1..Len(cases) : Score!LabelAnswered(i) = label}),
                       Cardinality({i \in 1..Len(cases) : cases[i].label = label}))
<1> DEFINE CountsOf(i) == Score!LabelCount(cases[i].label, Score!LabelAnswered(i), label)
           Of(kind) == {i \in 1..Len(cases) : CountsOf(i)[kind] = 1}
<1>1. PICK tp, fp, fn, S : tp = Of("tp") /\ fp = Of("fp") /\ fn = Of("fn") /\ S = 1..Len(cases)
  OBVIOUS
<1>2. PICK counts : counts = Score!LabelCounts(label)
  OBVIOUS
<1>3. /\ counts.tp = Cardinality(tp) /\ counts.fp = Cardinality(fp) /\ counts.fn = Cardinality(fn)
  BY <1>1, <1>2, Quantified DEF Score!LabelCounts, Score!Total, Score!Quantify
<1>4. \A i \in S :
        /\ (CountsOf(i)["tp"] = 1 \/ CountsOf(i)["fp"] = 1) <=> Score!LabelAnswered(i) = label
        /\ (CountsOf(i)["tp"] = 1 \/ CountsOf(i)["fn"] = 1) <=> cases[i].label = label
        /\ ~(CountsOf(i)["tp"] = 1 /\ (CountsOf(i)["fp"] = 1 \/ CountsOf(i)["fn"] = 1))
  <2> SUFFICES ASSUME NEW i \in S
      PROVE /\ (CountsOf(i)["tp"] = 1 \/ CountsOf(i)["fp"] = 1) <=> Score!LabelAnswered(i) = label
            /\ (CountsOf(i)["tp"] = 1 \/ CountsOf(i)["fn"] = 1) <=> cases[i].label = label
            /\ ~(CountsOf(i)["tp"] = 1 /\ (CountsOf(i)["fp"] = 1 \/ CountsOf(i)["fn"] = 1))
    OBVIOUS
  <2>1. PICK truth, answered : truth = cases[i].label /\ answered = Score!LabelAnswered(i)
    OBVIOUS
  <2> QED
    BY <2>1, LabelOutcomes
<1> HIDE DEF CountsOf
<1>5. /\ tp \subseteq S /\ fp \subseteq S /\ fn \subseteq S
      /\ tp \intersect fp = {} /\ tp \intersect fn = {}
  BY <1>1, <1>4
<1>6. /\ tp \union fp = {i \in 1..Len(cases) : Score!LabelAnswered(i) = label}
      /\ tp \union fn = {i \in 1..Len(cases) : cases[i].label = label}
  BY <1>1, <1>4
<1>7. IsFiniteSet(S)
  BY <1>1, FS_Interval
<1>8. IsFiniteSet(tp) /\ IsFiniteSet(fp) /\ IsFiniteSet(fn)
  BY <1>5, <1>7, FS_Subset
<1>9. Score!Counted(counts, Cardinality(tp \union fp), Cardinality(tp \union fn))
  BY <1>3, <1>5, <1>8, TwoKinds
<1> QED
  BY <1>2, <1>6, <1>9

\* A set of cases is of one capability, and each states finitely many fields.
ScoringInv ==
  /\ capability \in {"none", "extraction", "retrieval", "classification"}
  /\ capability = "extraction" => cases \in Seq(Documents)
  /\ capability = "retrieval" => cases \in Seq(Questions)
  /\ capability = "classification" => cases \in Seq(Claims)

\* A golden set starts with no case read, and so it does when another part runs.
LEMMA ScoringStart == Score!Init \/ (capability = "none" /\ cases = <<>>) => ScoringInv
<1> SUFFICES ASSUME Score!Init \/ (capability = "none" /\ cases = <<>>) PROVE ScoringInv
  OBVIOUS
<1>1. /\ cases = <<>>
      /\ capability \in {"none", "extraction", "retrieval", "classification"}
  BY DEF Score!Init
<1>2. <<>> \in Seq(Documents) /\ <<>> \in Seq(Questions) /\ <<>> \in Seq(Claims)
  OBVIOUS
<1> QED
  BY <1>1, <1>2 DEF ScoringInv

\* Each loop reads cases of its own capability.
LEMMA ScoringStep == ScoringInv /\ (Score!Next \/ UNCHANGED scoring) => ScoringInv'
<1> SUFFICES ASSUME ScoringInv, Score!Next \/ UNCHANGED scoring PROVE ScoringInv'
  OBVIOUS
<1>1. CASE UNCHANGED scoring
  BY <1>1 DEF ScoringInv, scoring
<1>2. CASE Score!ReadDocument
  BY <1>2 DEF Score!ReadDocument, Score!Read, ScoringInv
<1>3. CASE Score!ReadQuestion
  BY <1>3 DEF Score!ReadQuestion, Score!Read, ScoringInv
<1>4. CASE Score!ReadClaim
  BY <1>4 DEF Score!ReadClaim, Score!Read, ScoringInv
<1> QED
  BY <1>1, <1>2, <1>3, <1>4 DEF Score!Next

\* The fields stated in a set are finitely many, as each case's are.
LEMMA StatingIsFinite ==
  ASSUME cases \in Seq(Documents)
  PROVE  IsFiniteSet(Score!Stating)
<1> DEFINE Of(i) == {<<i, field>> : field \in DOMAIN cases[i].states}
<1>1. PICK n \in Nat : n = Len(cases)
  OBVIOUS
<1>2. PICK f : f = [i \in 1..n |-> Of(i)]
  OBVIOUS
<1>3. PICK all : all = {f[i] : i \in 1..n}
  OBVIOUS
<1>4. IsFiniteSet(1..n)
  BY FS_Interval
<1>5. f \in Surjection(1..n, all)
  BY <1>2, <1>3 DEF Surjection
<1>6. IsFiniteSet(all)
  BY <1>4, <1>5, FS_Surjection
<1>7. \A T \in all : IsFiniteSet(T)
  <2> SUFFICES ASSUME NEW i \in 1..n PROVE IsFiniteSet(f[i])
    BY <1>3
  <2>1. PICK fields : fields = DOMAIN cases[i].states
    OBVIOUS
  <2>2. cases[i] \in Documents
    BY <1>1
  <2>3. IsFiniteSet(fields)
    BY <2>1, <2>2, DocumentsAssumption
  <2>4. PICK g : g = [field \in fields |-> <<i, field>>]
    OBVIOUS
  <2>5. f[i] = {<<i, field>> : field \in fields}
    BY <1>2, <2>1
  <2>6. g \in Surjection(fields, f[i])
    BY <2>4, <2>5 DEF Surjection
  <2> QED
    BY <2>3, <2>6, FS_Surjection
<1>8. IsFiniteSet(UNION all)
  BY <1>6, <1>7, FS_UNION
<1>9. Score!Stating = UNION all
  BY <1>1, <1>2, <1>3 DEF Score!Stating
<1> QED
  BY <1>8, <1>9

\* The counts of the fields, in all and for each, and of the labels add up.
LEMMA ScoringShows == ScoringInv => EveryAnswerIsCountedOnce
<1> SUFFICES ASSUME ScoringInv PROVE Score!EveryAnswerIsCountedOnce
  BY DEF EveryAnswerIsCountedOnce
<1>1. ASSUME capability = "extraction"
      PROVE  /\ Score!Counted(Score!Extraction, Score!Cardinality(Score!Given),
                              Score!Cardinality(Score!StatedOrGiven))
             /\ \A field \in {x[2] : x \in Score!Stating} :
                  Score!Counted(Score!PerField(field),
                                Score!Cardinality({x \in Score!Given : x[2] = field}),
                                Score!Cardinality({x \in Score!StatedOrGiven : x[2] = field}))
  <2>1. IsFiniteSet(Score!Stating)
    BY <1>1, StatingIsFinite DEF ScoringInv
  <2>2. PICK S : S = Score!Stating
    OBVIOUS
  <2>3. /\ Score!Given = {x \in S : Score!AnsweredAt(x) # Null}
        /\ Score!StatedOrGiven = {x \in S : Score!AnsweredAt(x) # Null \/ Score!StatedAt(x) # Null}
    BY <2>2 DEF Score!Given, Score!StatedOrGiven
  <2>4. Score!Counted(Score!FieldTotal(S), Cardinality(Score!Given), Cardinality(Score!StatedOrGiven))
    BY <2>1, <2>2, <2>3, FieldsCounted
  <2>5. ASSUME NEW field
        PROVE  Score!Counted(Score!PerField(field),
                             Cardinality({x \in Score!Given : x[2] = field}),
                             Cardinality({x \in Score!StatedOrGiven : x[2] = field}))
    <3>1. PICK T : T = {x \in S : x[2] = field}
      OBVIOUS
    <3>2. IsFiniteSet(T)
      BY <2>1, <2>2, <3>1, FS_Subset
    <3>3. /\ {x \in Score!Given : x[2] = field} = {x \in T : Score!AnsweredAt(x) # Null}
          /\ {x \in Score!StatedOrGiven : x[2] = field}
               = {x \in T : Score!AnsweredAt(x) # Null \/ Score!StatedAt(x) # Null}
      BY <2>3, <3>1
    <3>4. Score!PerField(field) = Score!FieldTotal(T)
      BY <2>2, <3>1 DEF Score!PerField
    <3> QED
      BY <3>2, <3>3, <3>4, FieldsCounted
  <2> QED
    BY <2>2, <2>4, <2>5, Quantified DEF Score!Extraction
<1>2. ASSUME capability = "classification", NEW label \in Score!Labels
      PROVE  /\ Score!Counted(Score!LabelCounts(label),
                              Score!Cardinality({i \in 1..Len(cases) : Score!LabelAnswered(i) = label}),
                              Score!Cardinality({i \in 1..Len(cases) : cases[i].label = label}))
             /\ Score!LabelCounts(label).tp + Score!LabelCounts(label).fn > 0
  <2>1. Len(cases) \in Nat
    BY <1>2 DEF ScoringInv
  <2>2. PICK carrying : carrying = {i \in 1..Len(cases) : cases[i].label = label}
    OBVIOUS
  <2>3. Score!Counted(Score!LabelCounts(label),
                      Cardinality({i \in 1..Len(cases) : Score!LabelAnswered(i) = label}),
                      Cardinality(carrying))
    BY <2>1, <2>2, LabelsCounted
  <2>4. carrying # {}
    BY <1>2, <2>2 DEF Score!Labels
  <2>5. IsFiniteSet(carrying)
    <3>1. PICK n \in Nat : n = Len(cases)
      BY <2>1
    <3>2. IsFiniteSet(1..n) /\ carrying \subseteq 1..n
      BY <2>2, <3>1, FS_Interval
    <3> QED
      BY <3>2, FS_Subset
  <2>6. Cardinality(carrying) > 0
    BY <2>4, <2>5, FS_EmptySet, FS_CardinalityType
  <2> QED
    BY <2>2, <2>3, <2>6, Quantified DEF Score!Counted
<1> QED
  BY <1>1, <1>2 DEF Score!EveryAnswerIsCountedOnce, Score!Quantify

\* What the counts are, of a set of cases and of one read next.
FieldHits(read, kind) ==
  {x \in UNION {{<<i, field>> : field \in DOMAIN read[i].states} : i \in 1..Len(read)} :
     Score!FieldCounts(read[x[1]].states[x[2]], Score!Answered(read[x[1]].answer, x[2]))[kind] = 1}

\* The extraction counts are the numbers of values right, wrong and missed.
LEMMA ExtractionHits ==
  /\ Score!Extraction.tp = Cardinality(FieldHits(cases, "tp"))
  /\ Score!Extraction.fp = Cardinality(FieldHits(cases, "fp"))
  /\ Score!Extraction.fn = Cardinality(FieldHits(cases, "fn"))
  BY Quantified DEF Score!Extraction, Score!FieldTotal, Score!Total, Score!Quantify, Score!Stating,
                    Score!StatedAt, Score!AnsweredAt, FieldHits

\* They are finite.
LEMMA HitsAreFinite ==
  cases \in Seq(Documents) =>
    IsFiniteSet(FieldHits(cases, "tp")) /\ IsFiniteSet(FieldHits(cases, "fp")) /\ IsFiniteSet(FieldHits(cases, "fn"))
<1> SUFFICES ASSUME cases \in Seq(Documents), NEW kind PROVE IsFiniteSet(FieldHits(cases, kind))
  OBVIOUS
<1>1. PICK S : S = Score!Stating
  OBVIOUS
<1>2. IsFiniteSet(S)
  BY <1>1, StatingIsFinite
<1>3. PICK T : T = FieldHits(cases, kind)
  OBVIOUS
<1>4. T \subseteq S
  BY <1>1, <1>3 DEF FieldHits, Score!Stating
<1> QED
  BY <1>2, <1>3, <1>4, FS_Subset

\* A case answered as it states adds only to what was right.
LEMMA RightHits ==
  ASSUME NEW read \in Seq(Documents), NEW pair \in Documents,
         \A field \in DOMAIN pair.states : Score!Answered(pair.answer, field) = pair.states[field]
  PROVE  /\ FieldHits(read, "tp") \subseteq FieldHits(Append(read, pair), "tp")
         /\ FieldHits(Append(read, pair), "fp") = FieldHits(read, "fp")
         /\ FieldHits(Append(read, pair), "fn") = FieldHits(read, "fn")
<1> DEFINE next == Append(read, pair)
           Pairs(of) == UNION {{<<i, field>> : field \in DOMAIN of[i].states} : i \in 1..Len(of)}
           CountsOf(of, x) == Score!FieldCounts(of[x[1]].states[x[2]],
                                                Score!Answered(of[x[1]].answer, x[2]))
<1>1. /\ Len(read) \in Nat /\ Len(next) = Len(read) + 1
      /\ \A i \in 1..Len(read) : next[i] = read[i]
      /\ next[Len(read) + 1] = pair
  OBVIOUS
<1> HIDE DEF next
<1>2. \A x \in Pairs(read) : x[1] \in 1..Len(read) /\ x \in Pairs(next)
  BY <1>1
<1>3. \A x \in Pairs(next) :
        x \in Pairs(read) \/ (x[1] = Len(read) + 1 /\ x[2] \in DOMAIN pair.states)
  BY <1>1
<1>4. \A x \in Pairs(read) : CountsOf(next, x) = CountsOf(read, x)
  BY <1>1, <1>2
<1>5. \A x \in Pairs(next) :
        x \in Pairs(read) \/ (CountsOf(next, x)["fp"] # 1 /\ CountsOf(next, x)["fn"] # 1)
  <2> SUFFICES ASSUME NEW x \in Pairs(next), x[1] = Len(read) + 1, x[2] \in DOMAIN pair.states
               PROVE  CountsOf(next, x)["fp"] # 1 /\ CountsOf(next, x)["fn"] # 1
    BY <1>3
  <2>1. next[x[1]] = pair
    BY <1>1
  <2>2. PICK truth, answer : truth = pair.states[x[2]] /\ answer = Score!Answered(pair.answer, x[2])
    OBVIOUS
  <2>3. truth = answer
    BY <2>2
  <2>4. CountsOf(next, x) = Score!FieldCounts(truth, answer)
    BY <2>1, <2>2
  <2> HIDE DEF CountsOf
  <2> QED
    BY <2>3, <2>4, FieldOutcomes
<1>6. \A of, kind : FieldHits(of, kind) = {x \in Pairs(of) : CountsOf(of, x)[kind] = 1}
  BY DEF FieldHits
<1> HIDE DEF Pairs, CountsOf
<1>7. FieldHits(read, "tp") \subseteq FieldHits(next, "tp")
  BY <1>2, <1>4, <1>6
<1>8. FieldHits(next, "fp") = FieldHits(read, "fp")
  BY <1>2, <1>4, <1>5, <1>6
<1>9. FieldHits(next, "fn") = FieldHits(read, "fn")
  BY <1>2, <1>4, <1>5, <1>6
<1> QED
  BY <1>7, <1>8, <1>9 DEF next

RightFields ==
  capability = "extraction" /\ Score!RightAnswer(Last(cases')) =>
    /\ Score!AtMost(Score!Precision(Score!Extraction), Score!Precision(Score!Extraction'))
    /\ Score!AtMost(Score!Recall(Score!Extraction), Score!Recall(Score!Extraction'))
    /\ Score!AtMost(Score!F1(Score!Extraction), Score!F1(Score!Extraction'))

\* A document answered right lowers none of the extraction's measures.
LEMMA ScoringRight == ScoringInv /\ ScoringInv' /\ (Score!Next \/ UNCHANGED scoring) => RightFields
<1> SUFFICES ASSUME ScoringInv, ScoringInv', Score!Next \/ UNCHANGED scoring,
                    capability = "extraction", Score!RightAnswer(Last(cases'))
             PROVE  /\ Score!AtMost(Score!Precision(Score!Extraction), Score!Precision(Score!Extraction'))
                    /\ Score!AtMost(Score!Recall(Score!Extraction), Score!Recall(Score!Extraction'))
                    /\ Score!AtMost(Score!F1(Score!Extraction), Score!F1(Score!Extraction'))
  BY DEF RightFields
<1>1. PICK counts, more : counts = Score!Extraction /\ more = Score!Extraction'
  OBVIOUS
<1>2. PICK before, after : before = cases /\ after = cases'
  OBVIOUS
<1>3. /\ counts.tp = Cardinality(FieldHits(before, "tp"))
      /\ counts.fp = Cardinality(FieldHits(before, "fp"))
      /\ counts.fn = Cardinality(FieldHits(before, "fn"))
  BY <1>1, <1>2, ExtractionHits
<1>4. /\ more.tp = Cardinality(FieldHits(after, "tp"))
      /\ more.fp = Cardinality(FieldHits(after, "fp"))
      /\ more.fn = Cardinality(FieldHits(after, "fn"))
  <2>1. (/\ Score!Extraction.tp = Cardinality(FieldHits(cases, "tp"))
         /\ Score!Extraction.fp = Cardinality(FieldHits(cases, "fp"))
         /\ Score!Extraction.fn = Cardinality(FieldHits(cases, "fn")))'
    BY ExtractionHits, PTL
  <2> QED
    BY <1>1, <1>2, <2>1
<1>5. /\ before \in Seq(Documents)
      /\ \A kind \in {"tp", "fp", "fn"} : IsFiniteSet(FieldHits(before, kind))
  BY <1>2, HitsAreFinite DEF ScoringInv
<1>6. CASE after = before
  <2>1. counts.tp \in Nat /\ counts.fp \in Nat /\ counts.fn \in Nat
    BY <1>3, <1>5, FS_CardinalityType
  <2>2. more.tp \in Nat /\ more.tp >= counts.tp /\ more.fp = counts.fp /\ more.fn = counts.fn
    BY <1>3, <1>4, <1>6, <2>1
  <2> QED
    BY <1>1, <2>1, <2>2, RightValuesNeverLower
<1>7. CASE \E pair \in Documents : after = Append(before, pair)
  <2>1. PICK pair \in Documents : after = Append(before, pair)
    BY <1>7
  <2>2. Last(cases') = pair
    BY <1>2, <1>5, <2>1 DEF Last
  <2>3. \A field \in DOMAIN pair.states : Score!Answered(pair.answer, field) = pair.states[field]
    BY <2>2 DEF Score!RightAnswer
  <2>4. /\ FieldHits(before, "tp") \subseteq FieldHits(after, "tp")
        /\ FieldHits(after, "fp") = FieldHits(before, "fp")
        /\ FieldHits(after, "fn") = FieldHits(before, "fn")
    BY <1>5, <2>1, <2>3, RightHits
  <2>5. IsFiniteSet(FieldHits(after, "tp"))
    <3>1. after \in Seq(Documents)
      BY <1>5, <2>1
    <3>2. capability' = "extraction" /\ cases' \in Seq(Documents)
      BY <1>2, <3>1 DEF Score!Next, Score!ReadDocument, Score!ReadQuestion, Score!ReadClaim,
                       Score!Read, scoring
    <3>3. (cases \in Seq(Documents) =>
             IsFiniteSet(FieldHits(cases, "tp")) /\ IsFiniteSet(FieldHits(cases, "fp"))
               /\ IsFiniteSet(FieldHits(cases, "fn")))'
      BY HitsAreFinite, PTL
    <3> QED
      BY <1>2, <3>2, <3>3
  <2>6. counts.tp \in Nat /\ counts.fp \in Nat /\ counts.fn \in Nat
    BY <1>3, <1>5, FS_CardinalityType
  <2>7. more.tp \in Nat /\ more.tp >= counts.tp /\ more.fp = counts.fp /\ more.fn = counts.fn
    BY <1>3, <1>4, <2>4, <2>5, FS_CardinalityType, FS_Subset
  <2> QED
    BY <1>1, <2>6, <2>7, RightValuesNeverLower
<1>8. after = before \/ \E pair \in Documents : after = Append(before, pair)
  BY <1>2 DEF Score!Next, Score!ReadDocument, Score!ReadQuestion, Score!ReadClaim, Score!Read, scoring
<1> QED
  BY <1>6, <1>7, <1>8

-----------------------------------------------------------------------------
\* Sums of shares, over sets of any size.

Shares == Nat \X (Nat \ {0})

\* Shares add to a share, in either order.
LEMMA PlusIsAShare ==
  ASSUME NEW x \in Shares, NEW y \in Shares
  PROVE  Score!Plus(x, y) \in Shares /\ Score!Plus(x, y) = Score!Plus(y, x)
<1>1. x[1] \in Nat /\ x[2] \in Nat \ {0} /\ y[1] \in Nat /\ y[2] \in Nat \ {0}
  BY DEF Shares
<1>2. x[1] * y[2] \in Nat /\ y[1] * x[2] \in Nat /\ x[2] * y[2] \in Nat \ {0}
  BY <1>1
<1>3. x[2] * y[2] = y[2] * x[2]
  BY <1>1
<1>4. x[1] * y[2] + y[1] * x[2] = y[1] * x[2] + x[1] * y[2]
  BY <1>2
<1> QED
  BY <1>2, <1>3, <1>4 DEF Shares, Score!Plus

\* Which of two is added first makes no difference.
LEMMA PlusAssociates ==
  ASSUME NEW x \in Shares, NEW y \in Shares, NEW z \in Shares
  PROVE  Score!Plus(x, Score!Plus(y, z)) = Score!Plus(y, Score!Plus(x, z))
<1>1. PICK a, b, c, d, e, f \in Nat : x = <<a, b>> /\ y = <<c, d>> /\ z = <<e, f>>
  BY DEF Shares
<1>2. a * (d * f) + (c * f + e * d) * b = c * (b * f) + (a * f + e * b) * d
  OBVIOUS
<1>3. b * (d * f) = d * (b * f)
  OBVIOUS
<1>4. Score!Plus(x, Score!Plus(y, z)) = <<a * (d * f) + (c * f + e * d) * b, b * (d * f)>>
  BY <1>1 DEF Score!Plus
<1>5. Score!Plus(y, Score!Plus(x, z)) = <<c * (b * f) + (a * f + e * b) * d, d * (b * f)>>
  BY <1>1 DEF Score!Plus
<1> QED
  BY <1>2, <1>3, <1>4, <1>5

\* What a sum comes to over each part of a set, by the member taken first.
First(T) == CHOOSE x \in T : TRUE
StepOf(f, sum, T) == IF T = {} THEN <<0, 1>> ELSE Score!Plus(f[First(T)], sum[T \ {First(T)}])
Solves(sum, S, f) == sum = [T \in SUBSET S |-> StepOf(f, sum, T)]

\* The member taken first is a member.
LEMMA FirstIsIn == \A T : T # {} => First(T) \in T
  BY DEF First

\* The equation of a sum has a solution.
LEMMA SumExists ==
  ASSUME NEW S, IsFiniteSet(S), NEW f
  PROVE  \E sum : Solves(sum, S, f)
<1> DEFINE Stage(n) == {T \in SUBSET S : Cardinality(T) <= n}
           Upto(sum, n) == sum = [T \in Stage(n) |-> StepOf(f, sum, T)]
           Bad == {n \in Nat : \A sum : ~Upto(sum, n)}
<1>1. \A T \in SUBSET S : IsFiniteSet(T) /\ Cardinality(T) \in Nat
  BY FS_Subset, FS_CardinalityType
<1>2. ASSUME Bad # {} PROVE FALSE
  <2>1. Bad \subseteq Nat
    OBVIOUS
  <2>2. PICK n \in Bad : \A k \in Bad : n <= k
    <3> HIDE DEF Bad
    <3> QED
      BY <1>2, <2>1, LeastNatural
  <2>3. n \in Nat /\ \A sum : ~Upto(sum, n)
    BY <2>2
  <2>4. CASE n = 0
    <3>1. Stage(0) = {{}}
      <4>1. \A T \in SUBSET S : Cardinality(T) <= 0 => T = {}
        BY <1>1, FS_EmptySet
      <4>2. Cardinality({}) = 0
        BY FS_EmptySet
      <4> QED
        BY <4>1, <4>2
    <3> DEFINE sum == [T \in {{}} |-> <<0, 1>>]
    <3>2. sum = [T \in {{}} |-> StepOf(f, sum, T)]
      BY DEF StepOf
    <3>3. Upto(sum, 0)
      BY <3>1, <3>2
    <3> QED
      BY <2>3, <2>4, <3>3
  <2>5. CASE n # 0
    <3>1. n - 1 \in Nat /\ n - 1 \notin Bad
      BY <2>2, <2>3, <2>5
    <3>2. PICK less : Upto(less, n - 1)
      BY <3>1
    <3> DEFINE sum == [T \in Stage(n) |-> StepOf(f, less, T)]
    <3>3. \A T \in Stage(n - 1) : T \in Stage(n)
      BY <1>1, <2>3
    <3>4. \A T \in Stage(n - 1) : less[T] = StepOf(f, less, T)
      BY <3>2
    <3>5. \A T \in Stage(n - 1) : sum[T] = less[T]
      BY <3>3, <3>4
    <3>6. \A T \in Stage(n) : T # {} => T \ {First(T)} \in Stage(n - 1)
      <4> SUFFICES ASSUME NEW T \in SUBSET S, Cardinality(T) <= n, T # {}
                   PROVE  T \ {First(T)} \in SUBSET S /\ Cardinality(T \ {First(T)}) <= n - 1
        OBVIOUS
      <4>1. Cardinality(T \ {First(T)}) = Cardinality(T) - 1
        BY <1>1, FirstIsIn, FS_RemoveElement
      <4> QED
        BY <1>1, <2>3, <4>1
    <3> HIDE DEF sum, Stage
    <3>7. \A T \in Stage(n) : StepOf(f, sum, T) = StepOf(f, less, T)
      BY <3>5, <3>6 DEF StepOf
    <3>8. sum = [T \in Stage(n) |-> StepOf(f, sum, T)]
      BY <3>7 DEF sum
    <3> QED
      BY <2>3, <3>8
  <2> QED
    BY <2>4, <2>5
<1>3. Cardinality(S) \in Nat /\ Cardinality(S) \notin Bad
  BY <1>1, <1>2
<1>4. PICK sum : Upto(sum, Cardinality(S))
  BY <1>3
<1>5. Stage(Cardinality(S)) = SUBSET S
  BY FS_Subset
<1> QED
  BY <1>4, <1>5 DEF Solves

\* A sum over each part of S: of none it is zero, and a member adds its share to it.
Adds(sum, S, f) ==
  /\ sum \in [SUBSET S -> Shares]
  /\ sum[{}] = <<0, 1>>
  /\ \A T \in SUBSET S : \A x \in S \ T : sum[T \union {x}] = Score!Plus(f[x], sum[T])

\* A sum of shares is a share.
LEMMA SumsAreShares ==
  ASSUME NEW S, IsFiniteSet(S), NEW f \in [S -> Shares],
         NEW sum, Solves(sum, S, f)
  PROVE  sum \in [SUBSET S -> Shares]
<1> DEFINE Bad == {n \in Nat : \E T \in SUBSET S : Cardinality(T) = n /\ sum[T] \notin Shares}
<1>1. \A T \in SUBSET S : IsFiniteSet(T) /\ Cardinality(T) \in Nat
  BY FS_Subset, FS_CardinalityType
<1>2. \A T \in SUBSET S : sum[T] = StepOf(f, sum, T)
  BY DEF Solves
<1>3. ASSUME Bad # {} PROVE FALSE
  <2>1. Bad \subseteq Nat
    OBVIOUS
  <2>2. PICK n \in Bad : \A k \in Bad : n <= k
    <3> HIDE DEF Bad
    <3> QED
      BY <1>3, <2>1, LeastNatural
  <2>3. PICK T \in SUBSET S : Cardinality(T) = n /\ sum[T] \notin Shares
    BY <2>2
  <2>4. CASE T = {}
    BY <1>2, <2>3, <2>4 DEF StepOf, Shares
  <2>5. CASE T # {}
    <3>1. PICK x \in T : x = First(T)
      BY <2>5, FirstIsIn
    <3>2. T \ {x} \in SUBSET S /\ Cardinality(T \ {x}) = n - 1
      BY <1>1, <2>3, <3>1, FS_RemoveElement
    <3>3. n - 1 \in Nat /\ n \in Nat
      BY <1>1, <2>2, <3>2
    <3>4. n - 1 \notin Bad
      <4> HIDE DEF Bad
      <4> QED
        BY <2>2, <3>3
    <3>5. sum[T \ {x}] \in Shares
      BY <3>2, <3>3, <3>4
    <3>6. f[x] \in Shares
      OBVIOUS
    <3>7. sum[T] = Score!Plus(f[x], sum[T \ {x}])
      BY <1>2, <2>5, <3>1 DEF StepOf
    <3> QED
      BY <2>3, <3>5, <3>6, <3>7, PlusIsAShare
  <2> QED
    BY <2>4, <2>5
<1>4. \A T \in SUBSET S : sum[T] \in Shares
  BY <1>1, <1>3
<1> QED
  BY <1>4 DEF Solves

\* Whichever member is taken first.
LEMMA AnyMemberFirst ==
  ASSUME NEW S, IsFiniteSet(S), NEW f \in [S -> Shares],
         NEW sum, Solves(sum, S, f)
  PROVE  Adds(sum, S, f)
<1> DEFINE Wrong(T) == \E x \in T : sum[T] # Score!Plus(f[x], sum[T \ {x}])
           Bad == {n \in Nat : \E T \in SUBSET S : Cardinality(T) = n /\ Wrong(T)}
<1>1. \A T \in SUBSET S : IsFiniteSet(T) /\ Cardinality(T) \in Nat
  BY FS_Subset, FS_CardinalityType
<1>2. sum \in [SUBSET S -> Shares]
  BY SumsAreShares
<1>3. \A T \in SUBSET S : sum[T] = StepOf(f, sum, T)
  BY DEF Solves
<1>4. ASSUME Bad # {} PROVE FALSE
  <2>1. Bad \subseteq Nat
    OBVIOUS
  <2>2. PICK n \in Bad : \A k \in Bad : n <= k
    <3> HIDE DEF Bad
    <3> QED
      BY <1>4, <2>1, LeastNatural
  <2>3. PICK T \in SUBSET S : Cardinality(T) = n /\ Wrong(T)
    BY <2>2
  <2>4. PICK x \in T : sum[T] # Score!Plus(f[x], sum[T \ {x}])
    BY <2>3
  <2>5. PICK y \in T : y = First(T)
    BY FirstIsIn
  <2>6. sum[T] = Score!Plus(f[y], sum[T \ {y}])
    BY <1>3, <2>5 DEF StepOf
  <2>7. x # y
    BY <2>4, <2>6
  <2>8. /\ Cardinality(T \ {x}) = n - 1 /\ Cardinality(T \ {y}) = n - 1
        /\ T \ {x} \in SUBSET S /\ T \ {y} \in SUBSET S
    BY <1>1, <2>3, FS_RemoveElement
  <2>9. n - 1 \in Nat /\ n \in Nat /\ n - 1 < n
    BY <1>1, <2>2, <2>8
  <2>10. n - 1 \notin Bad
    <3> HIDE DEF Bad
    <3> QED
      BY <2>2, <2>9
  <2>11. ~Wrong(T \ {x}) /\ ~Wrong(T \ {y})
    BY <2>8, <2>9, <2>10
  <2>12. PICK U \in SUBSET S : U = (T \ {x}) \ {y} /\ U = (T \ {y}) \ {x}
    OBVIOUS
  <2>13. /\ sum[T \ {x}] = Score!Plus(f[y], sum[U])
         /\ sum[T \ {y}] = Score!Plus(f[x], sum[U])
    BY <2>7, <2>11, <2>12
  <2>14. f[x] \in Shares /\ f[y] \in Shares /\ sum[U] \in Shares
    BY <1>2
  <2>15. Score!Plus(f[x], Score!Plus(f[y], sum[U])) = Score!Plus(f[y], Score!Plus(f[x], sum[U]))
    BY <2>14, PlusAssociates
  <2> QED
    BY <2>4, <2>6, <2>13, <2>15
<1>5. \A T \in SUBSET S : ~Wrong(T)
  BY <1>1, <1>4
<1>6. sum[{}] = <<0, 1>>
  BY <1>3 DEF StepOf
<1>7. ASSUME NEW T \in SUBSET S, NEW x \in S \ T
      PROVE  sum[T \union {x}] = Score!Plus(f[x], sum[T])
  <2>1. T = (T \union {x}) \ {x} /\ x \in T \union {x} /\ T \union {x} \in SUBSET S
    OBVIOUS
  <2> QED
    BY <1>5, <2>1
<1> QED
  BY <1>2, <1>6, <1>7 DEF Adds

\* What is summed is a function's shares, one by one and in any order.
LEMMA SumAdds ==
  ASSUME NEW S, IsFiniteSet(S), NEW f \in [S -> Shares]
  PROVE  \E sum : Adds(sum, S, f) /\ Score!SumOf(f) = sum[S]
<1> DEFINE sum == CHOOSE it : Solves(it, S, f)
<1>1. \E it : Solves(it, S, f)
  BY SumExists
<1>2. Solves(sum, S, f)
  BY <1>1
<1>3. Score!SumOf(f) = sum[S]
  <2>1. DOMAIN f = S
    OBVIOUS
  <2> QED
    BY <2>1 DEF Score!SumOf, Score!FoldFunction, Score!FoldFunctionOnSet, Score!MapThenFoldSet,
                Solves, StepOf, First
<1> HIDE DEF sum
<1>4. Adds(sum, S, f)
  BY <1>2, AnyMemberFirst
<1> QED
  BY <1>3, <1>4

\* Shares are ordered, and a sum keeps the order.
LEMMA Scaled ==
  ASSUME NEW a \in Int, NEW b \in Int, NEW c \in Nat, a <= b
  PROVE  a * c <= b * c
<1>1. PICK k \in Nat : b = a + k
  <2>1. b - a \in Nat /\ b = a + (b - a)
    OBVIOUS
  <2> QED
    BY <2>1
<1>2. b * c = a * c + k * c
  BY <1>1
<1>3. k * c \in Nat
  OBVIOUS
<1> QED
  BY <1>2, <1>3

\* A factor that is not zero can be cancelled.
LEMMA Cancelled ==
  ASSUME NEW a \in Int, NEW b \in Int, NEW c \in Nat \ {0}, a * c <= b * c
  PROVE  a <= b
<1> SUFFICES ASSUME b < a PROVE FALSE
  OBVIOUS
<1>1. PICK k \in Nat : a = b + k + 1
  <2>1. a - b - 1 \in Nat /\ a = b + (a - b - 1) + 1
    OBVIOUS
  <2> QED
    BY <2>1
<1>2. a * c = b * c + k * c + c
  BY <1>1
<1>3. k * c \in Nat
  OBVIOUS
<1> QED
  BY <1>2, <1>3

\* A share is a numerator and a denominator.
LEMMA Pair ==
  ASSUME NEW x \in Shares
  PROVE  \E a \in Nat, b \in Nat \ {0} : x = <<a, b>> /\ x[1] = a /\ x[2] = b
  BY DEF Shares

\* At most is transitive: cross-multiply, and cancel what the middle share divides by.
LEMMA AtMostIsTransitive ==
  ASSUME NEW x \in Shares, NEW y \in Shares, NEW z \in Shares, Score!AtMost(x, y), Score!AtMost(y, z)
  PROVE  Score!AtMost(x, z)
<1>1. PICK a \in Nat, b \in Nat \ {0} : x[1] = a /\ x[2] = b
  BY Pair
<1>2. PICK c \in Nat, d \in Nat \ {0} : y[1] = c /\ y[2] = d
  BY Pair
<1>3. PICK e \in Nat, f \in Nat \ {0} : z[1] = e /\ z[2] = f
  BY Pair
<1>4. a * d <= c * b /\ c * f <= e * d
  BY <1>1, <1>2, <1>3 DEF Score!AtMost
<1>5. (a * d) * f <= (c * b) * f /\ (c * f) * b <= (e * d) * b
  BY <1>4, Scaled
<1>6. (a * f) * d <= (e * b) * d
  <2>1. (a * d) * f = (a * f) * d /\ (c * b) * f = (c * f) * b /\ (e * d) * b = (e * b) * d
    OBVIOUS
  <2> QED
    BY <1>5, <2>1
<1>7. a * f <= e * b
  BY <1>6, Cancelled
<1> QED
  BY <1>1, <1>3, <1>7 DEF Score!AtMost

\* Larger shares add to a larger sum.
LEMMA PlusKeepsOrder ==
  ASSUME NEW x \in Shares, NEW y \in Shares, NEW u \in Shares, NEW v \in Shares,
         Score!AtMost(x, y), Score!AtMost(u, v)
  PROVE  Score!AtMost(Score!Plus(x, u), Score!Plus(y, v))
<1>1. PICK a \in Nat, b \in Nat \ {0} : x[1] = a /\ x[2] = b
  BY Pair
<1>2. PICK c \in Nat, d \in Nat \ {0} : y[1] = c /\ y[2] = d
  BY Pair
<1>3. PICK e \in Nat, f \in Nat \ {0} : u[1] = e /\ u[2] = f
  BY Pair
<1>4. PICK g \in Nat, h \in Nat \ {0} : v[1] = g /\ v[2] = h
  BY Pair
<1>5. a * d <= c * b /\ e * h <= g * f
  BY <1>1, <1>2, <1>3, <1>4 DEF Score!AtMost
<1>6. (a * d) * (f * h) <= (c * b) * (f * h) /\ (e * h) * (b * d) <= (g * f) * (b * d)
  <2>1. f * h \in Nat /\ b * d \in Nat /\ a * d \in Int /\ c * b \in Int /\ e * h \in Int /\ g * f \in Int
    OBVIOUS
  <2> QED
    BY <1>5, <2>1, Scaled
<1>7. /\ (a * f + e * b) * (d * h) = (a * d) * (f * h) + (e * h) * (b * d)
      /\ (c * h + g * d) * (b * f) = (c * b) * (f * h) + (g * f) * (b * d)
  OBVIOUS
<1>8. (a * f + e * b) * (d * h) <= (c * h + g * d) * (b * f)
  BY <1>6, <1>7
<1>9. Score!Plus(x, u) = <<a * f + e * b, b * f>> /\ Score!Plus(y, v) = <<c * h + g * d, d * h>>
  BY <1>1, <1>2, <1>3, <1>4 DEF Score!Plus
<1> QED
  BY <1>8, <1>9 DEF Score!AtMost

\* Shares of one whole are added over it.
LEMMA OneDenominator ==
  ASSUME NEW a \in Nat, NEW b \in Nat, NEW d \in Nat \ {0}
  PROVE  Score!Same(Score!Plus(<<a, d>>, <<b, d>>), <<a + b, d>>)
<1>1. Score!Plus(<<a, d>>, <<b, d>>) = <<a * d + b * d, d * d>>
  BY DEF Score!Plus
<1>2. (a * d + b * d) * d = (a + b) * (d * d)
  OBVIOUS
<1>3. (a * d + b * d) * d \in Int
  OBVIOUS
<1> QED
  BY <1>1, <1>2, <1>3 DEF Score!Same, Score!AtMost

\* A sum over more, each share no smaller, is no smaller.
LEMMA SumsGrow ==
  ASSUME NEW S, IsFiniteSet(S), NEW R, S \subseteq R, NEW f \in [S -> Shares], NEW g \in [R -> Shares],
         NEW less, Adds(less, S, f), NEW more, Adds(more, R, g),
         \A x \in S : Score!AtMost(f[x], g[x])
  PROVE  Score!AtMost(less[S], more[S])
<1> DEFINE Good == {T \in SUBSET S : Score!AtMost(less[T], more[T])}
<1>1. {} \in Good
  <2>1. less[{}] = <<0, 1>> /\ more[{}] = <<0, 1>>
    BY DEF Adds
  <2> QED
    BY <2>1 DEF Score!AtMost
<1>2. ASSUME NEW T \in SUBSET S, NEW x \in S \ T, T \in Good
      PROVE  T \union {x} \in Good
  <2>1. less[T] \in Shares /\ more[T] \in Shares /\ f[x] \in Shares /\ g[x] \in Shares
    BY DEF Adds
  <2>2. /\ less[T \union {x}] = Score!Plus(f[x], less[T])
        /\ more[T \union {x}] = Score!Plus(g[x], more[T])
    BY DEF Adds
  <2>3. Score!AtMost(less[T \union {x}], more[T \union {x}])
    BY <1>2, <2>1, <2>2, PlusKeepsOrder
  <2> QED
    BY <2>3
<1>3. S \in Good
  <2> HIDE DEF Good
  <2> QED
    BY <1>1, <1>2, AddingOneByOne
<1> QED
  BY <1>3

\* A sum of shares that are each at most a part of d is at most the sum of the parts.
LEMMA SumIsBounded ==
  ASSUME NEW S, IsFiniteSet(S), NEW Q \in SUBSET S, NEW f \in [S -> Shares],
         NEW sum, Adds(sum, S, f), NEW c \in Nat, NEW e \in Nat, NEW d \in Nat \ {0},
         \A x \in Q : Score!AtMost(f[x], <<c + e, d>>),
         \A x \in S \ Q : Score!AtMost(f[x], <<e, d>>)
  PROVE  Score!AtMost(sum[S], <<c * Cardinality(Q) + e * Cardinality(S), d>>)
<1> DEFINE Bound(T) == c * Cardinality(T \intersect Q) + e * Cardinality(T)
           Good == {T \in SUBSET S : Score!AtMost(sum[T], <<Bound(T), d>>)}
<1>1. \A T \in SUBSET S : /\ IsFiniteSet(T) /\ IsFiniteSet(T \intersect Q)
                          /\ Cardinality(T) \in Nat /\ Cardinality(T \intersect Q) \in Nat
  <2>1. \A T \in SUBSET S : IsFiniteSet(T) /\ IsFiniteSet(T \intersect Q)
    BY FS_Subset
  <2> QED
    BY <2>1, FS_CardinalityType
<1>2. {} \in Good
  <2>1. sum[{}] = <<0, 1>>
    BY DEF Adds
  <2>2. Cardinality({}) = 0 /\ {} \intersect Q = {}
    BY FS_EmptySet
  <2>3. Bound({}) = 0
    BY <2>2
  <2> QED
    BY <2>1, <2>3 DEF Score!AtMost
<1>3. ASSUME NEW T \in SUBSET S, NEW x \in S \ T, T \in Good
      PROVE  T \union {x} \in Good
  <2>1. PICK n, k \in Nat : n = Cardinality(T) /\ k = Cardinality(T \intersect Q)
    BY <1>1
  <2>2. Cardinality(T \union {x}) = n + 1
    BY <1>1, <2>1, FS_AddElement
  <2>3. PICK b \in Nat : b = Bound(T)
    BY <2>1
  <2>4. PICK a \in Nat : Score!AtMost(f[x], <<a, d>>) /\ Bound(T \union {x}) = a + b
    <3>1. CASE x \in Q
      <4>1. (T \union {x}) \intersect Q = (T \intersect Q) \union {x} /\ x \notin T \intersect Q
        BY <3>1
      <4>2. Cardinality((T \union {x}) \intersect Q) = k + 1
        BY <1>1, <2>1, <4>1, FS_AddElement
      <4>3. c * (k + 1) + e * (n + 1) = (c + e) + (c * k + e * n)
        OBVIOUS
      <4>4. Bound(T \union {x}) = (c + e) + b
        BY <2>1, <2>2, <2>3, <4>2, <4>3
      <4> QED
        BY <3>1, <4>4
    <3>2. CASE x \notin Q
      <4>1. (T \union {x}) \intersect Q = T \intersect Q
        BY <3>2
      <4>2. c * k + e * (n + 1) = e + (c * k + e * n)
        OBVIOUS
      <4>3. Bound(T \union {x}) = e + b
        BY <2>1, <2>2, <2>3, <4>1, <4>2
      <4> QED
        BY <3>2, <4>3
    <3> QED
      BY <3>1, <3>2
  <2> HIDE DEF Bound
  <2>5. sum[T \union {x}] = Score!Plus(f[x], sum[T])
    BY DEF Adds
  <2>6. /\ f[x] \in Shares /\ sum[T] \in Shares /\ sum[T \union {x}] \in Shares
        /\ <<a, d>> \in Shares /\ <<b, d>> \in Shares /\ <<a + b, d>> \in Shares
    BY DEF Adds, Shares
  <2>7. Score!AtMost(sum[T \union {x}], Score!Plus(<<a, d>>, <<b, d>>))
    BY <1>3, <2>3, <2>4, <2>5, <2>6, PlusKeepsOrder
  <2>8. Score!AtMost(Score!Plus(<<a, d>>, <<b, d>>), <<a + b, d>>)
    BY OneDenominator DEF Score!Same
  <2>9. Score!AtMost(sum[T \union {x}], <<a + b, d>>)
    BY <2>6, <2>7, <2>8, PlusIsAShare, AtMostIsTransitive
  <2> QED
    BY <2>4, <2>9
<1>4. S \in Good
  <2> HIDE DEF Good
  <2> QED
    BY <1>2, <1>3, AddingOneByOne
<1>5. S \intersect Q = Q
  OBVIOUS
<1> QED
  BY <1>4, <1>5

-----------------------------------------------------------------------------
\* Scoring: retrieval.

\* A mean is the sum, divided by how many there are.
LEMMA MeanIs ==
  ASSUME NEW S, NEW f, DOMAIN f = S
  PROVE  Score!Mean(f) = IF Cardinality(S) = 0
                         THEN <<0, 1>>
                         ELSE <<Score!SumOf(f)[1], Score!SumOf(f)[2] * Cardinality(S)>>
  BY Quantified DEF Score!Mean

\* A reciprocal rank is zero or one part of a number.
LEMMA RankIs ==
  ASSUME NEW ranked, Len(ranked) \in Nat, NEW expected
  PROVE  LET rank == Score!ReciprocalRank(ranked, expected)
         IN  rank = <<0, 1>> \/ \E m \in Nat \ {0} : rank = <<1, m>>
<1> DEFINE at == {p \in 1..Len(ranked) : ranked[p].id \in expected}
           rank == Score!ReciprocalRank(ranked, expected)
<1>1. rank = IF at = {} THEN <<0, 1>> ELSE <<1, Score!Min(at)>>
  BY DEF Score!ReciprocalRank
<1>2. at \subseteq Nat \ {0}
  OBVIOUS
<1> HIDE DEF at, rank
<1>3. CASE at # {}
  <2>1. \E least \in at : \A p \in at : least <= p
    BY <1>2, <1>3, LeastNatural
  <2>2. Score!Min(at) \in at
    BY <2>1 DEF Score!Min
  <2> QED
    BY <1>1, <1>2, <1>3, <2>2 DEF rank
<1> QED
  BY <1>1, <1>3 DEF rank

\* An answered question's clauses are a list.
LEMMA AnswersAreLists ==
  ASSUME NEW read \in Seq(Questions), NEW i \in 1..Len(read)
  PROVE  /\ read[i].answer # Null =>
              /\ Len(read[i].answer.retrieved) \in Nat
              /\ DOMAIN read[i].answer.retrieved = 1..Len(read[i].answer.retrieved)
<1>1. read[i] \in Questions
  OBVIOUS
<1> QED
  BY <1>1, QuestionsAssumption

\* What is retrieved for a question is a list, an empty one if it was not answered.
LEMMA RetrievedIsAList ==
  ASSUME cases \in Seq(Questions), NEW i \in 1..Len(cases)
  PROVE  /\ Len(Score!Retrieved(i)) \in Nat
         /\ DOMAIN Score!Retrieved(i) = 1..Len(Score!Retrieved(i))
<1>1. CASE cases[i].answer = Null
  <2>1. Score!Retrieved(i) = <<>>
    BY <1>1 DEF Score!Retrieved
  <2>2. Len(<<>>) = 0 /\ DOMAIN <<>> = 1..0
    OBVIOUS
  <2> QED
    BY <2>1, <2>2
<1>2. CASE cases[i].answer # Null
  BY <1>2, AnswersAreLists DEF Score!Retrieved
<1> QED
  BY <1>1, <1>2

\* What is asked of a depth is one less than it and one more than it.
LEMMA RankIsBounded ==
  ASSUME NEW ranked, Len(ranked) \in Nat, NEW expected
  PROVE  LET rank == Score!ReciprocalRank(ranked, expected)
             hit == Score!HitAt(ranked, expected, Depth)
         IN  /\ rank \in Shares
             /\ hit => Score!AtMost(rank, <<(Depth + 1) + 1, Depth + 1>>)
             /\ ~hit => Score!AtMost(rank, <<1, Depth + 1>>)
<1>1. PICK rank : rank = Score!ReciprocalRank(ranked, expected)
  OBVIOUS
<1>2. rank = <<0, 1>> \/ \E m \in Nat \ {0} : rank = <<1, m>>
  BY <1>1, RankIs
<1>3. Score!HitAt(ranked, expected, Depth) <=> rank # <<0, 1>> /\ rank[2] <= Depth
  BY <1>1, HitsAreRanks, DepthAssumption
<1>4. Depth \in Nat
  BY DepthAssumption
<1>5. CASE rank = <<0, 1>>
  BY <1>1, <1>3, <1>4, <1>5 DEF Score!AtMost, Shares
<1>6. ASSUME NEW m \in Nat \ {0}, rank = <<1, m>>
      PROVE  /\ rank \in Shares
             /\ m <= Depth => Score!AtMost(rank, <<(Depth + 1) + 1, Depth + 1>>)
             /\ ~(m <= Depth) => Score!AtMost(rank, <<1, Depth + 1>>)
  <2>1. rank \in Shares
    BY <1>6 DEF Shares
  <2>2. ((Depth + 1) + 1) * m >= 1 * (Depth + 1)
    <3>1. PICK k \in Nat : m = k + 1
      <4>1. m - 1 \in Nat /\ m = (m - 1) + 1
        OBVIOUS
      <4> QED
        BY <4>1
    <3>2. ((Depth + 1) + 1) * m = ((Depth + 1) + 1) * k + Depth + 2
      BY <1>4, <3>1
    <3>3. ((Depth + 1) + 1) * k \in Nat
      BY <1>4
    <3> QED
      BY <1>4, <3>2, <3>3
  <2>3. Score!AtMost(rank, <<(Depth + 1) + 1, Depth + 1>>)
    BY <1>4, <1>6, <2>2 DEF Score!AtMost
  <2>4. ~(m <= Depth) => Score!AtMost(rank, <<1, Depth + 1>>)
    BY <1>4, <1>6 DEF Score!AtMost
  <2> QED
    BY <2>1, <2>3, <2>4
<1>7. ASSUME NEW m \in Nat \ {0}, rank = <<1, m>>
      PROVE  Score!HitAt(ranked, expected, Depth) <=> m <= Depth
  <2>1. rank # <<0, 1>> /\ rank[2] = m
    BY <1>7
  <2> QED
    BY <1>3, <2>1
<1> QED
  BY <1>1, <1>2, <1>5, <1>6, <1>7

\* A hit rate at the depth is short of the mean reciprocal rank by less than the
\* rank after it is worth.
LEMMA HitsBoundRanks ==
  ASSUME cases \in Seq(Questions)
  PROVE  Score!AtMost(Score!MeanReciprocalRank,
                      Score!Plus(Score!HitRate(Depth), <<1, Depth + 1>>))
<1>1. PICK n \in Nat : n = Len(cases)
  OBVIOUS
<1>2. PICK Q : Q = {i \in 1..n : Score!HitAt(Score!Retrieved(i), cases[i].expected, Depth)}
  OBVIOUS
<1>3. PICK f : f = [i \in 1..n |-> Score!ReciprocalRank(Score!Retrieved(i), cases[i].expected)]
  OBVIOUS
<1>4. Depth \in Nat
  BY DepthAssumption
<1>5. IsFiniteSet(1..n) /\ Cardinality(1..n) = n
  BY FS_Interval
<1>6. Q \in SUBSET (1..n) /\ IsFiniteSet(Q) /\ Cardinality(Q) \in Nat
  <2>1. Q \in SUBSET (1..n)
    BY <1>2
  <2>2. IsFiniteSet(Q)
    BY <1>5, <2>1, FS_Subset
  <2> QED
    BY <2>1, <2>2, FS_CardinalityType
<1>7. \A i \in 1..n :
        /\ f[i] \in Shares
        /\ i \in Q => Score!AtMost(f[i], <<(Depth + 1) + 1, Depth + 1>>)
        /\ i \notin Q => Score!AtMost(f[i], <<1, Depth + 1>>)
  <2> SUFFICES ASSUME NEW i \in 1..n
      PROVE /\ f[i] \in Shares
            /\ i \in Q => Score!AtMost(f[i], <<(Depth + 1) + 1, Depth + 1>>)
            /\ i \notin Q => Score!AtMost(f[i], <<1, Depth + 1>>)
    OBVIOUS
  <2>1. PICK ranked, expected : ranked = Score!Retrieved(i) /\ expected = cases[i].expected
    OBVIOUS
  <2>2. Len(ranked) \in Nat
    BY <1>1, <2>1, RetrievedIsAList
  <2>3. f[i] = Score!ReciprocalRank(ranked, expected)
    BY <1>3, <2>1
  <2>4. i \in Q <=> Score!HitAt(ranked, expected, Depth)
    BY <1>2, <2>1
  <2> QED
    BY <2>2, <2>3, <2>4, RankIsBounded
<1>8. f \in [1..n -> Shares]
  BY <1>3, <1>7
<1>9. PICK sum : Adds(sum, 1..n, f) /\ Score!SumOf(f) = sum[1..n]
  BY <1>5, <1>8, SumAdds
<1>10. PICK q \in Nat : q = Cardinality(Q)
  BY <1>6
<1>11. Score!AtMost(sum[1..n], <<(Depth + 1) * q + 1 * n, Depth + 1>>)
  <2>1. Depth + 1 \in Nat \ {0}
    BY <1>4
  <2>2. \A i \in Q : Score!AtMost(f[i], <<(Depth + 1) + 1, Depth + 1>>)
    BY <1>6, <1>7
  <2>3. \A i \in (1..n) \ Q : Score!AtMost(f[i], <<1, Depth + 1>>)
    BY <1>7
  <2>4. Score!AtMost(sum[1..n], <<(Depth + 1) * Cardinality(Q) + 1 * Cardinality(1..n), Depth + 1>>)
    BY <1>5, <1>6, <1>8, <1>9, <2>1, <2>2, <2>3, SumIsBounded
  <2> QED
    BY <1>5, <1>10, <2>4
<1>12. sum[1..n] \in Shares
  BY <1>9 DEF Adds
<1>13. PICK a \in Nat, b \in Nat \ {0} : sum[1..n][1] = a /\ sum[1..n][2] = b
  BY <1>12, Pair
<1>14. a * (Depth + 1) <= ((Depth + 1) * q + 1 * n) * b
  BY <1>11, <1>13 DEF Score!AtMost
<1>15. Score!MeanReciprocalRank = IF n = 0 THEN <<0, 1>> ELSE <<a, b * n>>
  <2>1. Score!MeanReciprocalRank = Score!Mean(f)
    BY <1>1, <1>3 DEF Score!MeanReciprocalRank
  <2>2. DOMAIN f = 1..n
    BY <1>3
  <2> QED
    BY <1>5, <1>9, <1>13, <2>1, <2>2, MeanIs
<1>16. Score!HitRate(Depth) = IF n = 0 THEN <<0, 1>> ELSE <<q, n>>
  BY <1>1, <1>2, <1>10, Quantified DEF Score!HitRate, Score!Ratio, Score!Quantify
<1>17. CASE n = 0
  <2>1. Score!Plus(Score!HitRate(Depth), <<1, Depth + 1>>) = <<0 * (Depth + 1) + 1 * 1, 1 * (Depth + 1)>>
    BY <1>16, <1>17 DEF Score!Plus
  <2> QED
    BY <1>4, <1>15, <1>17, <2>1 DEF Score!AtMost
<1>18. CASE n # 0
  <2>1. Score!Plus(Score!HitRate(Depth), <<1, Depth + 1>>) = <<q * (Depth + 1) + 1 * n, n * (Depth + 1)>>
    BY <1>16, <1>18 DEF Score!Plus
  <2>2. a * (Depth + 1) \in Int /\ ((Depth + 1) * q + 1 * n) * b \in Int
    BY <1>4
  <2>3. (a * (Depth + 1)) * n <= (((Depth + 1) * q + 1 * n) * b) * n
    BY <1>14, <2>2, Scaled
  <2>4. /\ (a * (Depth + 1)) * n = a * (n * (Depth + 1))
        /\ (((Depth + 1) * q + 1 * n) * b) * n = (q * (Depth + 1) + 1 * n) * (b * n)
    BY <1>4
  <2>5. a * (n * (Depth + 1)) <= (q * (Depth + 1) + 1 * n) * (b * n)
    BY <2>3, <2>4
  <2> QED
    BY <1>15, <1>18, <2>1, <2>5 DEF Score!AtMost
<1> QED
  BY <1>17, <1>18

\* The three readings of a ranked list, together.
LEMMA RetrievalShows == ScoringInv => RetrievalReadsItsList
<1> SUFFICES ASSUME ScoringInv, capability = "retrieval"
    PROVE /\ \A i \in 1..Len(cases), k \in 1..Depth :
               LET rank == Score!ReciprocalRank(Score!Retrieved(i), cases[i].expected)
               IN  Score!HitAt(Score!Retrieved(i), cases[i].expected, k)
                     <=> rank # <<0, 1>> /\ rank[2] <= k
          /\ Score!AtMost(Score!MeanReciprocalRank,
                          Score!Plus(Score!HitRate(Depth), <<1, Depth + 1>>))
          /\ \A i \in 1..Len(cases) :
               Score!IsInjective([p \in 1..Len(Score!Retrieved(i)) |-> Score!Retrieved(i)[p].id]) =>
                 \A p \in 1..Len(Score!Cited(i)) :
                   p \in Score!ValidCitations(i) <=>
                     \E clause \in Score!ToSet(Score!Retrieved(i)) :
                       clause.id = Score!Cited(i)[p].id
                         /\ (Score!Cited(i)[p].page = clause.page
                               \/ Null \in {Score!Cited(i)[p].page, clause.page})
  BY Zenon DEF RetrievalReadsItsList, Score!RetrievalReadsItsList
<1>1. cases \in Seq(Questions)
  BY DEF ScoringInv
<1>2. ASSUME NEW i \in 1..Len(cases), NEW k \in 1..Depth
      PROVE  LET rank == Score!ReciprocalRank(Score!Retrieved(i), cases[i].expected)
             IN  Score!HitAt(Score!Retrieved(i), cases[i].expected, k)
                   <=> rank # <<0, 1>> /\ rank[2] <= k
  <2>1. Len(Score!Retrieved(i)) \in Nat /\ k \in Nat
    BY <1>1, RetrievedIsAList
  <2> QED
    BY <2>1, HitsAreRanks
<1>3. ASSUME NEW i \in 1..Len(cases),
             Score!IsInjective([p \in 1..Len(Score!Retrieved(i)) |-> Score!Retrieved(i)[p].id]),
             NEW p \in 1..Len(Score!Cited(i))
      PROVE  p \in Score!ValidCitations(i) <=>
               \E clause \in Score!ToSet(Score!Retrieved(i)) :
                 clause.id = Score!Cited(i)[p].id
                   /\ (Score!Cited(i)[p].page = clause.page
                         \/ Null \in {Score!Cited(i)[p].page, clause.page})
  <2>1. PICK ranked, citation : ranked = Score!Retrieved(i) /\ citation = Score!Cited(i)[p]
    OBVIOUS
  <2>2. Len(ranked) \in Nat /\ DOMAIN ranked = 1..Len(ranked)
    BY <1>1, <2>1, RetrievedIsAList
  <2>3. \A a, b \in 1..Len(ranked) : ranked[a].id = ranked[b].id => a = b
    BY <1>3, <2>1 DEF Score!IsInjective
  <2>4. p \in Score!ValidCitations(i) <=> Score!Resolves(ranked, citation)
    BY <2>1 DEF Score!ValidCitations
  <2>5. Score!ToSet(ranked) = ToSet(ranked)
    BY DEF Score!ToSet, ToSet
  <2> QED
    BY <2>1, <2>2, <2>3, <2>4, <2>5, CitationsAreRetrieved
<1> QED
  BY <1>1, <1>2, <1>3, HitsBoundRanks

-----------------------------------------------------------------------------
\* Scoring: classification, and what a case answered right adds.

LabelsOf(read) == {read[i].label : i \in 1..Len(read)}
AnsweredIn(read, i) == IF read[i].answer = Null THEN Null ELSE read[i].answer.label
LabelHits(read, label, kind) ==
  {i \in 1..Len(read) : Score!LabelCount(read[i].label, AnsweredIn(read, i), label)[kind] = 1}
CountsIn(read, label) ==
  [tp |-> Cardinality(LabelHits(read, label, "tp")),
   fp |-> Cardinality(LabelHits(read, label, "fp")),
   fn |-> Cardinality(LabelHits(read, label, "fn"))]
Recalls(read) == [label \in LabelsOf(read) |-> Score!Recall(CountsIn(read, label))]
Routed(read) == {i \in 1..Len(read) : read[i].answer # Null /\ read[i].answer.routed}

\* The set's measures as functions of the cases read, to compare them before and after.
LEMMA MeasuresAre ==
  /\ Score!MacroAverage(Score!Recall) = Score!Mean(Recalls(cases))
  /\ Score!RoutingAccuracy = Score!Ratio(Cardinality(Routed(cases)), Len(cases))
<1>1. Score!Labels = LabelsOf(cases)
  BY DEF Score!Labels, LabelsOf
<1>2. \A label : Score!Recall(Score!LabelCounts(label)) = Score!Recall(CountsIn(cases, label))
  <2> SUFFICES ASSUME NEW label
      PROVE Score!Recall(Score!LabelCounts(label)) = Score!Recall(CountsIn(cases, label))
    OBVIOUS
  <2>1. /\ Score!LabelCounts(label).tp = Cardinality(LabelHits(cases, label, "tp"))
        /\ Score!LabelCounts(label).fn = Cardinality(LabelHits(cases, label, "fn"))
    BY Quantified DEF Score!LabelCounts, Score!Total, Score!Quantify, LabelHits, AnsweredIn,
                      Score!LabelAnswered
  <2> QED
    BY <2>1 DEF Score!Recall, CountsIn
<1>3. [label \in Score!Labels |-> Score!Recall(Score!LabelCounts(label))] = Recalls(cases)
  BY <1>1, <1>2 DEF Recalls
<1>4. Score!MacroAverage(Score!Recall) = Score!Mean(Recalls(cases))
  BY <1>3 DEF Score!MacroAverage
<1>5. Score!RoutingAccuracy = Score!Ratio(Cardinality(Routed(cases)), Len(cases))
  BY Quantified DEF Score!RoutingAccuracy, Score!Quantify, Routed
<1> QED
  BY <1>4, <1>5

\* The counts of a label are numbers.
LEMMA CountsAreNatural ==
  ASSUME NEW read, Len(read) \in Nat, NEW label
  PROVE  /\ IsFiniteSet(LabelHits(read, label, "tp")) /\ IsFiniteSet(LabelHits(read, label, "fn"))
         /\ CountsIn(read, label).tp \in Nat /\ CountsIn(read, label).fp \in Nat
         /\ CountsIn(read, label).fn \in Nat
         /\ CountsIn(read, label).tp = Cardinality(LabelHits(read, label, "tp"))
         /\ CountsIn(read, label).fn = Cardinality(LabelHits(read, label, "fn"))
<1>1. PICK S : S = 1..Len(read) /\ IsFiniteSet(S)
  BY FS_Interval
<1>2. \A kind : LabelHits(read, label, kind) \subseteq S
  BY <1>1 DEF LabelHits
<1>3. \A kind : IsFiniteSet(LabelHits(read, label, kind))
  BY <1>1, <1>2, FS_Subset
<1>4. \A kind : Cardinality(LabelHits(read, label, kind)) \in Nat
  BY <1>3, FS_CardinalityType
<1> QED
  BY <1>3, <1>4 DEF CountsIn

\* The recall of counts is a share.
LEMMA RecallIsAShare ==
  ASSUME NEW counts, counts.tp \in Nat, counts.fn \in Nat
  PROVE  /\ Score!Recall(counts) \in Shares
         /\ Score!AtMost(Score!Recall(counts), <<1, 1>>)
  BY DEF Score!Recall, Score!Ratio, Score!AtMost, Shares

\* The labels of a set are finitely many.
LEMMA LabelsAreFinite ==
  ASSUME NEW read, Len(read) \in Nat
  PROVE  IsFiniteSet(LabelsOf(read))
<1>1. PICK f : f = [i \in 1..Len(read) |-> read[i].label]
  OBVIOUS
<1>2. PICK S : S = 1..Len(read) /\ IsFiniteSet(S)
  BY FS_Interval
<1>3. f \in Surjection(S, LabelsOf(read))
  BY <1>1, <1>2 DEF Surjection, LabelsOf
<1> QED
  BY <1>2, <1>3, FS_Surjection

\* pair is read after the cases read, and is answered with its own label.
AnsweredRight(read, pair, next) ==
  /\ Len(read) \in Nat /\ Len(next) = Len(read) + 1 /\ next[Len(read) + 1] = pair
  /\ \A i \in 1..Len(read) : next[i] = read[i]
  /\ pair.answer # Null /\ pair.answer.label = pair.label

\* A case answered with its own label adds one hit to that label, and nothing else.
LEMMA RightLabelAdds ==
  ASSUME NEW read, NEW pair, NEW next, AnsweredRight(read, pair, next), NEW label
  PROVE  /\ LabelHits(read, label, "tp") \subseteq LabelHits(next, label, "tp")
         /\ LabelHits(next, label, "fn") = LabelHits(read, label, "fn")
         /\ label = pair.label => Len(read) + 1 \in LabelHits(next, label, "tp")
<1>1. PICK n \in Nat : n = Len(read)
  BY DEF AnsweredRight
<1>2. /\ Len(next) = n + 1 /\ next[n + 1] = pair
      /\ \A i \in 1..n : next[i] = read[i]
      /\ pair.answer # Null /\ pair.answer.label = pair.label
  BY <1>1 DEF AnsweredRight
<1> DEFINE Of(of, i, kind) == Score!LabelCount(of[i].label, AnsweredIn(of, i), label)[kind] = 1
<1>3. \A i \in 1..n : \A kind : Of(next, i, kind) <=> Of(read, i, kind)
  BY <1>2 DEF AnsweredIn
<1>4. ~Of(next, n + 1, "fn") /\ (label = pair.label => Of(next, n + 1, "tp"))
  <2>1. next[n + 1].label = pair.label /\ AnsweredIn(next, n + 1) = pair.label
    BY <1>2 DEF AnsweredIn
  <2>2. PICK truth : truth = pair.label
    OBVIOUS
  <2>3. Score!LabelCount(truth, truth, label)
          = IF label = truth THEN Score!Count(1, 0, 0) ELSE Score!Count(0, 0, 0)
    BY DEF Score!LabelCount
  <2> QED
    BY <2>1, <2>2, <2>3 DEF Score!Count
<1>5. \A kind : /\ LabelHits(read, label, kind) = {i \in 1..n : Of(read, i, kind)}
                /\ LabelHits(next, label, kind) = {i \in 1..n + 1 : Of(next, i, kind)}
  BY <1>1, <1>2 DEF LabelHits
<1> HIDE DEF Of
<1>6. \A i \in 1..n + 1 : i \in 1..n \/ i = n + 1
  OBVIOUS
<1>7. LabelHits(read, label, "tp") \subseteq LabelHits(next, label, "tp")
  BY <1>3, <1>5
<1>8. LabelHits(next, label, "fn") = LabelHits(read, label, "fn")
  <2>1. \A i \in 1..n + 1 : Of(next, i, "fn") <=> i \in 1..n /\ Of(read, i, "fn")
    BY <1>3, <1>4, <1>6
  <2>2. 1..n \subseteq 1..n + 1
    OBVIOUS
  <2> QED
    BY <1>5, <2>1, <2>2
<1>9. label = pair.label => n + 1 \in LabelHits(next, label, "tp")
  BY <1>4, <1>5
<1> QED
  BY <1>1, <1>7, <1>8, <1>9

\* A right answer lowers no label's recall.
LEMMA RecallsGrow ==
  ASSUME NEW read, NEW pair, NEW next, AnsweredRight(read, pair, next), NEW label
  PROVE  Score!AtMost(Score!Recall(CountsIn(read, label)), Score!Recall(CountsIn(next, label)))
<1>1. Len(read) \in Nat /\ Len(next) \in Nat
  BY DEF AnsweredRight
<1>2. PICK tp, fn, mtp, mfn : /\ tp = LabelHits(read, label, "tp") /\ fn = LabelHits(read, label, "fn")
                              /\ mtp = LabelHits(next, label, "tp") /\ mfn = LabelHits(next, label, "fn")
  OBVIOUS
<1>3. tp \subseteq mtp /\ fn = mfn
  <2>1. /\ LabelHits(read, label, "tp") \subseteq LabelHits(next, label, "tp")
        /\ LabelHits(next, label, "fn") = LabelHits(read, label, "fn")
    BY RightLabelAdds
  <2> QED
    BY <1>2, <2>1
<1>4. IsFiniteSet(mtp) /\ IsFiniteSet(tp)
  BY <1>1, <1>2, CountsAreNatural
<1>5. Cardinality(tp) <= Cardinality(mtp)
  BY <1>3, <1>4, FS_Subset
<1>6. PICK a \in Nat, b \in Nat, c \in Nat :
        /\ CountsIn(read, label).tp = a /\ CountsIn(read, label).fn = b
        /\ CountsIn(next, label).tp = c /\ CountsIn(next, label).fn = b /\ a <= c
  BY <1>1, <1>2, <1>3, <1>5, CountsAreNatural
<1> DEFINE counts == [tp |-> a, fp |-> 0, fn |-> b]
           more == [tp |-> c, fp |-> 0, fn |-> b]
<1>7. Score!AtMost(Score!Recall(counts), Score!Recall(more))
  <2>1. /\ counts.tp \in Nat /\ counts.fp \in Nat /\ counts.fn \in Nat
        /\ more.tp \in Nat /\ more.tp >= counts.tp /\ more.fp = counts.fp /\ more.fn = counts.fn
    BY <1>6
  <2> HIDE DEF counts, more
  <2> QED
    BY <2>1, RightValuesNeverLower
<1>8. /\ Score!Recall(counts) = Score!Recall(CountsIn(read, label))
      /\ Score!Recall(more) = Score!Recall(CountsIn(next, label))
  BY <1>6 DEF Score!Recall
<1> QED
  BY <1>7, <1>8

\* A label read for the first time, and answered, is found every time.
LEMMA NewLabelIsFound ==
  ASSUME NEW read, NEW pair, NEW next, AnsweredRight(read, pair, next), pair.label \notin LabelsOf(read)
  PROVE  Score!AtMost(<<1, 1>>, Score!Recall(CountsIn(next, pair.label)))
<1>1. Len(read) \in Nat /\ Len(next) \in Nat
  BY DEF AnsweredRight
<1>2. PICK label : label = pair.label
  OBVIOUS
<1>3. \A i \in 1..Len(read) : read[i].label # label
  BY <1>2 DEF LabelsOf
<1>4. \A i \in 1..Len(read) : Score!LabelCount(read[i].label, AnsweredIn(read, i), label)["fn"] # 1
  <2> SUFFICES ASSUME NEW truth, NEW answered, truth # label
               PROVE  Score!LabelCount(truth, answered, label)["fn"] # 1
    BY <1>3
  <2> QED
    BY LabelOutcomes
<1>5. LabelHits(read, label, "fn") = {}
  BY <1>4 DEF LabelHits
<1>6. LabelHits(next, label, "fn") = {} /\ LabelHits(next, label, "tp") # {}
  <2>1. /\ LabelHits(next, label, "fn") = LabelHits(read, label, "fn")
        /\ label = pair.label => Len(read) + 1 \in LabelHits(next, label, "tp")
    BY RightLabelAdds
  <2> QED
    BY <1>2, <1>5, <2>1
<1>7. CountsIn(next, label).fn = 0
  BY <1>1, <1>6, CountsAreNatural, FS_EmptySet
<1>8. PICK a \in Nat : CountsIn(next, label).tp = a /\ a # 0
  BY <1>1, <1>6, CountsAreNatural, FS_EmptySet
<1>9. Score!Recall(CountsIn(next, label)) = <<a, a>>
  BY <1>7, <1>8 DEF Score!Recall, Score!Ratio
<1> QED
  BY <1>2, <1>9 DEF Score!AtMost

\* Every label's recall is a share, and none is above one.
LEMMA RecallsAreShares ==
  ASSUME NEW read, Len(read) \in Nat
  PROVE  /\ Recalls(read) \in [LabelsOf(read) -> Shares]
         /\ \A label \in LabelsOf(read) :
              /\ Recalls(read)[label] = Score!Recall(CountsIn(read, label))
              /\ Score!AtMost(Recalls(read)[label], <<1, 1>>)
<1>1. \A label : /\ Score!Recall(CountsIn(read, label)) \in Shares
                 /\ Score!AtMost(Score!Recall(CountsIn(read, label)), <<1, 1>>)
  <2> SUFFICES ASSUME NEW label
      PROVE /\ Score!Recall(CountsIn(read, label)) \in Shares
            /\ Score!AtMost(Score!Recall(CountsIn(read, label)), <<1, 1>>)
    OBVIOUS
  <2>1. PICK counts : counts = CountsIn(read, label)
    OBVIOUS
  <2>2. counts.tp \in Nat /\ counts.fn \in Nat
    BY <2>1, CountsAreNatural
  <2> QED
    BY <2>1, <2>2, RecallIsAShare
<1> QED
  BY <1>1 DEF Recalls

\* What no share exceeds, their mean does not, and a share of one does not lower it.
LEMMA OneMore ==
  ASSUME NEW a \in Nat, NEW b \in Nat \ {0}, NEW c \in Nat, NEW d \in Nat \ {0}, NEW m \in Nat,
         a * d <= c * b, a <= m * b
  PROVE  a * (d * (m + 1)) <= (d + c) * (b * m)
<1>1. (a * d) * m <= (c * b) * m
  BY Scaled
<1>2. a * d <= (m * b) * d
  <2>1. m * b \in Int
    OBVIOUS
  <2> QED
    BY <2>1, Scaled
<1>3. a * (d * (m + 1)) = (a * d) * m + a * d
  OBVIOUS
<1>4. (d + c) * (b * m) = (m * b) * d + (c * b) * m
  OBVIOUS
<1>5. /\ (a * d) * m \in Int /\ a * d \in Int
      /\ (m * b) * d \in Int /\ (c * b) * m \in Int
  OBVIOUS
<1> QED
  BY <1>1, <1>2, <1>3, <1>4, <1>5

\* The mean recall is not lowered: over the same labels their sum grows, and a label that
\* is new brings a recall of one.
LEMMA MacroRecallGrows ==
  ASSUME NEW read, NEW pair, NEW next, AnsweredRight(read, pair, next)
  PROVE  Score!AtMost(Score!Mean(Recalls(read)), Score!Mean(Recalls(next)))
<1>1. Len(read) \in Nat /\ Len(next) \in Nat
  BY DEF AnsweredRight
<1>2. PICK S, R, label : S = LabelsOf(read) /\ R = LabelsOf(next) /\ label = pair.label
  OBVIOUS
<1>3. R = S \union {label}
  <2>1. PICK n \in Nat : n = Len(read)
    BY <1>1
  <2>2. /\ S = {read[i].label : i \in 1..n} /\ R = {next[i].label : i \in 1..n + 1}
        /\ \A i \in 1..n : next[i] = read[i]
        /\ next[n + 1].label = label
    BY <1>2, <2>1 DEF LabelsOf, AnsweredRight
  <2>3. /\ \A i \in 1..n + 1 : i \in 1..n \/ i = n + 1
        /\ \A i \in 1..n : i \in 1..n + 1
        /\ n + 1 \in 1..n + 1
    OBVIOUS
  <2> QED
    BY <2>2, <2>3
<1>4. IsFiniteSet(S) /\ IsFiniteSet(R)
  BY <1>1, <1>2, LabelsAreFinite
<1>5. PICK f \in [S -> Shares], g \in [R -> Shares] : f = Recalls(read) /\ g = Recalls(next)
  BY <1>1, <1>2, RecallsAreShares
<1>6. \A x \in S : Score!AtMost(f[x], g[x]) /\ Score!AtMost(f[x], <<1, 1>>)
  <2> SUFFICES ASSUME NEW x \in S PROVE Score!AtMost(f[x], g[x]) /\ Score!AtMost(f[x], <<1, 1>>)
    OBVIOUS
  <2>1. /\ f[x] = Score!Recall(CountsIn(read, x)) /\ Score!AtMost(f[x], <<1, 1>>)
        /\ g[x] = Score!Recall(CountsIn(next, x))
    BY <1>1, <1>2, <1>3, <1>5, RecallsAreShares
  <2> QED
    BY <2>1, RecallsGrow
<1>7. PICK less : Adds(less, S, f) /\ Score!SumOf(f) = less[S]
  BY <1>4, SumAdds
<1>8. PICK more : Adds(more, R, g) /\ Score!SumOf(g) = more[R]
  BY <1>4, SumAdds
<1>9. S \subseteq R
  BY <1>3
<1>10. Score!AtMost(less[S], more[S])
  BY <1>4, <1>6, <1>7, <1>8, <1>9, SumsGrow
<1>11. less[S] \in Shares /\ more[S] \in Shares
  BY <1>7, <1>8, <1>9 DEF Adds
<1>12. PICK a \in Nat, b \in Nat \ {0} : less[S][1] = a /\ less[S][2] = b
  BY <1>11, Pair
<1>13. PICK c \in Nat, d \in Nat \ {0} : more[S] = <<c, d>>
  BY <1>11, Pair
<1>14. a * d <= c * b
  BY <1>10, <1>12, <1>13 DEF Score!AtMost
<1>15. PICK m \in Nat : m = Cardinality(S)
  BY <1>4, FS_CardinalityType
<1>16. a <= m * b
  <2>1. Score!AtMost(less[S], <<0 * Cardinality({}) + 1 * Cardinality(S), 1>>)
    <3>1. {} \in SUBSET S /\ (\A x \in S \ {} : Score!AtMost(f[x], <<1, 1>>)) /\ \A x \in {} : FALSE
      BY <1>6
    <3> QED
      BY <1>4, <1>7, <3>1, SumIsBounded
  <2>2. 0 * Cardinality({}) + 1 * Cardinality(S) = m
    BY <1>15, FS_EmptySet
  <2> QED
    BY <1>12, <2>1, <2>2 DEF Score!AtMost
<1>17. Score!Mean(f) = IF m = 0 THEN <<0, 1>> ELSE <<a, b * m>>
  BY <1>7, <1>12, <1>15, MeanIs
<1>18. CASE label \in S
  <2>1. R = S
    BY <1>3, <1>18
  <2>2. Score!Mean(g) = IF m = 0 THEN <<0, 1>> ELSE <<c, d * m>>
    BY <1>8, <1>13, <1>15, <2>1, MeanIs
  <2>3. (a * d) * m <= (c * b) * m
    BY <1>14, Scaled
  <2>4. (a * d) * m = a * (d * m) /\ (c * b) * m = c * (b * m)
    OBVIOUS
  <2> QED
    BY <1>5, <1>17, <2>2, <2>3, <2>4 DEF Score!AtMost
<1>19. CASE label \notin S
  <2>1. more[R] = Score!Plus(g[label], more[S])
    BY <1>3, <1>8, <1>9, <1>19 DEF Adds
  <2>2. Score!AtMost(<<1, 1>>, g[label])
    <3>1. g[label] = Score!Recall(CountsIn(next, label))
      BY <1>1, <1>2, <1>3, <1>5, RecallsAreShares
    <3> QED
      BY <1>2, <1>19, <3>1, NewLabelIsFound
  <2>3. Score!AtMost(more[S], more[S])
    BY <1>13 DEF Score!AtMost
  <2>4. <<1, 1>> \in Shares /\ g[label] \in Shares /\ more[R] \in Shares
    BY <1>3, <1>8 DEF Shares, Adds
  <2>5. Score!AtMost(Score!Plus(<<1, 1>>, more[S]), more[R])
    BY <1>11, <2>1, <2>2, <2>3, <2>4, PlusKeepsOrder
  <2>6. PICK e \in Nat, h \in Nat \ {0} : more[R] = <<e, h>>
    BY <2>4, Pair
  <2>7. Score!Plus(<<1, 1>>, more[S]) = <<d + c, d>>
    BY <1>13 DEF Score!Plus
  <2>8. (d + c) * h <= e * d
    BY <2>5, <2>6, <2>7 DEF Score!AtMost
  <2>9. Cardinality(R) = m + 1
    BY <1>3, <1>4, <1>15, <1>19, FS_AddElement
  <2>10. Score!Mean(g) = <<e, h * (m + 1)>>
    BY <1>8, <2>6, <2>9, MeanIs
  <2>11. a * (d * (m + 1)) <= (d + c) * (b * m)
    BY <1>14, <1>16, OneMore
  <2>12. a * (h * (m + 1)) <= e * (b * m)
    <3>1. /\ a * (d * (m + 1)) \in Int /\ (d + c) * (b * m) \in Int
          /\ (d + c) * h \in Int /\ e * d \in Int /\ b * m \in Nat
          /\ a * (h * (m + 1)) \in Int /\ e * (b * m) \in Int
      OBVIOUS
    <3>2. (a * (d * (m + 1))) * h <= ((d + c) * (b * m)) * h
      BY <2>11, <3>1, Scaled
    <3>3. ((d + c) * h) * (b * m) <= (e * d) * (b * m)
      BY <2>8, <3>1, Scaled
    <3>4. /\ (a * (d * (m + 1))) * h = (a * (h * (m + 1))) * d
          /\ ((d + c) * (b * m)) * h = ((d + c) * h) * (b * m)
          /\ (e * d) * (b * m) = (e * (b * m)) * d
      OBVIOUS
    <3>5. (a * (h * (m + 1))) * d <= (e * (b * m)) * d
      BY <3>2, <3>3, <3>4
    <3> QED
      BY <3>1, <3>5, Cancelled
  <2>13. CASE m = 0
    BY <1>5, <1>17, <2>10, <2>13 DEF Score!AtMost
  <2>14. CASE m # 0
    BY <1>5, <1>17, <2>10, <2>12, <2>14 DEF Score!AtMost
  <2> QED
    BY <2>13, <2>14
<1> QED
  BY <1>18, <1>19

\* The routing accuracy is not lowered either: of k in n it becomes k + 1 in n + 1.
LEMMA RoutingGrows ==
  ASSUME NEW read, NEW pair, NEW next, AnsweredRight(read, pair, next), pair.answer.routed
  PROVE  Score!AtMost(Score!Ratio(Cardinality(Routed(read)), Len(read)),
                      Score!Ratio(Cardinality(Routed(next)), Len(next)))
<1>1. PICK n \in Nat : n = Len(read)
  BY DEF AnsweredRight
<1>2. /\ Len(next) = n + 1 /\ next[n + 1] = pair
      /\ \A i \in 1..n : next[i] = read[i]
      /\ pair.answer # Null
  BY <1>1 DEF AnsweredRight
<1> DEFINE Of(of, i) == of[i].answer # Null /\ of[i].answer.routed
<1>3. /\ Routed(read) = {i \in 1..n : Of(read, i)}
      /\ Routed(next) = {i \in 1..n + 1 : Of(next, i)}
  BY <1>1, <1>2 DEF Routed
<1>4. Of(next, n + 1) /\ \A i \in 1..n : Of(next, i) <=> Of(read, i)
  BY <1>2
<1> HIDE DEF Of
<1>5. /\ \A i \in 1..n + 1 : i \in 1..n \/ i = n + 1
      /\ \A i \in 1..n : i \in 1..n + 1
      /\ n + 1 \in 1..n + 1 /\ n + 1 \notin 1..n
  OBVIOUS
<1>6. Routed(next) = Routed(read) \union {n + 1} /\ n + 1 \notin Routed(read)
  BY <1>3, <1>4, <1>5
<1>7. IsFiniteSet(1..n) /\ Cardinality(1..n) = n /\ Routed(read) \subseteq 1..n
  BY <1>3, FS_Interval
<1>8. IsFiniteSet(Routed(read)) /\ Cardinality(Routed(read)) <= n
  BY <1>7, FS_Subset
<1>9. PICK q \in Nat : q = Cardinality(Routed(read)) /\ q <= n
  BY <1>8, FS_CardinalityType
<1>10. Cardinality(Routed(next)) = q + 1
  BY <1>6, <1>8, <1>9, FS_AddElement
<1>11. q * (n + 1) <= (q + 1) * n
  <2>1. q * (n + 1) = q * n + q /\ (q + 1) * n = q * n + n /\ q * n \in Nat
    OBVIOUS
  <2> QED
    BY <1>9, <2>1
<1> QED
  BY <1>1, <1>2, <1>9, <1>10, <1>11 DEF Score!Ratio, Score!AtMost

RightLabels ==
  capability = "classification" /\ Score!RightAnswer(Last(cases')) =>
    /\ Score!AtMost(Score!MacroAverage(Score!Recall), Score!MacroAverage(Score!Recall)')
    /\ Score!AtMost(Score!RoutingAccuracy, Score!RoutingAccuracy')

\* A claim answered right lowers neither of the classification's measures.
LEMMA LabelsRight == ScoringInv /\ Score!Next => RightLabels
<1> SUFFICES ASSUME ScoringInv, Score!Next, capability = "classification",
                    Score!RightAnswer(Last(cases'))
             PROVE  /\ Score!AtMost(Score!MacroAverage(Score!Recall), Score!MacroAverage(Score!Recall)')
                    /\ Score!AtMost(Score!RoutingAccuracy, Score!RoutingAccuracy')
  BY DEF RightLabels
<1>1. PICK read, next : read \in Seq(Claims) /\ read = cases /\ next = cases'
  BY DEF ScoringInv
<1>2. PICK pair \in Claims : next = Append(read, pair)
  BY <1>1 DEF Score!Next, Score!ReadDocument, Score!ReadQuestion, Score!ReadClaim, Score!Read
<1>3. Last(next) = pair
  BY <1>2 DEF Last
<1>4. pair.answer # Null /\ pair.answer.label = pair.label /\ pair.answer.routed
  BY <1>1, <1>3 DEF Score!RightAnswer
<1>5. AnsweredRight(read, pair, next)
  BY <1>2, <1>4 DEF AnsweredRight
<1>6. /\ Score!MacroAverage(Score!Recall) = Score!Mean(Recalls(read))
      /\ Score!RoutingAccuracy = Score!Ratio(Cardinality(Routed(read)), Len(read))
  BY <1>1, MeasuresAre
<1>7. /\ Score!MacroAverage(Score!Recall)' = Score!Mean(Recalls(next))
      /\ Score!RoutingAccuracy' = Score!Ratio(Cardinality(Routed(next)), Len(next))
  <2>1. (/\ Score!MacroAverage(Score!Recall) = Score!Mean(Recalls(cases))
         /\ Score!RoutingAccuracy = Score!Ratio(Cardinality(Routed(cases)), Len(cases)))'
    BY MeasuresAre, PTL
  <2>2. /\ Score!MacroAverage(Score!Recall)' = Score!Mean(Recalls(cases'))
        /\ Score!RoutingAccuracy' = Score!Ratio(Cardinality(Routed(cases')), Len(cases'))
    BY <2>1
  <2> QED
    BY <1>1, <2>2
<1> QED
  BY <1>4, <1>5, <1>6, <1>7, MacroRecallGrows, RoutingGrows

-----------------------------------------------------------------------------
\* Scoring: the area under the precision-recall curve.

\* Shares that are the same stay so when added to, and when spread over a number.
LEMMA SameIsTransitive ==
  ASSUME NEW x \in Shares, NEW y \in Shares, NEW z \in Shares, Score!Same(x, y), Score!Same(y, z)
  PROVE  Score!Same(x, z)
  BY AtMostIsTransitive DEF Score!Same

\* What is the same stays so when one share is added to it.
LEMMA PlusKeepsSame ==
  ASSUME NEW x \in Shares, NEW y \in Shares, NEW z \in Shares, Score!Same(y, z)
  PROVE  Score!Same(Score!Plus(x, y), Score!Plus(x, z))
<1>1. Score!AtMost(x, x)
  BY Pair DEF Score!AtMost
<1> QED
  BY <1>1, PlusKeepsOrder DEF Score!Same

Over(x, n) == <<x[1], x[2] * n>>

\* A share spread over a number is a share.
LEMMA OverIsAShare ==
  ASSUME NEW x \in Shares, NEW n \in Nat \ {0}
  PROVE  Over(x, n) \in Shares
<1>1. PICK a \in Nat, b \in Nat \ {0} : x[1] = a /\ x[2] = b
  BY Pair
<1>2. b * n \in Nat \ {0}
  OBVIOUS
<1> QED
  BY <1>1, <1>2 DEF Over, Shares

\* Spreading over a number keeps the order.
LEMMA OverKeepsOrder ==
  ASSUME NEW x \in Shares, NEW y \in Shares, NEW n \in Nat \ {0}, Score!AtMost(x, y)
  PROVE  Score!AtMost(Over(x, n), Over(y, n))
<1>1. PICK a \in Nat, b \in Nat \ {0} : x[1] = a /\ x[2] = b
  BY Pair
<1>2. PICK c \in Nat, d \in Nat \ {0} : y[1] = c /\ y[2] = d
  BY Pair
<1>3. a * d <= c * b
  BY <1>1, <1>2 DEF Score!AtMost
<1>4. (a * d) * n <= (c * b) * n
  BY <1>3, Scaled
<1>5. a * (d * n) = (a * d) * n /\ c * (b * n) = (c * b) * n
  OBVIOUS
<1>6. a * (d * n) <= c * (b * n)
  BY <1>4, <1>5
<1> QED
  BY <1>1, <1>2, <1>6 DEF Score!AtMost, Over

\* It keeps what is the same.
LEMMA OverKeepsSame ==
  ASSUME NEW x \in Shares, NEW y \in Shares, NEW n \in Nat \ {0}, Score!Same(x, y)
  PROVE  Score!Same(Over(x, n), Over(y, n))
  BY OverKeepsOrder DEF Score!Same

\* To add and then spread is to spread and then add.
LEMMA OverIsAddedTo ==
  ASSUME NEW x \in Shares, NEW a \in Nat, NEW b \in Nat \ {0}, NEW n \in Nat \ {0}
  PROVE  Score!Same(Score!Plus(<<a, n * b>>, Over(x, n)), Over(Score!Plus(x, <<a, b>>), n))
<1>1. PICK c \in Nat, d \in Nat \ {0} : x[1] = c /\ x[2] = d
  BY Pair
<1>2. Score!Plus(<<a, n * b>>, Over(x, n)) = <<a * (d * n) + c * (n * b), (n * b) * (d * n)>>
  BY <1>1 DEF Score!Plus, Over
<1>3. Over(Score!Plus(x, <<a, b>>), n) = <<c * b + a * d, (d * b) * n>>
  BY <1>1 DEF Score!Plus, Over
<1>4. (a * (d * n) + c * (n * b)) * ((d * b) * n) = (c * b + a * d) * ((n * b) * (d * n))
  OBVIOUS
<1>5. (c * b + a * d) * ((n * b) * (d * n)) \in Int
  OBVIOUS
<1> QED
  BY <1>2, <1>3, <1>4, <1>5 DEF Score!Same, Score!AtMost

\* Members that share alike add their share times as many as they are.
LEMMA AlikeAdd ==
  ASSUME NEW S, IsFiniteSet(S), NEW f \in [S -> Shares], NEW sum, Adds(sum, S, f),
         NEW T \in SUBSET S, NEW B \in SUBSET S, T \intersect B = {},
         NEW a \in Nat, NEW b \in Nat \ {0}, \A x \in B : f[x] = <<a, b>>
  PROVE  Score!Same(sum[T \union B], Score!Plus(sum[T], <<Cardinality(B) * a, b>>))
<1> DEFINE Is(U) == Score!Same(sum[T \union U], Score!Plus(sum[T], <<Cardinality(U) * a, b>>))
           Good == {U \in SUBSET B : Is(U)}
<1>1. \A U \in SUBSET B : IsFiniteSet(U) /\ Cardinality(U) \in Nat
  BY FS_Subset, FS_CardinalityType
<1>2. PICK s \in Shares : s = sum[T]
  BY DEF Adds
<1>3. {} \in Good
  <2>1. PICK c \in Nat, d \in Nat \ {0} : s = <<c, d>> /\ s[1] = c /\ s[2] = d
    BY Pair
  <2>2. Cardinality({}) * a = 0 /\ T \union {} = T
    BY FS_EmptySet
  <2>3. Score!Plus(s, <<0, b>>) = <<c * b, d * b>>
    BY <2>1 DEF Score!Plus
  <2>4. c * (d * b) = (c * b) * d /\ c * (d * b) \in Int
    OBVIOUS
  <2>5. Score!Same(s, Score!Plus(s, <<0, b>>))
    BY <2>1, <2>3, <2>4 DEF Score!Same, Score!AtMost
  <2> QED
    BY <1>2, <2>2, <2>5
<1>4. ASSUME NEW U \in SUBSET B, NEW x \in B \ U, U \in Good
      PROVE  U \union {x} \in Good
  <2>1. PICK n \in Nat : n = Cardinality(U)
    BY <1>1
  <2>2. Cardinality(U \union {x}) = n + 1
    BY <1>1, <2>1, FS_AddElement
  <2>3. PICK V \in SUBSET S : V = T \union U
    OBVIOUS
  <2>4. x \in S \ V /\ V \union {x} = T \union (U \union {x})
    BY <2>3
  <2>5. sum[V \union {x}] = Score!Plus(<<a, b>>, sum[V])
    BY <2>4 DEF Adds
  <2>6. PICK o, m, more \in Shares : o = <<a, b>> /\ m = <<n * a, b>> /\ more = <<a + n * a, b>>
    <3>1. n * a \in Nat /\ a + n * a \in Nat
      OBVIOUS
    <3>2. <<a, b>> \in Shares /\ <<n * a, b>> \in Shares /\ <<a + n * a, b>> \in Shares
      BY <3>1 DEF Shares
    <3> QED
      BY <3>2
  <2>7. sum[V] \in Shares /\ sum[V \union {x}] \in Shares
    BY <2>4 DEF Adds
  <2>8. Score!Same(sum[V], Score!Plus(s, m))
    BY <1>2, <1>4, <2>1, <2>3, <2>6
  <2>9. Score!Plus(s, m) \in Shares /\ Score!Plus(o, m) \in Shares /\ Score!Plus(s, more) \in Shares
    BY <2>6, PlusIsAShare
  <2>10. Score!Same(sum[V \union {x}], Score!Plus(o, Score!Plus(s, m)))
    BY <2>5, <2>6, <2>7, <2>8, <2>9, PlusKeepsSame
  <2>11. Score!Plus(o, Score!Plus(s, m)) = Score!Plus(s, Score!Plus(o, m))
    BY <2>6, PlusAssociates
  <2>12. Score!Same(Score!Plus(o, m), more)
    BY <2>6, OneDenominator
  <2>13. Score!Same(Score!Plus(s, Score!Plus(o, m)), Score!Plus(s, more))
    BY <2>9, <2>12, PlusKeepsSame
  <2>14. Score!Plus(s, Score!Plus(o, m)) \in Shares
    BY <2>9, PlusIsAShare
  <2>15. Score!Same(sum[V \union {x}], Score!Plus(s, more))
    BY <2>7, <2>9, <2>10, <2>11, <2>13, <2>14, SameIsTransitive
  <2>16. more = <<Cardinality(U \union {x}) * a, b>>
    <3>1. (n + 1) * a = a + n * a
      OBVIOUS
    <3> QED
      BY <2>2, <2>6, <3>1
  <2>17. Is(U \union {x})
    BY <1>2, <2>4, <2>15, <2>16
  <2> QED
    BY <2>17
<1>5. IsFiniteSet(B)
  BY FS_Subset
<1>6. B \in Good
  <2> HIDE DEF Good
  <2> QED
    BY <1>3, <1>4, <1>5, AddingOneByOne
<1> QED
  BY <1>6

\* A ranking r of the n members of S, highest height first, of which some are positive.
Curve(r, n, S, height, pos) ==
  /\ n \in Nat \ {0}
  /\ r \in [1..n -> S]
  /\ \A p, q \in 1..n : r[p] = r[q] => p = q
  /\ \A x \in S : \E p \in 1..n : r[p] = x
  /\ height \in [S -> Int]
  /\ \A p, q \in 1..n : p < q => height[r[q]] <= height[r[p]]
  /\ pos \in SUBSET S

EndsOf(r, n, height) == {p \in 1..n : p = n \/ height[r[p + 1]] # height[r[p]]}
Before(r, n, height, e) == Score!Max({q \in EndsOf(r, n, height) \union {0} : q < e})
PosTo(r, pos, upTo) == {p \in 1..upTo : r[p] \in pos}
FoundTo(r, pos, upTo) == Cardinality(PosTo(r, pos, upTo))

\* The end of the step before is below this one, and no end lies between.
LEMMA BeforeIs ==
  ASSUME NEW r, NEW n, NEW S, NEW height, NEW pos, Curve(r, n, S, height, pos),
         NEW e \in EndsOf(r, n, height)
  PROVE  LET b == Before(r, n, height, e)
         IN  /\ b \in Nat /\ b < e /\ b \in EndsOf(r, n, height) \union {0}
             /\ \A q \in EndsOf(r, n, height) : q < e => q <= b
<1> DEFINE Q == {q \in EndsOf(r, n, height) \union {0} : q < e}
           From == {e - q : q \in Q}
<1>1. n \in Nat /\ EndsOf(r, n, height) \subseteq 1..n
  BY DEF Curve, EndsOf
<1>2. e \in Nat /\ 0 < e
  BY <1>1
<1>3. Q \subseteq Nat /\ 0 \in Q
  BY <1>1, <1>2
<1>4. From \subseteq Nat /\ From # {}
  BY <1>1, <1>2
<1>5. PICK least \in From : \A k \in From : least <= k
  <2> HIDE DEF From
  <2> QED
    BY <1>4, LeastNatural
<1>6. PICK b \in Q : e - b = least
  BY <1>5
<1>7. \A q \in Q : q <= b
  <2> SUFFICES ASSUME NEW q \in Q PROVE q <= b
    OBVIOUS
  <2>1. e - b <= e - q
    BY <1>5, <1>6
  <2> QED
    BY <1>2, <1>3, <2>1
<1> HIDE DEF Q
<1>8. Score!Max(Q) \in Q /\ \A q \in Q : Score!Max(Q) >= q
  BY <1>3, <1>7 DEF Score!Max
<1> QED
  BY <1>1, <1>2, <1>3, <1>8 DEF Before, Q

\* The members of a step are of one height, and those after it are lower.
LEMMA BlockIsFlat ==
  ASSUME NEW r, NEW n, NEW S, NEW height, NEW pos, Curve(r, n, S, height, pos),
         NEW e \in EndsOf(r, n, height)
  PROVE  /\ \A q \in Before(r, n, height, e) + 1..e : height[r[q]] = height[r[e]]
         /\ \A q \in e + 1..n : height[r[q]] < height[r[e]]
<1>1. PICK b \in Nat : b = Before(r, n, height, e)
  BY BeforeIs
<1>2. b < e /\ \A q \in EndsOf(r, n, height) : q < e => q <= b
  BY <1>1, BeforeIs
<1>3. n \in Nat /\ e \in 1..n /\ (e = n \/ height[r[e + 1]] # height[r[e]])
  BY DEF Curve, EndsOf
<1>4. \A p \in 1..n : height[r[p]] \in Int
  BY DEF Curve
<1>5. \A q \in b + 1..e : height[r[q]] = height[r[e]]
  <2> DEFINE Bad == {d \in Nat : e - d \in b + 1..e /\ height[r[e - d]] # height[r[e]]}
  <2>1. ASSUME Bad # {} PROVE FALSE
    <3>1. Bad \subseteq Nat
      OBVIOUS
    <3>2. PICK d \in Bad : \A k \in Bad : d <= k
      <4> HIDE DEF Bad
      <4> QED
        BY <2>1, <3>1, LeastNatural
    <3>3. d \in Nat /\ e - d \in b + 1..e /\ height[r[e - d]] # height[r[e]]
      BY <3>2
    <3>4. d # 0
      BY <1>3, <3>3
    <3>5. d - 1 \in Nat /\ d - 1 \notin Bad
      <4> HIDE DEF Bad
      <4> QED
        BY <3>2, <3>3, <3>4
    <3>6. e - (d - 1) \in b + 1..e /\ e - (d - 1) = e - d + 1
      BY <1>1, <1>3, <3>3, <3>4
    <3>7. height[r[e - d + 1]] = height[r[e]]
      BY <3>5, <3>6
    <3>8. e - d \in 1..n /\ e - d < e /\ ~(e - d <= b) /\ e - d # n
      BY <1>1, <1>3, <3>3, <3>4
    <3>9. e - d \notin EndsOf(r, n, height)
      BY <1>2, <3>8
    <3>10. height[r[e - d + 1]] = height[r[e - d]]
      BY <3>8, <3>9 DEF EndsOf
    <3> QED
      BY <3>3, <3>7, <3>10
  <2> SUFFICES ASSUME NEW q \in b + 1..e PROVE height[r[q]] = height[r[e]]
    OBVIOUS
  <2>2. e - q \in Nat /\ e - (e - q) = q
    BY <1>1, <1>3
  <2>3. e - q \notin Bad
    BY <2>1
  <2> QED
    BY <2>2, <2>3
<1>6. ASSUME NEW q \in e + 1..n PROVE height[r[q]] < height[r[e]]
  <2>1. e # n /\ e + 1 \in 1..n /\ q \in 1..n /\ e \in 1..n
    BY <1>3
  <2>2. height[r[e + 1]] # height[r[e]] /\ height[r[e + 1]] <= height[r[e]]
    BY <1>3, <2>1 DEF Curve
  <2>3. q = e + 1 \/ height[r[q]] <= height[r[e + 1]]
    BY <2>1 DEF Curve
  <2> QED
    BY <1>4, <2>1, <2>2, <2>3
<1> QED
  BY <1>1, <1>5, <1>6

\* What is ranked is counted by its places.
LEMMA PlacesCount ==
  ASSUME NEW r, NEW n, NEW S, NEW height, NEW pos, Curve(r, n, S, height, pos),
         NEW P \in SUBSET (1..n)
  PROVE  /\ IsFiniteSet(P) /\ IsFiniteSet({r[p] : p \in P})
         /\ Cardinality({r[p] : p \in P}) = Cardinality(P)
<1> DEFINE T == {r[p] : p \in P}
           g == [p \in P |-> r[p]]
<1>1. n \in Nat /\ IsFiniteSet(1..n)
  BY FS_Interval DEF Curve
<1>2. IsFiniteSet(P)
  BY <1>1, FS_Subset
<1>3. g \in [P -> T] /\ \A p, q \in P : g[p] = g[q] => p = q
  BY DEF Curve
<1>4. \A x \in T : \E p \in P : g[p] = x
  OBVIOUS
<1> HIDE DEF g, T
<1>5. g \in Bijection(P, T)
  BY <1>3, <1>4 DEF Bijection, Injection, Surjection, IsInjective
<1>6. ExistsBijection(P, T)
  BY <1>5 DEF ExistsBijection
<1>7. IsFiniteSet(T) /\ Cardinality(T) = Cardinality(P)
  BY <1>2, <1>6, FS_Bijection
<1> QED
  BY <1>2, <1>7 DEF T

\* The members as high as one in a block are those up to the block's end.
LEMMA AsHighAs ==
  ASSUME NEW r, NEW n, NEW S, NEW height, NEW pos, Curve(r, n, S, height, pos),
         NEW e \in EndsOf(r, n, height), NEW q \in Before(r, n, height, e) + 1..e
  PROVE  LET high == {x \in S : height[x] >= height[r[q]]}
         IN  Cardinality(high) = e /\ Cardinality(high \intersect pos) = FoundTo(r, pos, e)
<1> DEFINE high == {x \in S : height[x] >= height[r[q]]}
<1>1. n \in Nat /\ e \in 1..n
  BY DEF Curve, EndsOf
<1>2. height[r[q]] = height[r[e]] /\ \A p \in e + 1..n : height[r[p]] < height[r[e]]
  BY BlockIsFlat
<1>3. \A p \in 1..n : height[r[p]] \in Int /\ r[p] \in S
  BY DEF Curve
<1>4. \A p \in 1..n : height[r[p]] >= height[r[e]] <=> p \in 1..e
  <2> SUFFICES ASSUME NEW p \in 1..n PROVE height[r[p]] >= height[r[e]] <=> p \in 1..e
    OBVIOUS
  <2>1. CASE p > e
    BY <1>1, <1>2, <1>3, <2>1
  <2>2. CASE p = e
    BY <1>1, <1>3, <2>2
  <2>3. CASE p < e
    <3>1. height[r[e]] <= height[r[p]]
      BY <1>1, <2>3 DEF Curve
    <3> QED
      BY <1>1, <1>3, <2>3, <3>1
  <2> QED
    BY <1>1, <2>1, <2>2, <2>3
<1>5. \A x \in S : \E p \in 1..n : r[p] = x
  BY DEF Curve
<1>6. high = {r[p] : p \in 1..e}
  <2>1. \A x \in high : x \in {r[p] : p \in 1..e}
    BY <1>2, <1>4, <1>5
  <2>2. \A p \in 1..e : p \in 1..n /\ r[p] \in high
    BY <1>1, <1>2, <1>3, <1>4
  <2> QED
    BY <2>1, <2>2
<1>7. high \intersect pos = {r[p] : p \in PosTo(r, pos, e)}
  BY <1>6 DEF PosTo
<1>8. 1..e \in SUBSET (1..n) /\ PosTo(r, pos, e) \in SUBSET (1..n)
  BY <1>1 DEF PosTo
<1>9. Cardinality(1..e) = e
  BY <1>1, FS_Interval
<1>10. Cardinality({r[p] : p \in 1..e}) = Cardinality(1..e)
  BY <1>8, PlacesCount
<1>11. Cardinality({r[p] : p \in PosTo(r, pos, e)}) = Cardinality(PosTo(r, pos, e))
  BY <1>8, PlacesCount
<1> HIDE DEF high
<1> QED
  BY <1>6, <1>7, <1>9, <1>10, <1>11 DEF FoundTo, high

\* What each step's end adds to the area, and what each positive adds to the mean.
StepShares(area, r, n, height, pos) ==
  area = [e \in EndsOf(r, n, height) |->
            <<(FoundTo(r, pos, e) - FoundTo(r, pos, Before(r, n, height, e))) * FoundTo(r, pos, e),
              FoundTo(r, pos, n) * e>>]

HighShares(share, S, height, pos) ==
  share = [x \in pos |->
             LET high == {y \in S : height[y] >= height[x]}
             IN  Score!Ratio(Cardinality(high \intersect pos), Cardinality(high))]

\* The positives found at the end are all of them, and at the start none.
LEMMA FoundIs ==
  ASSUME NEW r, NEW n, NEW S, NEW height, NEW pos, Curve(r, n, S, height, pos)
  PROVE  /\ \A p \in 0..n : FoundTo(r, pos, p) \in Nat /\ IsFiniteSet(PosTo(r, pos, p))
         /\ PosTo(r, pos, 0) = {} /\ FoundTo(r, pos, 0) = 0
         /\ {r[p] : p \in PosTo(r, pos, n)} = pos
         /\ IsFiniteSet(pos) /\ FoundTo(r, pos, n) = Cardinality(pos)
<1>1. n \in Nat /\ \A p \in 0..n : PosTo(r, pos, p) \in SUBSET (1..n)
  BY DEF Curve, PosTo
<1>2. \A p \in 0..n : IsFiniteSet(PosTo(r, pos, p))
  BY <1>1, PlacesCount
<1>3. PosTo(r, pos, 0) = {}
  BY DEF PosTo
<1>4. {r[p] : p \in PosTo(r, pos, n)} = pos
  BY DEF PosTo, Curve
<1>5. n \in 0..n
  BY <1>1
<1>6. IsFiniteSet(pos) /\ Cardinality(pos) = Cardinality(PosTo(r, pos, n))
  BY <1>1, <1>4, <1>5, PlacesCount
<1> QED
  BY <1>2, <1>3, <1>4, <1>6, FS_EmptySet, FS_CardinalityType DEF FoundTo

\* The positives ranked up to a place, and those ranked between two.
RankedTo(r, pos, upTo) == {r[p] : p \in PosTo(r, pos, upTo)}
NewIn(r, pos, b, e) == {r[q] : q \in {p \in b + 1..e : r[p] \in pos}}

LEMMA FoundInBlock ==
  ASSUME NEW r, NEW n, NEW S, NEW height, NEW pos, Curve(r, n, S, height, pos),
         NEW b \in 0..n, NEW e \in 0..n, b <= e
  PROVE  /\ RankedTo(r, pos, e) = RankedTo(r, pos, b) \union NewIn(r, pos, b, e)
         /\ RankedTo(r, pos, b) \intersect NewIn(r, pos, b, e) = {}
         /\ Cardinality(NewIn(r, pos, b, e)) = FoundTo(r, pos, e) - FoundTo(r, pos, b)
         /\ FoundTo(r, pos, e) - FoundTo(r, pos, b) \in Nat
         /\ RankedTo(r, pos, b) \in SUBSET pos /\ NewIn(r, pos, b, e) \in SUBSET pos
<1> DEFINE at == {p \in b + 1..e : r[p] \in pos}
           new == {r[q] : q \in at}
           old == {r[p] : p \in PosTo(r, pos, b)}
<1>1. n \in Nat
  BY DEF Curve
<1>2. PosTo(r, pos, e) = PosTo(r, pos, b) \union at /\ PosTo(r, pos, b) \intersect at = {}
  <2>1. \A p \in 1..e : p \in 1..b \/ p \in b + 1..e
    BY <1>1
  <2>2. \A p \in 1..b : p \in 1..e /\ p \notin b + 1..e
    BY <1>1
  <2>3. \A p \in b + 1..e : p \in 1..e
    BY <1>1
  <2> QED
    BY <2>1, <2>2, <2>3 DEF PosTo
<1>3. PosTo(r, pos, b) \in SUBSET (1..n) /\ at \in SUBSET (1..n)
  BY <1>1 DEF PosTo
<1>4. {r[p] : p \in PosTo(r, pos, e)} = old \union new
  BY <1>2
<1>5. old \intersect new = {}
  BY <1>2, <1>3 DEF Curve
<1>6. IsFiniteSet(PosTo(r, pos, b)) /\ IsFiniteSet(at) /\ Cardinality(new) = Cardinality(at)
  BY <1>3, PlacesCount
<1>7. Cardinality(PosTo(r, pos, e)) = Cardinality(PosTo(r, pos, b)) + Cardinality(at)
  <2>1. Cardinality(PosTo(r, pos, b)) \in Nat /\ Cardinality(at) \in Nat
    BY <1>6, FS_CardinalityType
  <2>2. PICK P : P = PosTo(r, pos, b)
    OBVIOUS
  <2>3. PICK A : A = at
    OBVIOUS
  <2>4. Cardinality(P \union A) = Cardinality(P) + Cardinality(A) - Cardinality(P \intersect A)
    BY <1>6, <2>2, <2>3, FS_Union
  <2>5. Cardinality(P \intersect A) = 0 /\ P \union A = PosTo(r, pos, e)
    BY <1>2, <2>2, <2>3, FS_EmptySet
  <2>6. Cardinality(P) = Cardinality(PosTo(r, pos, b)) /\ Cardinality(A) = Cardinality(at)
    BY <2>2, <2>3
  <2>7. Cardinality(P \union A) = Cardinality(PosTo(r, pos, e))
    BY <2>5
  <2>8. Cardinality(P \union A) = Cardinality(P) + Cardinality(A)
    <3>1. Cardinality(P) \in Nat /\ Cardinality(A) \in Nat
      BY <2>1, <2>6
    <3> QED
      BY <2>4, <2>5, <3>1
  <2> QED
    BY <2>6, <2>7, <2>8
<1>8. FoundTo(r, pos, b) \in Nat /\ Cardinality(at) \in Nat
  BY <1>6, FoundIs, FS_CardinalityType
<1>9. Cardinality(new) = FoundTo(r, pos, e) - FoundTo(r, pos, b) /\ Cardinality(new) \in Nat
  <2>1. FoundTo(r, pos, e) = FoundTo(r, pos, b) + Cardinality(new)
    BY <1>6, <1>7 DEF FoundTo
  <2> QED
    BY <1>6, <1>8, <2>1
<1>10. old \in SUBSET pos /\ new \in SUBSET pos
  BY DEF PosTo
<1> QED
  BY <1>4, <1>5, <1>9, <1>10 DEF RankedTo, NewIn

\* Every share of a curve is one.
LEMMA CurveShares ==
  ASSUME NEW r, NEW n, NEW S, NEW height, NEW pos, Curve(r, n, S, height, pos), pos # {},
         NEW area, StepShares(area, r, n, height, pos),
         NEW share, HighShares(share, S, height, pos)
  PROVE  /\ area \in [EndsOf(r, n, height) -> Shares]
         /\ share \in [pos -> Shares]
         /\ FoundTo(r, pos, n) \in Nat \ {0}
         /\ IsFiniteSet(EndsOf(r, n, height))
<1>1. n \in Nat \ {0} /\ IsFiniteSet(1..n)
  BY FS_Interval DEF Curve
<1>2. IsFiniteSet(EndsOf(r, n, height))
  BY <1>1, FS_Subset DEF EndsOf
<1>3. FoundTo(r, pos, n) \in Nat \ {0}
  <2>1. FoundTo(r, pos, n) = Cardinality(pos) /\ IsFiniteSet(pos)
    BY FoundIs
  <2> QED
    BY <2>1, FS_EmptySet, FS_CardinalityType
<1>4. ASSUME NEW e \in EndsOf(r, n, height) PROVE area[e] \in Shares
  <2>1. e \in Nat \ {0} /\ e \in 0..n
    BY <1>1 DEF EndsOf
  <2>2. PICK b \in 0..n : b = Before(r, n, height, e) /\ b <= e
    BY <1>1, <2>1, BeforeIs
  <2>found. FoundTo(r, pos, e) \in Nat
    BY <2>1, FoundIs
  <2>added. FoundTo(r, pos, e) - FoundTo(r, pos, b) \in Nat
    BY <2>1, <2>2, FoundInBlock
  <2>3. PICK f, k \in Nat : f = FoundTo(r, pos, e) /\ k = f - FoundTo(r, pos, b)
    BY <2>found, <2>added
  <2>4. area[e] = <<k * f, FoundTo(r, pos, n) * e>>
    BY <2>2, <2>3 DEF StepShares
  <2>5. k * f \in Nat /\ FoundTo(r, pos, n) * e \in Nat \ {0}
    BY <1>3, <2>1
  <2> QED
    BY <2>4, <2>5 DEF Shares
<1>5. IsFiniteSet(S)
  <2>1. S = {r[p] : p \in 1..n}
    BY DEF Curve
  <2>2. 1..n \in SUBSET (1..n)
    OBVIOUS
  <2> QED
    BY <2>1, <2>2, PlacesCount
<1>6. ASSUME NEW x \in pos PROVE share[x] \in Shares
  <2> DEFINE high == {y \in S : height[y] >= height[x]}
  <2>1. IsFiniteSet(high) /\ IsFiniteSet(high \intersect pos)
    BY <1>5, FS_Subset
  <2>2. Cardinality(high) \in Nat /\ Cardinality(high \intersect pos) \in Nat
    BY <2>1, FS_CardinalityType
  <2>3. share[x] = Score!Ratio(Cardinality(high \intersect pos), Cardinality(high))
    BY DEF HighShares
  <2> HIDE DEF high
  <2> QED
    BY <2>2, <2>3 DEF Score!Ratio, Shares
<1> QED
  BY <1>2, <1>3, <1>4, <1>6 DEF StepShares, HighShares

\* A block of equals adds its steps to the area as its positives do to the mean.
LEMMA BlockAdds ==
  ASSUME NEW r, NEW n, NEW S, NEW height, NEW pos, Curve(r, n, S, height, pos), pos # {},
         NEW area, StepShares(area, r, n, height, pos),
         NEW share, HighShares(share, S, height, pos),
         NEW sumOfSteps, Adds(sumOfSteps, EndsOf(r, n, height), area),
         NEW sumOfHigh, Adds(sumOfHigh, pos, share),
         NEW e \in EndsOf(r, n, height), NEW b, b = Before(r, n, height, e),
         Score!Same(sumOfSteps[{d \in EndsOf(r, n, height) : d <= b}],
                    Over(sumOfHigh[RankedTo(r, pos, b)], FoundTo(r, pos, n)))
  PROVE  Score!Same(sumOfSteps[{d \in EndsOf(r, n, height) : d <= e}],
                    Over(sumOfHigh[RankedTo(r, pos, e)], FoundTo(r, pos, n)))
<1> DEFINE ends == EndsOf(r, n, height)
           new == NewIn(r, pos, b, e)
           old == RankedTo(r, pos, b)
           lower == {d \in ends : d <= b}
<1>1. n \in Nat /\ e \in Nat \ {0} /\ e \in 0..n
  BY DEF Curve, EndsOf
<1>2. b \in 0..n /\ b < e /\ b <= e /\ \A q \in ends : q < e => q <= b
  BY <1>1, BeforeIs
<1>3. PICK P \in Nat \ {0} : P = FoundTo(r, pos, n)
  BY CurveShares
<1>4. share \in [pos -> Shares] /\ area \in [ends -> Shares] /\ IsFiniteSet(pos)
  BY CurveShares, FoundIs
<1>5. PICK f, k \in Nat : /\ f = FoundTo(r, pos, e) /\ k = f - FoundTo(r, pos, b)
                          /\ k = Cardinality(new)
  <2>1. FoundTo(r, pos, e) \in Nat
    BY <1>1, FoundIs
  <2>2. FoundTo(r, pos, e) - FoundTo(r, pos, b) \in Nat
    BY <1>1, <1>2, FoundInBlock
  <2>3. Cardinality(new) = FoundTo(r, pos, e) - FoundTo(r, pos, b)
    BY <1>1, <1>2, FoundInBlock
  <2> HIDE DEF new
  <2> QED
    BY <2>1, <2>2, <2>3
<1>6. /\ RankedTo(r, pos, e) = old \union new /\ old \intersect new = {}
      /\ old \in SUBSET pos /\ new \in SUBSET pos
  BY <1>1, <1>2, FoundInBlock
<1>7. \A x \in new : share[x] = <<f, e>>
  <2> SUFFICES ASSUME NEW q \in b + 1..e, r[q] \in pos PROVE share[r[q]] = <<f, e>>
    BY DEF NewIn
  <2> DEFINE high == {y \in S : height[y] >= height[r[q]]}
  <2>1. Cardinality(high) = e /\ Cardinality(high \intersect pos) = f
    BY <1>5, AsHighAs
  <2>2. share[r[q]] = Score!Ratio(Cardinality(high \intersect pos), Cardinality(high))
    BY DEF HighShares
  <2> HIDE DEF high
  <2> QED
    BY <1>1, <2>1, <2>2 DEF Score!Ratio
<1>8. {d \in ends : d <= e} = lower \union {e} /\ e \in ends \ lower /\ lower \in SUBSET ends
  <2>1. \A d \in ends : d \in Nat
    BY DEF EndsOf
  <2>2. e \in ends
    OBVIOUS
  <2> HIDE DEF ends
  <2>3. \A d \in ends : d <= e <=> d <= b \/ d = e
    BY <1>1, <1>2, <2>1
  <2>4. ~(e <= b)
    BY <1>1, <1>2
  <2> QED
    BY <1>1, <2>2, <2>3, <2>4
<1>9. area[e] = <<k * f, P * e>>
  BY <1>3, <1>5 DEF StepShares
<1> HIDE DEF new, old, lower, ends
<1>10. sumOfSteps[lower \union {e}] = Score!Plus(area[e], sumOfSteps[lower])
  BY <1>8 DEF Adds, ends
<1>11. /\ sumOfSteps[lower] \in Shares /\ sumOfSteps[lower \union {e}] \in Shares
       /\ sumOfHigh[old] \in Shares /\ sumOfHigh[old \union new] \in Shares
       /\ area[e] \in Shares
  <2>1. sumOfSteps \in [SUBSET ends -> Shares] /\ sumOfHigh \in [SUBSET pos -> Shares]
    BY DEF Adds, ends
  <2> QED
    BY <1>4, <1>6, <1>8, <2>1
<1>12. Score!Same(sumOfHigh[old \union new], Score!Plus(sumOfHigh[old], <<k * f, e>>))
  <2>1. Adds(sumOfHigh, pos, share)
    OBVIOUS
  <2>2. Score!Same(sumOfHigh[old \union new],
                   Score!Plus(sumOfHigh[old], <<Cardinality(new) * f, e>>))
    BY <1>1, <1>4, <1>5, <1>6, <1>7, <2>1, AlikeAdd
  <2> QED
    BY <1>5, <2>2
<1>13. PICK m \in Nat : m = k * f
  OBVIOUS
<1>14. <<m, e>> \in Shares
  BY <1>1 DEF Shares
<1>15. Score!Plus(sumOfHigh[old], <<m, e>>) \in Shares
  BY <1>11, <1>14, PlusIsAShare
<1>16. /\ Over(sumOfHigh[old], P) \in Shares /\ Over(sumOfHigh[old \union new], P) \in Shares
       /\ Over(Score!Plus(sumOfHigh[old], <<m, e>>), P) \in Shares
  BY <1>11, <1>15, OverIsAShare
<1>17. Score!Plus(area[e], Over(sumOfHigh[old], P)) \in Shares
  BY <1>11, <1>16, PlusIsAShare
<1>18. Score!Same(sumOfSteps[lower], Over(sumOfHigh[old], P))
  BY <1>3 DEF lower, old, ends
<1>19. Score!Same(sumOfSteps[lower \union {e}], Score!Plus(area[e], Over(sumOfHigh[old], P)))
  BY <1>10, <1>11, <1>16, <1>18, PlusKeepsSame
<1>20. Score!Same(Score!Plus(area[e], Over(sumOfHigh[old], P)),
                  Over(Score!Plus(sumOfHigh[old], <<m, e>>), P))
  BY <1>1, <1>9, <1>11, <1>13, OverIsAddedTo
<1>21. Score!Same(Over(Score!Plus(sumOfHigh[old], <<m, e>>), P), Over(sumOfHigh[old \union new], P))
  <2>1. Score!Same(Score!Plus(sumOfHigh[old], <<m, e>>), sumOfHigh[old \union new])
    BY <1>12, <1>13 DEF Score!Same
  <2> QED
    BY <1>11, <1>15, <2>1, OverKeepsSame
<1>22. Score!Same(sumOfSteps[lower \union {e}], Over(Score!Plus(sumOfHigh[old], <<m, e>>), P))
  BY <1>11, <1>16, <1>17, <1>19, <1>20, SameIsTransitive
<1>23. Score!Same(sumOfSteps[lower \union {e}], Over(sumOfHigh[old \union new], P))
  BY <1>11, <1>16, <1>21, <1>22, SameIsTransitive
<1> QED
  BY <1>3, <1>6, <1>8, <1>23 DEF ends

\* The steps sum to the mean: from one end to the next, both grow by the block between.
LEMMA StepsAreHigh ==
  ASSUME NEW r, NEW n, NEW S, NEW height, NEW pos, Curve(r, n, S, height, pos), pos # {},
         NEW area, StepShares(area, r, n, height, pos),
         NEW share, HighShares(share, S, height, pos),
         NEW sumOfSteps, Adds(sumOfSteps, EndsOf(r, n, height), area),
         NEW sumOfHigh, Adds(sumOfHigh, pos, share)
  PROVE  Score!Same(sumOfSteps[EndsOf(r, n, height)], Over(sumOfHigh[pos], Cardinality(pos)))
<1> DEFINE ends == EndsOf(r, n, height)
           Is(e) == Score!Same(sumOfSteps[{d \in ends : d <= e}],
                               Over(sumOfHigh[RankedTo(r, pos, e)], FoundTo(r, pos, n)))
           Bad == {e \in ends \union {0} : ~Is(e)}
<1>1. n \in Nat \ {0} /\ ends \subseteq 1..n /\ n \in ends
  BY DEF Curve, EndsOf
<1>2. Is(0)
  <2>1. {d \in ends : d <= 0} = {}
    BY <1>1
  <2>2. RankedTo(r, pos, 0) = {}
    BY FoundIs DEF RankedTo
  <2>3. sumOfSteps[{}] = <<0, 1>> /\ sumOfHigh[{}] = <<0, 1>>
    BY DEF Adds
  <2>4. FoundTo(r, pos, n) \in Nat \ {0}
    BY CurveShares
  <2>5. Score!Same(<<0, 1>>, Over(<<0, 1>>, FoundTo(r, pos, n)))
    BY <2>4 DEF Score!Same, Score!AtMost, Over
  <2> QED
    BY <2>1, <2>2, <2>3, <2>5
<1>3. ASSUME NEW e \in ends, Is(Before(r, n, height, e)) PROVE Is(e)
  <2>1. PICK b : b = Before(r, n, height, e)
    OBVIOUS
  <2>2. Score!Same(sumOfSteps[{d \in EndsOf(r, n, height) : d <= b}],
                   Over(sumOfHigh[RankedTo(r, pos, b)], FoundTo(r, pos, n)))
    BY <1>3, <2>1
  <2> QED
    BY <2>1, <2>2, BlockAdds
<1> HIDE DEF Is
<1>4. ASSUME Bad # {} PROVE FALSE
  <2>1. Bad \subseteq Nat
    BY <1>1
  <2>2. PICK e \in Bad : \A k \in Bad : e <= k
    <3> HIDE DEF Bad
    <3> QED
      BY <1>4, <2>1, LeastNatural
  <2>3. e \in ends /\ ~Is(e)
    BY <1>2, <2>2
  <2>4. PICK b \in Nat : b = Before(r, n, height, e)
    BY <2>3, BeforeIs
  <2>5. b \in ends \union {0} /\ b < e
    BY <2>3, <2>4, BeforeIs
  <2>6. e \in Nat /\ ~(e <= b)
    BY <1>1, <2>3, <2>5
  <2>7. b \notin Bad
    <3> HIDE DEF Bad
    <3> QED
      BY <2>2, <2>6
  <2>8. Is(b)
    BY <2>5, <2>7
  <2> QED
    BY <1>3, <2>3, <2>4, <2>8
<1>5. Is(n)
  BY <1>1, <1>4
<1>6. {d \in ends : d <= n} = ends
  BY <1>1
<1>7. RankedTo(r, pos, n) = pos /\ FoundTo(r, pos, n) = Cardinality(pos)
  BY FoundIs DEF RankedTo
<1> QED
  BY <1>5, <1>6, <1>7 DEF Is

\* What average_precision sorts by is an order on the scored cases.
AheadOf == {pair \in Score!Scored \X Score!Scored : Score!Ahead(pair[1], pair[2])}

\* The scored cases are finitely many; a score is a number and a case positive or not.
LEMMA ScoredIs ==
  ASSUME cases \in Seq(Claims)
  PROVE  /\ IsFiniteSet(Score!Scored)
         /\ \A i \in Score!Scored : /\ i \in Nat /\ i \in 1..Len(cases)
                                    /\ Score!Score(i) \in Int
                                    /\ cases[i].positive \in BOOLEAN
<1>1. Len(cases) \in Nat /\ Score!Scored \subseteq 1..Len(cases)
  BY DEF Score!Scored
<1>2. IsFiniteSet(Score!Scored)
  <2>1. IsFiniteSet(1..Len(cases))
    BY <1>1, FS_Interval
  <2> QED
    BY <1>1, <2>1, FS_Subset
<1>3. ASSUME NEW i \in Score!Scored
      PROVE  Score!Score(i) \in Int /\ cases[i].positive \in BOOLEAN
  <2>1. cases[i] \in Claims /\ cases[i].answer # Null
    BY <1>1 DEF Score!Scored
  <2> QED
    BY <2>1, ClaimsAssumption DEF Score!Score
<1> QED
  BY <1>1, <1>2, <1>3

\* Score first, then positive, then place: no two cases tie.
LEMMA AheadOrders ==
  ASSUME cases \in Seq(Claims)
  PROVE  Orders(AheadOf, Score!Scored)
<1> DEFINE Place(i) == IF cases[i].positive THEN 0 ELSE 1
           Less(i, j) == \/ Score!Score(i) > Score!Score(j)
                         \/ /\ Score!Score(i) = Score!Score(j)
                            /\ Place(i) < Place(j) \/ (Place(i) = Place(j) /\ i < j)
<1>1. \A i \in Score!Scored : i \in Nat /\ Score!Score(i) \in Int /\ cases[i].positive \in BOOLEAN
  BY ScoredIs
<1>2. \A i \in Score!Scored : Place(i) \in Nat
  OBVIOUS
<1>3. ASSUME NEW i \in Score!Scored, NEW j \in Score!Scored
      PROVE  Score!Ahead(i, j) <=> Less(i, j)
  <2>1. cases[i].positive = cases[j].positive <=> (cases[i].positive <=> cases[j].positive)
    BY <1>1, Zenon
  <2>2. /\ Place(i) < Place(j) <=> cases[i].positive /\ ~cases[j].positive
        /\ Place(i) = Place(j) <=> (cases[i].positive <=> cases[j].positive)
    OBVIOUS
  <2> HIDE DEF Place
  <2> QED
    BY <2>1, <2>2 DEF Score!Ahead
<1>4. \A i, j \in Score!Scored : <<i, j>> \in AheadOf <=> Less(i, j)
  BY <1>3 DEF AheadOf
<1> HIDE DEF Place
<1>5. \A i \in Score!Scored : <<i, i>> \notin AheadOf
  BY <1>1, <1>2, <1>4
<1>6. \A i, j \in Score!Scored : i = j \/ <<i, j>> \in AheadOf \/ <<j, i>> \in AheadOf
  <2> SUFFICES ASSUME NEW i \in Score!Scored, NEW j \in Score!Scored
               PROVE  i = j \/ Less(i, j) \/ Less(j, i)
    BY <1>4
  <2>1. /\ i \in Nat /\ j \in Nat /\ Place(i) \in Nat /\ Place(j) \in Nat
        /\ Score!Score(i) \in Int /\ Score!Score(j) \in Int
    BY <1>1, <1>2
  <2> QED
    BY <2>1
<1>7. \A i, j, k \in Score!Scored : <<i, j>> \in AheadOf /\ <<j, k>> \in AheadOf => <<i, k>> \in AheadOf
  BY <1>1, <1>2, <1>4
<1> QED
  BY <1>5, <1>6, <1>7 DEF Orders

Heights == [i \in Score!Scored |-> Score!Score(i)]

\* The cases ranked are a curve.
LEMMA RankedIsACurve ==
  ASSUME cases \in Seq(Claims), Score!Scored # {}
  PROVE  Curve(Score!Ranked, Cardinality(Score!Scored), Score!Scored, Heights, Score!Positives)
<1> DEFINE n == Cardinality(Score!Scored)
<1>1. IsFiniteSet(Score!Scored) /\ Orders(AheadOf, Score!Scored)
  BY ScoredIs, AheadOrders
<1>2. \E r : Ranks(r, Score!Scored, AheadOf)
  BY <1>1, RankingExists
<1>3. Ranks(Score!Ranked, Score!Scored, AheadOf)
  <2> DEFINE Descends(r) == \A p, q \in 1..n : p < q => Score!Ahead(r[p], r[q])
  <2>1. \A r \in [1..n -> Score!Scored] : Descends(r) <=> Ranks(r, Score!Scored, AheadOf)
    BY DEF Ranks, AheadOf
  <2>2. Score!Ranked = CHOOSE r \in [1..n -> Score!Scored] : Descends(r)
    BY Quantified DEF Score!Ranked
  <2>3. \E r \in [1..n -> Score!Scored] : Descends(r)
    BY <1>2, <2>1 DEF Ranks
  <2> HIDE DEF Descends
  <2>4. Score!Ranked \in [1..n -> Score!Scored] /\ Descends(Score!Ranked)
    BY <2>2, <2>3
  <2> QED
    BY <2>1, <2>4
<1> HIDE DEF n
<1>4. /\ Cardinality(Score!Scored) \in Nat
      /\ \A p, q \in 1..Cardinality(Score!Scored) : Score!Ranked[p] = Score!Ranked[q] => p = q
      /\ \A x \in Score!Scored : \E p \in 1..Cardinality(Score!Scored) : Score!Ranked[p] = x
  BY <1>1, <1>3, RankingIsOnto
<1>5. Cardinality(Score!Scored) # 0
  BY <1>1, FS_EmptySet
<1>6. Heights \in [Score!Scored -> Int]
  BY ScoredIs DEF Heights
<1>7. /\ Score!Ranked \in [1..Cardinality(Score!Scored) -> Score!Scored]
      /\ \A p, q \in 1..Cardinality(Score!Scored) :
           p < q => <<Score!Ranked[p], Score!Ranked[q]>> \in AheadOf
  BY <1>3 DEF Ranks
<1>8. \A i, j \in Score!Scored : <<i, j>> \in AheadOf => Heights[j] <= Heights[i]
  <2> SUFFICES ASSUME NEW i \in Score!Scored, NEW j \in Score!Scored, Score!Ahead(i, j)
               PROVE  Heights[j] <= Heights[i]
    BY DEF AheadOf
  <2>1. Score!Score(i) \in Int /\ Score!Score(j) \in Int
    BY ScoredIs
  <2> QED
    BY <2>1 DEF Score!Ahead, Heights
<1>9. Score!Positives \in SUBSET Score!Scored
  BY DEF Score!Positives
<1> QED
  BY <1>4, <1>5, <1>6, <1>7, <1>8, <1>9 DEF Curve

\* The ends and the counts that average_precision takes from the ranking are the curve's.
LEMMA RankedCounts ==
  ASSUME cases \in Seq(Claims), Score!Scored # {}
  PROVE  LET n == Cardinality(Score!Scored)
             r == Score!Ranked
         IN  /\ Len(r) = n
             /\ Score!StepEnds(r) = EndsOf(r, n, Heights)
             /\ \A p \in 0..n : Score!Found(r, p) = FoundTo(r, Score!Positives, p)
<1> DEFINE n == Cardinality(Score!Scored)
           r == Score!Ranked
<1>1. Curve(r, n, Score!Scored, Heights, Score!Positives)
  BY RankedIsACurve
<1>2. n \in Nat /\ r \in [1..n -> Score!Scored]
  BY <1>1 DEF Curve
<1> HIDE DEF n, r
<1>3. Len(r) = n
  <2>1. r \in Seq(Score!Scored)
    BY <1>2
  <2> QED
    BY <1>2, <2>1
<1>4. Score!StepEnds(r) = EndsOf(r, n, Heights)
  <2>1. \A p \in 1..n : Heights[r[p]] = Score!Score(r[p])
    BY <1>2 DEF Heights
  <2>2. \A p \in 1..n : p = n \/ p + 1 \in 1..n
    BY <1>2
  <2>3. \A p \in 1..n : (p = n \/ Score!Score(r[p + 1]) # Score!Score(r[p]))
                          <=> (p = n \/ Heights[r[p + 1]] # Heights[r[p]])
    BY <2>1, <2>2
  <2> QED
    BY <1>3, <2>3 DEF Score!StepEnds, EndsOf
<1>5. \A p \in 0..n : Score!Found(r, p) = FoundTo(r, Score!Positives, p)
  <2> SUFFICES ASSUME NEW p \in 0..n PROVE Score!Found(r, p) = FoundTo(r, Score!Positives, p)
    OBVIOUS
  <2>1. \A q \in 1..p : r[q] \in Score!Scored
    BY <1>2
  <2>2. {q \in 1..p : cases[r[q]].positive} = PosTo(r, Score!Positives, p)
    BY <2>1 DEF PosTo, Score!Positives
  <2> QED
    BY <2>2, Quantified DEF Score!Found, Score!Quantify, FoundTo
<1> QED
  BY <1>3, <1>4, <1>5 DEF n, r

\* So the area is the mean precision of the positives.
LEMMA AreaShows == ScoringInv => AreaIsMeanPrecision
<1> DEFINE Share(i) == Score!Ratio(Score!Cardinality(Score!AtLeastAs(i) \intersect Score!Positives),
                                   Score!Cardinality(Score!AtLeastAs(i)))
           share == [i \in Score!Positives |-> Share(i)]
           n == Cardinality(Score!Scored)
           r == Score!Ranked
           pos == Score!Positives
           ends == EndsOf(r, n, Heights)
           area == [e \in ends |->
                      <<(FoundTo(r, pos, e) - FoundTo(r, pos, Before(r, n, Heights, e))) * FoundTo(r, pos, e),
                        FoundTo(r, pos, n) * e>>]
<1> SUFFICES ASSUME ScoringInv, capability = "classification", Score!HasCurve
             PROVE  Score!Same(Score!AveragePrecision, Score!Mean(share))
  BY DEF AreaIsMeanPrecision, Score!AreaIsMeanPrecision
<1>1. cases \in Seq(Claims) /\ pos # {} /\ pos \in SUBSET Score!Scored /\ Score!Scored # {}
  BY DEF ScoringInv, Score!HasCurve, Score!Positives
<1>2. Curve(r, n, Score!Scored, Heights, pos)
  BY <1>1, RankedIsACurve
<1>3. /\ Len(r) = n /\ Score!StepEnds(r) = ends
      /\ \A p \in 0..n : Score!Found(r, p) = FoundTo(r, pos, p)
  BY <1>1, RankedCounts
<1>4. n \in Nat \ {0} /\ ends \subseteq 1..n
  BY <1>2 DEF Curve, EndsOf
<1>5. StepShares(area, r, n, Heights, pos)
  BY DEF StepShares
<1>6. HighShares(share, Score!Scored, Heights, pos)
  <2> SUFFICES ASSUME NEW i \in pos
               PROVE  Score!AtLeastAs(i) = {y \in Score!Scored : Heights[y] >= Heights[i]}
    BY Quantified DEF HighShares
  <2> QED
    BY <1>1 DEF Heights, Score!AtLeastAs
<1>7. Score!AveragePrecision = Score!SumOf(area)
  <2> DEFINE Added(e) == Score!Found(r, e) - Score!Found(r, Score!Max({q \in Score!StepEnds(r) \union {0} : q < e}))
             steps == [e \in Score!StepEnds(r) |-> <<Added(e) * Score!Found(r, e), Score!Found(r, Len(r)) * e>>]
  <2>1. Score!AveragePrecision = Score!SumOf(steps)
    BY DEF Score!AveragePrecision
  <2>2. ASSUME NEW e \in ends PROVE steps[e] = area[e]
    <3>1. e \in 0..n /\ n \in 0..n
      BY <1>4
    <3>2. Score!Max({q \in Score!StepEnds(r) \union {0} : q < e}) = Before(r, n, Heights, e)
      BY <1>3 DEF Before
    <3>3. Before(r, n, Heights, e) \in 0..n
      <4>1. PICK b \in Nat : b = Before(r, n, Heights, e) /\ b < e
        BY <1>2, BeforeIs
      <4> QED
        BY <1>4, <3>1, <4>1
    <3>4. /\ Score!Found(r, e) = FoundTo(r, pos, e)
          /\ Score!Found(r, Before(r, n, Heights, e)) = FoundTo(r, pos, Before(r, n, Heights, e))
          /\ Score!Found(r, Len(r)) = FoundTo(r, pos, n)
      BY <1>3, <3>1, <3>3
    <3> HIDE DEF ends, r, n, pos
    <3> QED
      BY <1>3, <3>2, <3>4
  <2>3. steps = area
    <3> HIDE DEF r, pos, n, Added, ends
    <3> QED
      BY <1>3, <2>2
  <2> QED
    BY <2>1, <2>3
<1> HIDE DEF share, area, ends, n, r, pos
<1>8. /\ area \in [EndsOf(r, n, Heights) -> Shares] /\ share \in [pos -> Shares]
      /\ IsFiniteSet(EndsOf(r, n, Heights)) /\ IsFiniteSet(pos)
  BY <1>1, <1>2, <1>5, <1>6, CurveShares, FoundIs
<1>9. PICK sumOfSteps : Adds(sumOfSteps, EndsOf(r, n, Heights), area)
                          /\ Score!SumOf(area) = sumOfSteps[EndsOf(r, n, Heights)]
  BY <1>8, SumAdds
<1>10. PICK sumOfHigh : Adds(sumOfHigh, pos, share) /\ Score!SumOf(share) = sumOfHigh[pos]
  BY <1>8, SumAdds
<1>11. Score!Same(sumOfSteps[EndsOf(r, n, Heights)], Over(sumOfHigh[pos], Cardinality(pos)))
  BY <1>1, <1>2, <1>5, <1>6, <1>9, <1>10, StepsAreHigh
<1>12. Score!Mean(share) = Over(sumOfHigh[pos], Cardinality(pos))
  <2>1. DOMAIN share = pos /\ Cardinality(pos) # 0
    BY <1>1, <1>8, FS_EmptySet
  <2> QED
    BY <1>10, <2>1, MeanIs DEF Over
<1> QED
  BY <1>7, <1>9, <1>11, <1>12

-----------------------------------------------------------------------------
\* The parts together: what each keeps, whichever of them the behaviour is of.

SequentialInv ==
  /\ RowsInv
  /\ ScoringInv
  /\ PortInv
  /\ MaterialInv
  /\ FilesInv
  /\ part = "generator" => Shaped(schemas)

\* Every part starts, or rests, as its invariant says.
LEMMA SequentialStart == Init => SequentialInv
<1> SUFFICES ASSUME Init PROVE SequentialInv
  OBVIOUS
<1>1. RowsInv
  BY RowsStart DEF Init
<1>2. PortInv
  BY PortStart DEF Init
<1>3. MaterialInv /\ ScoringInv
  BY MaterialStart, ScoringStart DEF Init, Files!Init
<1>4. CASE part = "generator"
  <2>1. Contract!Init
    BY <1>4 DEF Init
  <2> QED
    BY <1>1, <1>2, <1>3, <2>1, ContractStart DEF SequentialInv
<1>5. CASE part # "generator"
  <2>1. files = [models |-> Nothing, client |-> Nothing]
    BY <1>5 DEF Init
  <2>2. FilesInv
    BY <2>1 DEF FilesInv
  <2> QED
    BY <1>1, <1>2, <1>3, <1>5, <2>2 DEF SequentialInv
<1> QED
  BY <1>4, <1>5

\* A part at rest keeps what it keeps.
LEMMA RowsRest == RowsInv /\ UNCHANGED audit => RowsInv'
  BY DEF RowsInv, audit, Written, Rows!Hashes

LEMMA PortRest == PortInv /\ UNCHANGED port => PortInv'
  BY DEF PortInv, port, AnswersAreTheRecordings, Port!AnswersAreTheRecordings, BuiltFrom

LEMMA FilesRest == FilesInv /\ UNCHANGED generator => FilesInv'
  BY DEF FilesInv, generator, Shaped, Accepted

\* A step is of one part, and leaves the others at rest.
LEMMA SequentialStep == SequentialInv /\ [Next]_vars => SequentialInv'
<1> SUFFICES ASSUME SequentialInv, [Next]_vars PROVE SequentialInv'
  OBVIOUS
<1>1. RowsInv /\ ScoringInv /\ PortInv /\ MaterialInv /\ FilesInv /\ (part = "generator" => Shaped(schemas))
  BY DEF SequentialInv
<1>2. CASE part = "audit" /\ Rows!Next /\ UNCHANGED <<part, scoring, material, port, generator>>
  <2>1. RowsInv'
    BY <1>1, <1>2, RowsStep
  <2>2. ScoringInv' /\ PortInv' /\ MaterialInv' /\ FilesInv' /\ part' # "generator"
    BY <1>1, <1>2, ScoringStep, PortRest, MaterialStep, FilesRest
  <2> QED
    BY <2>1, <2>2 DEF SequentialInv
<1>3. CASE part = "scoring" /\ Score!Next /\ UNCHANGED <<part, audit, material, port, generator>>
  <2>1. ScoringInv'
    BY <1>1, <1>3, ScoringStep
  <2>2. RowsInv' /\ PortInv' /\ MaterialInv' /\ FilesInv' /\ part' # "generator"
    BY <1>1, <1>3, RowsRest, PortRest, MaterialStep, FilesRest
  <2> QED
    BY <2>1, <2>2 DEF SequentialInv
<1>4. CASE part = "material" /\ Files!Next /\ UNCHANGED <<part, audit, scoring, port, generator>>
  <2>1. MaterialInv'
    BY <1>1, <1>4, MaterialStep
  <2>2. RowsInv' /\ ScoringInv' /\ PortInv' /\ FilesInv' /\ part' # "generator"
    BY <1>1, <1>4, RowsRest, ScoringStep, PortRest, FilesRest
  <2> QED
    BY <2>1, <2>2 DEF SequentialInv
<1>5. CASE part = "port" /\ Port!Next /\ UNCHANGED <<part, audit, scoring, material, generator>>
  <2>1. PortInv'
    BY <1>1, <1>5, PortStep
  <2>2. RowsInv' /\ ScoringInv' /\ MaterialInv' /\ FilesInv' /\ part' # "generator"
    BY <1>1, <1>5, RowsRest, ScoringStep, MaterialStep, FilesRest
  <2> QED
    BY <2>1, <2>2 DEF SequentialInv
<1>6. CASE part = "generator" /\ Contract!Next /\ UNCHANGED <<part, audit, scoring, material, port>>
  <2>1. FilesInv' /\ Shaped(schemas')
    BY <1>1, <1>6, ContractStep
  <2>2. (Shaped(schemas))'
    BY <2>1
  <2>3. RowsInv' /\ ScoringInv' /\ PortInv' /\ MaterialInv'
    BY <1>1, <1>6, RowsRest, ScoringStep, PortRest, MaterialStep
  <2> QED
    BY <2>1, <2>2, <2>3 DEF SequentialInv
<1>7. CASE UNCHANGED vars
  <2>1. UNCHANGED <<part, audit, scoring, material, port, generator>>
    BY <1>7 DEF vars
  <2>2. RowsInv' /\ ScoringInv' /\ PortInv' /\ MaterialInv' /\ FilesInv'
    BY <1>1, <2>1, RowsRest, ScoringStep, PortRest, MaterialStep, FilesRest
  <2>3. part' = part /\ schemas' = schemas
    BY <2>1 DEF generator
  <2>4. part' = "generator" => (Shaped(schemas))'
    BY <1>1, <2>3 DEF Shaped
  <2> QED
    BY <2>2, <2>4 DEF SequentialInv
<1> QED
  BY <1>2, <1>3, <1>4, <1>5, <1>6, <1>7 DEF Next

-----------------------------------------------------------------------------
\* What each part keeps, it keeps in every state that can be reached: the log is a
\* chain that verifies, a set is of one capability's cases, the adapter holds what its
\* files said when it was built, the evaluation's files are whole as far as it goes on,
\* and what is generated is of one contract that was accepted.
THEOREM SequentialKeeps == Spec => []SequentialInv
  BY SequentialStart, SequentialStep, PTL DEF Spec

\* audit.py's verify: whatever is done to the rows that the store wrote, short of
\* computing hashes anew, they verify only as the log itself or a beginning of it.
THEOREM RowsVerifyOnlyCut == Spec => []OnlyACutVerifies
<1>1. SequentialInv => OnlyACutVerifies
  BY RowsShow DEF SequentialInv
<1> QED
  BY <1>1, SequentialKeeps, PTL

\* Rows that verify and end in the hash last written are the log, all of it, even
\* with hashes computed anew: what a digest kept elsewhere is good for.
THEOREM HeadPins == Spec => []HeadPinsTheChain
<1>1. SequentialInv => HeadPinsTheChain
  BY RowsShow DEF SequentialInv
<1> QED
  BY <1>1, SequentialKeeps, PTL

\* scoring.py's extraction and label counts: every answer is one right or wrong, and
\* every case one found or missed, in all, for each field and for each label, of sets
\* of any size; and f1 lies between precision and recall.
THEOREM AnswersCountOnce == Spec => []EveryAnswerIsCountedOnce
<1>1. SequentialInv => EveryAnswerIsCountedOnce
  BY ScoringShows DEF SequentialInv
<1> QED
  BY <1>1, SequentialKeeps, PTL

\* hit_at, reciprocal_rank and citation_counts read one list alike: it hits at a depth
\* exactly if its first expected clause is no deeper, a hit rate bounds the mean
\* reciprocal rank, and a citation counts exactly if the list holds its clause, for
\* questions, lists and depths of any size.
THEOREM RetrievalReadsOneList == Spec => []RetrievalReadsItsList
<1>1. SequentialInv => RetrievalReadsItsList
  BY RetrievalShows DEF SequentialInv
<1> QED
  BY <1>1, SequentialKeeps, PTL

\* average_precision: the area summed over the steps is the mean, over the positives,
\* of the share of positives among the cases scored no lower, for claims of any number,
\* scores and ties.
THEOREM AreaIsTheMean == Spec => []AreaIsMeanPrecision
<1>1. SequentialInv => AreaIsMeanPrecision
  BY AreaShows DEF SequentialInv
<1> QED
  BY <1>1, SequentialKeeps, PTL

\* scoring.py's measures: a case answered as it states lowers neither the fields'
\* precision, recall and f1 nor the labels' mean recall nor the routing accuracy, of
\* a set of any size, whatever was read before it.
THEOREM RightAnswersNeverLower == Spec => RightAnswerNeverLowers
<1> DEFINE Right == cases # <<>> /\ Score!RightAnswer(Score!Last(cases')) =>
                      IF capability = "extraction"
                      THEN /\ Score!AtMost(Score!Precision(Score!Extraction), Score!Precision(Score!Extraction'))
                           /\ Score!AtMost(Score!Recall(Score!Extraction), Score!Recall(Score!Extraction'))
                           /\ Score!AtMost(Score!F1(Score!Extraction), Score!F1(Score!Extraction'))
                      ELSE /\ Score!AtMost(Score!MacroAverage(Score!Recall), Score!MacroAverage(Score!Recall)')
                           /\ Score!AtMost(Score!RoutingAccuracy, Score!RoutingAccuracy')
<1>1. SequentialInv /\ SequentialInv' /\ [Next]_vars => [Right]_(Score!vars)
  <2> SUFFICES ASSUME SequentialInv, SequentialInv', [Next]_vars PROVE Right \/ UNCHANGED Score!vars
    OBVIOUS
  <2>1. ScoringInv /\ ScoringInv'
    BY DEF SequentialInv
  <2>2. Score!Next \/ UNCHANGED Score!vars
    BY DEF Next, vars, scoring, Score!vars
  <2>3. ASSUME Score!Next PROVE Right
    <3>1. RightFields /\ RightLabels
      BY <2>1, <2>3, ScoringRight, LabelsRight
    <3>2. Score!RightAnswer(Last(cases')) => capability \in {"extraction", "classification"}
      BY DEF Score!RightAnswer
    <3>3. Score!Last(cases') = Last(cases')
      BY DEF Score!Last, Last
    <3> QED
      BY <3>1, <3>2, <3>3 DEF RightFields, RightLabels
  <2> QED
    BY <2>2, <2>3
<1> HIDE DEF Right
<1>2. Spec => [][Right]_(Score!vars)
  BY <1>1, SequentialKeeps, PTL DEF Spec
<1> QED
  BY <1>2, PTL DEF RightAnswerNeverLowers, Score!RightAnswerNeverLowers, Right

\* material.py and its readers: a run that was read scores every line of the golden
\* sets once and counts every line of the answers once, and leaves a capability out
\* only if no case asks it, for any number of capabilities, cases and lines.
THEOREM LinesCountOnce == Spec => []EveryLineCountsOnce
<1>1. SequentialInv => EveryLineCountsOnce
  BY MaterialShows DEF SequentialInv
<1> QED
  BY <1>1, SequentialKeeps, PTL

\* The replay adapter: an answer is the one recorded for that call and that schema,
\* in the one file that said so when the adapter was built, however the directory was
\* edited before or since.
THEOREM RecordingsAnswer == Spec => []AnswersAreTheRecordings
<1>1. SequentialInv => AnswersAreTheRecordings
  BY DEF SequentialInv, PortInv
<1> QED
  BY <1>1, SequentialKeeps, PTL

\* codegen.py: models and client are of one contract, or are neither written; and they
\* ask of the field what that contract asks, but for what stands beside a reference.
THEOREM FilesAreOfOne == Spec => []AllFilesOrNone
<1>1. SequentialInv => AllFilesOrNone
  BY FilesShow DEF SequentialInv
<1> QED
  BY <1>1, SequentialKeeps, PTL
=============================================================================
