--------------------------- MODULE WorkLedger_proofs ---------------------------
(***************************************************************************)
(* Proofs about WorkLedger for every set of writers and commits, every     *)
(* history relation and every bound.  Two arguments carry them.  A hash is *)
(* what was hashed, so lines whose chain is right and that hold the same   *)
(* hash are the same up to it: no accident and nobody who re-chains the    *)
(* file changes what an anchored hash stands for.  And every claim of the  *)
(* file is a recorded one, or forged: as many different ones as were       *)
(* recorded are all of them.                                               *)
(***************************************************************************)
EXTENDS WorkLedger, FiniteSetTheorems, FunctionTheorems, SequenceTheorems,
        WellFoundedInduction, TLAPS

\* A claim in the file that is not forged is a recorded one, with its commit.
FileIsClaimed ==
  \A i \in DOMAIN file : file[i].claim # Forged =>
    /\ file[i].claim \in 1 .. Len(recorded)
    /\ file[i].commit = recorded[file[i].claim].commit

\* A recorded entry has the number and the link of what its writer had loaded.
RecordsStand ==
  \A n \in 1 .. Len(recorded) :
    /\ recorded[n].claim = n /\ recorded[n].hash = HashOf(recorded[n])
    /\ recorded[n].seq = Len(basis[n]) /\ recorded[n].prev = HeadHash(basis[n])

\* What is anchored, or waits to be, was recorded.
IsRecorded(seq, hash) ==
  \E n \in 1 .. Len(recorded) : recorded[n].seq = seq /\ recorded[n].hash = hash
AnchorsStand ==
  /\ \A w \in Writers : pending[w] # NoEntry => IsRecorded(pending[w].seq, pending[w].hash)
  /\ \A k \in DOMAIN anchors : IsRecorded(anchors[k].seq, anchors[k].hash)

\* An undisturbed file is the record, numbered and linked.
FileIsTheRecord ==
  undisturbed =>
    /\ file = recorded
    /\ \A i \in DOMAIN file :
         /\ file[i].seq = i - 1
         /\ file[i].prev = IF i = 1 THEN GENESIS ELSE file[i - 1].hash

IInv ==
  /\ LedgerTypeOK /\ FileIsClaimed /\ RecordsStand /\ AnchorsStand /\ FileIsTheRecord

-------------------------------------------------------------------------------
\* The natural numbers have least elements, and bounded sets of them greatest ones.
LEMMA Least ==
  ASSUME NEW T, T \subseteq Nat, T # {}
  PROVE  \E x \in T : \A y \in T : x <= y
<1> DEFINE R == OpToRel(<, Nat)
<1>1. \A y, x \in T : y < x => <<y, x>> \in R
  BY DEF OpToRel
<1>2. IsWellFoundedOn(R, Nat)
  BY NatLessThanWellFounded
<1> HIDE DEF R
<1>3. PICK x \in T : \A y \in T : ~ (<<y, x>> \in R)
  BY <1>2, WFMin
<1>4. \A y \in T : ~ (y < x)
  BY <1>1, <1>3
<1> QED BY <1>4

LEMMA Greatest ==
  ASSUME NEW n \in Nat, NEW S, S \subseteq 1 .. n, S # {}
  PROVE  \E x \in S : \A y \in S : y <= x
<1> DEFINE T == {n - i : i \in S}
<1>1. T \subseteq Nat /\ T # {}
  <2>1. \A i \in S : n - i \in Nat
    OBVIOUS
  <2> QED BY <2>1
<1>2. PICK t \in T : \A y \in T : t <= y
  <2> HIDE DEF T
  <2> QED BY <1>1, Least
<1>3. PICK x \in S : t = n - x
  OBVIOUS
<1>4. \A y \in S : n - x <= n - y
  BY <1>2, <1>3
<1> QED BY <1>4

-------------------------------------------------------------------------------
\* An entry that is written has the hash of its content.
LEMMA SignedFacts ==
  ASSUME NEW seq \in Nat, NEW claim \in Claims, NEW commit \in Commits \cup {NoGit},
         NEW prev \in Seq(Content)
  PROVE  /\ Signed(seq, claim, commit, prev) \in Entry
         /\ Signed(seq, claim, commit, prev).seq = seq
         /\ Signed(seq, claim, commit, prev).claim = claim
         /\ Signed(seq, claim, commit, prev).commit = commit
         /\ Signed(seq, claim, commit, prev).prev = prev
         /\ Signed(seq, claim, commit, prev).hash = HashOf(Signed(seq, claim, commit, prev))
<1> DEFINE c == [seq |-> seq, claim |-> claim, commit |-> commit]
           s == [seq |-> seq, claim |-> claim, commit |-> commit, prev |-> prev,
                 hash |-> Append(prev, c)]
<1> DEFINE h == Append(prev, c)
           r == [seq |-> seq, claim |-> claim, commit |-> commit, prev |-> prev, hash |-> <<>>]
<1>1. Signed(seq, claim, commit, prev) = [r EXCEPT !.hash = HashOf(r)]
  BY Zenon DEF Signed
<1>2. HashOf(r) = h /\ HashOf(s) = h
  BY DEF HashOf, ContentOf
<1>3. c \in Content
  BY DEF Content
<1>4. h \in Seq(Content)
  <2> HIDE DEF c
  <2> QED BY <1>3, AppendProperties
<1> HIDE DEF h
<1>5. s = [seq |-> seq, claim |-> claim, commit |-> commit, prev |-> prev, hash |-> h]
  BY DEF h
<1> HIDE DEF s
<1>6. Signed(seq, claim, commit, prev) = s
  BY <1>1, <1>2, <1>5
<1>7. s \in Entry /\ s.hash = HashOf(s)
  BY <1>2, <1>4, <1>5 DEF Entry
<1>8. s.seq = seq /\ s.claim = claim /\ s.commit = commit /\ s.prev = prev
  BY <1>5
<1> QED BY <1>6, <1>7, <1>8

\* A line that has the hash of its content, and another of the same hash, are one.
LEMMA SameHash ==
  ASSUME NEW d \in Entry, NEW e \in Entry, d.hash = HashOf(d), e.hash = HashOf(e),
         d.hash = e.hash
  PROVE  d = e
<1>1. /\ d.prev \in Seq(Content) /\ ContentOf(d) \in Content
      /\ e.prev \in Seq(Content) /\ ContentOf(e) \in Content
  BY DEF Entry, Content, ContentOf
<1>2. Append(d.prev, ContentOf(d)) = Append(e.prev, ContentOf(e))
  BY DEF HashOf
<1>3. d.prev = e.prev /\ ContentOf(d) = ContentOf(e)
  <2> DEFINE a == ContentOf(d)
             b == ContentOf(e)
  <2>1. /\ Len(d.prev) \in Nat /\ Len(e.prev) \in Nat
        /\ Len(Append(d.prev, a)) = Len(d.prev) + 1
        /\ Len(Append(e.prev, b)) = Len(e.prev) + 1
        /\ Append(d.prev, a)[Len(d.prev) + 1] = a
        /\ Append(e.prev, b)[Len(e.prev) + 1] = b
        /\ \A i \in 1 .. Len(d.prev) : Append(d.prev, a)[i] = d.prev[i]
        /\ \A i \in 1 .. Len(e.prev) : Append(e.prev, b)[i] = e.prev[i]
    <3> HIDE DEF a, b
    <3> QED BY <1>1, AppendProperties, LenProperties DEF a, b
  <2>2. Len(d.prev) = Len(e.prev)
    BY <1>2, <2>1
  <2>3. a = b
    BY <1>2, <2>1, <2>2
  <2>4. \A i \in 1 .. Len(d.prev) : d.prev[i] = e.prev[i]
    BY <1>2, <2>1, <2>2
  <2> QED BY <1>1, <2>2, <2>3, <2>4, SeqEqual
<1>4. d.seq = e.seq /\ d.claim = e.claim /\ d.commit = e.commit
  BY <1>3 DEF ContentOf
<1> QED BY <1>3, <1>4 DEF Entry

\* A hash is not empty.
LEMMA HashNotEmpty ==
  ASSUME NEW e \in Entry
  PROVE  HashOf(e) # <<>>
<1>1. e.prev \in Seq(Content) /\ ContentOf(e) \in Content
  BY DEF Entry, Content, ContentOf
<1>2. Len(e.prev) \in Nat /\ Len(HashOf(e)) = Len(e.prev) + 1
  BY <1>1, AppendProperties, LenProperties DEF HashOf
<1> QED BY <1>2, EmptySeq

\* The lines of a chain that is right are entries with the hashes of their contents.
LEMMA ChainFacts ==
  ASSUME NEW lines \in Seq(Lines), ChainOK(lines), NEW i \in DOMAIN lines
  PROVE  /\ lines[i] \in Entry /\ lines[i].hash = HashOf(lines[i]) /\ lines[i].hash # <<>>
         /\ lines[i].prev = IF i = 1 THEN GENESIS ELSE lines[i - 1].hash
<1>1. lines[i] \in Lines
  BY ElementOfSeq, LenProperties
<1>2. lines[i] \in Entry
  BY <1>1 DEF ChainOK, Lines
<1> QED BY <1>2, HashNotEmpty DEF ChainOK

\* The next entry builds on the hash of an entry, or on GENESIS.
LEMMA HeadHashTyped ==
  ASSUME NEW entries \in Seq(Lines)
  PROVE  HeadHash(entries) \in Seq(Content)
<1> DEFINE hashed == {i \in DOMAIN entries : entries[i].hash # <<>>}
<1>1. CASE hashed = {}
  BY <1>1, EmptySeq DEF HeadHash, GENESIS
<1>2. CASE hashed # {}
  <2>1. hashed \subseteq 1 .. Len(entries) /\ Len(entries) \in Nat
    BY LenProperties
  <2>2. \E i \in hashed : \A j \in hashed : j <= i
    BY <1>2, <2>1, Greatest
  <2> DEFINE h == CHOOSE i \in hashed : \A j \in hashed : j <= i
  <2>3. h \in hashed
    BY <2>2
  <2>4. entries[h] \in Lines
    BY <2>1, <2>3, ElementOfSeq
  <2>5. HeadHash(entries) = entries[h].hash
    BY <1>2 DEF HeadHash
  <2>6. Corrupt.hash \in Seq(Content)
    BY EmptySeq DEF Corrupt
  <2> QED BY <2>4, <2>5, <2>6 DEF Lines, Entry
<1> QED BY <1>1, <1>2

\* Where every line has a hash, that of the last one.
LEMMA HeadHashOfChain ==
  ASSUME NEW entries \in Seq(Lines), \A i \in DOMAIN entries : entries[i].hash # <<>>
  PROVE  HeadHash(entries) = IF entries = <<>> THEN GENESIS ELSE entries[Len(entries)].hash
<1> DEFINE hashed == {i \in DOMAIN entries : entries[i].hash # <<>>}
           h == CHOOSE i \in hashed : \A j \in hashed : j <= i
           n == Len(entries)
<1>1. n \in Nat /\ hashed = 1 .. n
  BY LenProperties
<1>2. CASE n = 0
  <2>1. hashed = {} /\ entries = <<>>
    BY <1>1, <1>2, EmptySeq
  <2> QED BY <2>1 DEF HeadHash
<1>3. CASE n # 0
  <2>1. hashed # {} /\ entries # <<>> /\ n \in hashed /\ \A j \in hashed : j <= n
    BY <1>1, <1>3, EmptySeq
  <2>2. HeadHash(entries) = entries[h].hash
    BY <2>1 DEF HeadHash
  <2>3. h = n
    <3> HIDE DEF hashed
    <3>1. h \in hashed /\ \A j \in hashed : j <= h
      BY <2>1
    <3> HIDE DEF h, n
    <3>2. n <= h /\ h <= n /\ h \in 1 .. n
      BY <1>1, <2>1, <3>1
    <3> QED BY <1>1, <3>2
  <2> QED BY <2>1, <2>2, <2>3
<1> QED BY <1>1, <1>2, <1>3

\* Two chains that are right and hold one hash at one place are the same up to there.
LEMMA Pinned ==
  ASSUME NEW one \in Seq(Lines), NEW other \in Seq(Lines), ChainOK(one), ChainOK(other),
         NEW i \in DOMAIN one, i \in DOMAIN other, one[i].hash = other[i].hash
  PROVE  \A k \in 1 .. i : one[k] = other[k]
<1> DEFINE S == {k \in 1 .. i : one[k] # other[k]}
<1> SUFFICES ASSUME S # {} PROVE FALSE
  OBVIOUS
<1>1. /\ Len(one) \in Nat /\ DOMAIN one = 1 .. Len(one)
      /\ Len(other) \in Nat /\ DOMAIN other = 1 .. Len(other) /\ i \in Nat
  BY LenProperties
<1>2. PICK m \in S : \A k \in S : k <= m
  <2>1. S \subseteq 1 .. i
    OBVIOUS
  <2> HIDE DEF S
  <2> QED BY <1>1, <2>1, Greatest
<1>3. m \in 1 .. i /\ m \in DOMAIN one /\ m \in DOMAIN other /\ one[m] # other[m]
  BY <1>1, <1>2
<1>4. one[m].hash = other[m].hash
  <2>1. CASE m = i
    BY <2>1
  <2>2. CASE m # i
    <3>1. m + 1 \in 1 .. i /\ m + 1 \in DOMAIN one /\ m + 1 \in DOMAIN other
          /\ ~ (m + 1 <= m) /\ m + 1 # 1 /\ (m + 1) - 1 = m
      BY <1>1, <1>3, <2>2
    <3>2. one[m + 1] = other[m + 1]
      BY <1>2, <3>1
    <3>3. one[m + 1].prev = one[m].hash /\ other[m + 1].prev = other[m].hash
      BY <3>1, ChainFacts
    <3> QED BY <3>2, <3>3
  <2> QED BY <2>1, <2>2
<1>5. one[m] = other[m]
  BY <1>3, <1>4, ChainFacts, SameHash
<1> QED BY <1>3, <1>5

\* A new entry is well formed and makes the next claim.
LEMMA NewEntryFacts ==
  ASSUME LedgerTypeOK, NEW w \in Writers, NEW c \in Commits \cup {NoGit},
         Len(recorded) < MaxRecords
  PROVE  /\ NewEntry(mem[w], c) \in Entry
         /\ NewEntry(mem[w], c).claim = Len(recorded) + 1
         /\ NewEntry(mem[w], c).claim # Forged
         /\ NewEntry(mem[w], c).seq = Len(mem[w])
         /\ NewEntry(mem[w], c).prev = HeadHash(mem[w])
         /\ NewEntry(mem[w], c).hash = HashOf(NewEntry(mem[w], c))
<1>1. mem[w] \in Seq(Lines) /\ Len(mem[w]) \in Nat
  BY LenProperties DEF LedgerTypeOK
<1>2. HeadHash(mem[w]) \in Seq(Content)
  BY <1>1, HeadHashTyped
<1>3. Len(recorded) \in Nat
  BY LenProperties DEF LedgerTypeOK
<1>4. Len(recorded) + 1 \in Claims /\ Len(recorded) + 1 # Forged
  BY <1>3, LedgerAssumption DEF Claims, Forged
<1> DEFINE e == Signed(Len(mem[w]), Len(recorded) + 1, c, HeadHash(mem[w]))
<1>5. NewEntry(mem[w], c) = e
  BY DEF NewEntry
<1>6. /\ e \in Entry /\ e.seq = Len(mem[w]) /\ e.claim = Len(recorded) + 1
      /\ e.prev = HeadHash(mem[w]) /\ e.hash = HashOf(e)
  <2>1. ASSUME NEW q, q \in Nat, NEW m, m \in Claims, NEW h, h \in Seq(Content)
        PROVE  /\ Signed(q, m, c, h) \in Entry /\ Signed(q, m, c, h).seq = q
               /\ Signed(q, m, c, h).claim = m /\ Signed(q, m, c, h).prev = h
               /\ Signed(q, m, c, h).hash = HashOf(Signed(q, m, c, h))
    BY <2>1, SignedFacts
  <2> QED BY <1>1, <1>2, <1>4, <2>1
<1> QED BY <1>4, <1>5, <1>6

\* What appending text does to the lines.
LEMMA WithLineFacts ==
  ASSUME LedgerTypeOK, NEW line \in Lines, file' = WithLine(line)
  PROVE  /\ file' \in Seq(Lines) /\ file' # <<>>
         /\ \/ /\ ~unended
               /\ Len(file') = Len(file) + 1 /\ file'[Len(file) + 1] = line
               /\ \A i \in 1 .. Len(file) : file'[i] = file[i]
            \/ /\ unended
               /\ Len(file') = Len(file) /\ Len(file) # 0 /\ file'[Len(file)] = Corrupt
               /\ \A i \in 1 .. Len(file) : i # Len(file) => file'[i] = file[i]
<1>0. file \in Seq(Lines) /\ Corrupt \in Lines
  BY DEF LedgerTypeOK, Lines
<1>1. CASE ~unended
  BY <1>0, <1>1, AppendProperties DEF WithLine
<1>2. CASE unended
  <2>1. file # <<>>
    BY <1>2 DEF LedgerTypeOK
  <2>2. Len(file) \in 1 .. Len(file)
    BY <1>0, <2>1, LenProperties, EmptySeq
  <2>3. file' = [file EXCEPT ![Len(file)] = Corrupt]
    BY <1>2 DEF WithLine
  <2> QED BY <1>0, <1>2, <2>2, <2>3, ExceptSeq, EmptySeq
<1> QED BY <1>1, <1>2

\* So a readable line is an old one in its place or the new one at the end.
LEMMA WithLineKeeps ==
  ASSUME LedgerTypeOK, NEW line \in Lines, file' = WithLine(line)
  PROVE  /\ DOMAIN file' \subseteq 1 .. Len(file) + 1
         /\ \A k \in DOMAIN file' : file'[k] # Corrupt =>
              \/ k \in DOMAIN file /\ file'[k] = file[k]
              \/ k = Len(file) + 1 /\ file'[k] = line
<1>1. DOMAIN file = 1 .. Len(file) /\ Len(file) \in Nat
  BY LenProperties DEF LedgerTypeOK
<1>2. file' \in Seq(Lines)
  BY WithLineFacts
<1>3. DOMAIN file' = 1 .. Len(file') /\ Len(file') \in Nat
  BY <1>2, LenProperties
<1>4. CASE ~unended
  <2>1. /\ Len(file') = Len(file) + 1 /\ file'[Len(file) + 1] = line
        /\ \A i \in 1 .. Len(file) : file'[i] = file[i]
    BY <1>4, WithLineFacts
  <2> QED BY <1>1, <1>3, <2>1
<1>5. CASE unended
  <2>1. /\ Len(file') = Len(file) /\ file'[Len(file)] = Corrupt
        /\ \A i \in 1 .. Len(file) : i # Len(file) => file'[i] = file[i]
    BY <1>5, WithLineFacts
  <2>2. DOMAIN file' = 1 .. Len(file)
    BY <1>3, <2>1
  <2>3. 1 .. Len(file) \subseteq 1 .. Len(file) + 1
    BY <1>1
  <2>4. ASSUME NEW k \in DOMAIN file', file'[k] # Corrupt
        PROVE  k \in DOMAIN file /\ file'[k] = file[k]
    <3>1. k # Len(file)
      BY <2>1, <2>4
    <3> QED BY <1>1, <2>1, <2>2, <2>4, <3>1
  <2> QED BY <2>2, <2>3, <2>4
<1> QED BY <1>4, <1>5

\* What the history gains when an entry is written whole.
LEMMA RecordedTyped ==
  ASSUME LedgerTypeOK, NEW w \in Writers, NEW e \in Entry, Recorded(w, e),
         Len(recorded) < MaxRecords
  PROVE  /\ recorded' \in Seq(Entry) /\ Len(recorded') <= MaxRecords
         /\ Len(recorded') = Len(recorded) + 1
         /\ recorded'[Len(recorded) + 1] = e
         /\ \A i \in 1 .. Len(recorded) : recorded'[i] = recorded[i]
         /\ basis' \in Seq(Seq(Lines)) /\ Len(basis') = Len(recorded')
         /\ undisturbed' \in BOOLEAN
<1>1. /\ recorded \in Seq(Entry) /\ basis \in Seq(Seq(Lines)) /\ mem[w] \in Seq(Lines)
      /\ Len(basis) = Len(recorded) /\ Len(recorded) \in Nat
  BY LenProperties DEF LedgerTypeOK
<1>2. recorded' = Append(recorded, e) /\ basis' = Append(basis, mem[w])
  BY DEF Recorded
<1>3. /\ recorded' \in Seq(Entry) /\ Len(recorded') = Len(recorded) + 1
      /\ recorded'[Len(recorded) + 1] = e
      /\ \A i \in 1 .. Len(recorded) : recorded'[i] = recorded[i]
  BY <1>1, <1>2, AppendProperties
<1>4. basis' \in Seq(Seq(Lines)) /\ Len(basis') = Len(basis) + 1
  BY <1>1, <1>2, AppendProperties
<1>5. undisturbed' \in BOOLEAN
  BY DEF Recorded, LedgerTypeOK
<1> QED BY <1>1, <1>3, <1>4, <1>5, LedgerAssumption

\* A process that is gone.
LEMMA ClosedTyped ==
  ASSUME LedgerTypeOK, NEW w \in Writers, Closed(w)
  PROVE  /\ open' \subseteq Writers
         /\ mem' \in [Writers -> Seq(Lines)]
         /\ pending' \in [Writers -> Entry \cup {NoEntry}]
         /\ \A v \in Writers \ open' : mem'[v] = <<>> /\ pending'[v] = NoEntry
         /\ \A v \in Writers : pending'[v] \in {NoEntry, pending[v]}
BY EmptySeq DEF LedgerTypeOK, Closed

\* A lost line leaves the others, in order.
LEMMA LoseLineFacts ==
  ASSUME LedgerTypeOK, NEW i \in DOMAIN file, LoseLine(i)
  PROVE  /\ file' \in Seq(Lines) /\ Len(file') = Len(file) - 1
         /\ \A k \in 1 .. Len(file) - 1 : file'[k] = file[IF k < i THEN k ELSE k + 1]
         /\ (unended' => file' # <<>>)
<1>1. file \in Seq(Lines) /\ Len(file) \in Nat /\ DOMAIN file = 1 .. Len(file)
  BY LenProperties DEF LedgerTypeOK
<1> DEFINE n == Len(file) - 1
           g(k) == file[IF k < i THEN k ELSE k + 1]
<1>2. n \in Nat /\ \A k \in 1 .. n : g(k) \in Lines
  BY <1>1, ElementOfSeq
<1>3. file' = [k \in 1 .. n |-> g(k)]
  BY DEF LoseLine
<1>4. file' \in Seq(Lines)
  BY <1>2, <1>3
<1>5. Len(file') = n /\ \A k \in 1 .. n : file'[k] = g(k)
  BY <1>2, <1>3, <1>4, LenProperties
<1>6. unended' => n # 0
  <2>1. unended' => i # Len(file)
    BY DEF LoseLine
  <2> QED BY <1>1, <2>1
<1> QED BY <1>4, <1>5, <1>6, EmptySeq

\* An altered line keeps its place, and what it claims was not recorded.
LEMMA AlterLineFacts ==
  ASSUME LedgerTypeOK, NEW i \in DOMAIN file, AlterLine(i)
  PROVE  /\ file' \in Seq(Lines) /\ Len(file') = Len(file)
         /\ \A k \in 1 .. Len(file) : k # i => file'[k] = file[k]
         /\ file'[i].claim = Forged
<1>1. file \in Seq(Lines) /\ DOMAIN file = 1 .. Len(file) /\ i \in 1 .. Len(file)
  BY LenProperties DEF LedgerTypeOK
<1> DEFINE e == [file[i] EXCEPT !.claim = Forged]
<1>2. file[i] \in Entry
  BY <1>1, ElementOfSeq DEF AlterLine, Lines
<1>3. e \in Entry /\ e.claim = Forged
  BY <1>2 DEF Entry, Claims
<1>4. file' = [file EXCEPT ![i] = e]
  BY DEF AlterLine
<1> HIDE DEF e
<1>5. e \in Lines
  BY <1>3 DEF Lines
<1> QED BY <1>1, <1>3, <1>4, <1>5, ExceptSeq

\* A chain computed again holds claims of the file.
LEMMA RechainFacts ==
  ASSUME LedgerTypeOK, NEW at \in Selections, Rechain(at)
  PROVE  /\ file' \in Seq(Lines) /\ DOMAIN file' = DOMAIN at
         /\ \A k \in DOMAIN at : /\ at[k] \in DOMAIN file
                                 /\ file'[k].claim = file[at[k]].claim
                                 /\ file'[k].commit = file[at[k]].commit
<1>1. file \in Seq(Lines) /\ Len(file) \in Nat /\ DOMAIN file = 1 .. Len(file)
  BY LenProperties DEF LedgerTypeOK
<1>2. PICK n \in 0 .. Len(file) : at \in [1 .. n -> DOMAIN file]
  BY DEF Selections
<1>3. /\ n \in Nat /\ DOMAIN at = 1 .. n
      /\ \A k \in 1 .. n : at[k] \in DOMAIN file /\ file[at[k]] # Corrupt
  BY <1>1, <1>2 DEF Selections
<1> DEFINE content(k) == [ContentOf(file[at[k]]) EXCEPT !.seq = k - 1]
           contents == [k \in DOMAIN at |-> content(k)]
<1>4. ASSUME NEW k \in 1 .. n
      PROVE  /\ content(k) \in Content
             /\ content(k).claim = file[at[k]].claim /\ content(k).claim \in Claims
             /\ content(k).commit = file[at[k]].commit
             /\ content(k).commit \in Commits \cup {NoGit}
  <2>1. file[at[k]] \in Entry
    <3>1. file[at[k]] \in Lines
      BY <1>1, <1>3, ElementOfSeq
    <3> QED BY <1>3, <3>1 DEF Lines
  <2>2. k - 1 \in Nat
    OBVIOUS
  <2> QED BY <2>1, <2>2 DEF Entry, Content, ContentOf
<1>5. contents = [k \in 1 .. n |-> content(k)]
  BY <1>3
<1>6. contents \in Seq(Content)
  <2> HIDE DEF content
  <2> QED BY <1>3, <1>4, <1>5
<1>7. \A k \in 1 .. n : contents[k] = content(k)
  BY <1>5
<1> DEFINE line(k) == Signed(k - 1, contents[k].claim, contents[k].commit, SubSeq(contents, 1, k - 1))
<1>8. file' = [k \in 1 .. n |-> line(k)]
  <2>1. file' = Rechained(at)
    BY DEF Rechain
  <2>2. Rechained(at) = [k \in DOMAIN at |-> line(k)]
    BY DEF Rechained
  <2> HIDE DEF line
  <2> QED BY <1>3, <2>1, <2>2
<1> HIDE DEF contents, content
<1>9. ASSUME NEW k \in 1 .. n
      PROVE  /\ line(k) \in Entry /\ line(k).claim = file[at[k]].claim
             /\ line(k).commit = file[at[k]].commit
  <2>1. k - 1 \in Nat /\ k - 1 <= n /\ Len(contents) = n
    BY <1>3, <1>5, <1>6, LenProperties
  <2>2. SubSeq(contents, 1, k - 1) \in Seq(Content)
    BY <1>6, <2>1, SubSeqProperties, ElementOfSeq
  <2>3. contents[k].claim \in Claims /\ contents[k].commit \in Commits \cup {NoGit}
    BY <1>4, <1>7
  <2> DEFINE q == k - 1
             m == contents[k].claim
             c == contents[k].commit
             h == SubSeq(contents, 1, k - 1)
  <2>4. /\ Signed(q, m, c, h) \in Entry
        /\ Signed(q, m, c, h).claim = m /\ Signed(q, m, c, h).commit = c
    <3>1. q \in Nat /\ m \in Claims /\ c \in Commits \cup {NoGit} /\ h \in Seq(Content)
      BY <2>1, <2>2, <2>3
    <3> HIDE DEF q, m, c, h
    <3> QED BY <3>1, SignedFacts
  <2>5. line(k) = Signed(q, m, c, h)
    OBVIOUS
  <2> QED BY <1>4, <1>7, <2>4, <2>5
<1> HIDE DEF line
<1>10. file' \in Seq(Lines)
  <2>1. \A k \in 1 .. n : line(k) \in Lines
    BY <1>9 DEF Lines
  <2> QED BY <1>3, <1>8, <2>1
<1>11. DOMAIN file' = DOMAIN at /\ \A k \in DOMAIN at : file'[k] = line(k)
  BY <1>3, <1>8
<1> QED BY <1>3, <1>9, <1>10, <1>11

-------------------------------------------------------------------------------
LEMMA TypeInit == Init => LedgerTypeOK
<1> SUFFICES ASSUME Init PROVE LedgerTypeOK
  OBVIOUS
<1>1. /\ <<>> \in Seq(Lines) /\ <<>> \in Seq(Entry) /\ <<>> \in Seq(Seq(Lines))
      /\ <<>> \in Seq([seq : Nat, hash : Seq(Content)]) /\ Len(<<>>) = 0
  BY EmptySeq
<1>2. 0 <= MaxRecords /\ 0 \in 0 .. MaxAccidents
  BY LedgerAssumption
<1>3. mem \in [Writers -> Seq(Lines)] /\ pending \in [Writers -> Entry \cup {NoEntry}]
        /\ \A w \in Writers \ open : mem[w] = <<>> /\ pending[w] = NoEntry
  BY <1>1 DEF Init
<1> QED BY <1>1, <1>2, <1>3 DEF Init, LedgerTypeOK

LEMMA TypeStep ==
  ASSUME LedgerTypeOK, [Next]_vars
  PROVE  LedgerTypeOK'
<1>1. ASSUME NEW w \in Writers, Open(w)
      PROVE  LedgerTypeOK'
  BY <1>1 DEF LedgerTypeOK, Open
<1>2. ASSUME NEW w \in Writers, Close(w)
      PROVE  LedgerTypeOK'
  BY <1>2, ClosedTyped DEF LedgerTypeOK, Close
<1>3. ASSUME NEW w \in Writers, NEW c \in Commits \cup {NoGit}, Record(w, c)
      PROVE  LedgerTypeOK'
  <2> DEFINE e == NewEntry(mem[w], c)
  <2>1. /\ w \in open /\ Len(recorded) < MaxRecords
        /\ file' = WithLine(e) /\ unended' = FALSE
        /\ mem' = [mem EXCEPT ![w] = Append(@, e)]
        /\ pending' = [pending EXCEPT ![w] = e]
        /\ Recorded(w, e)
        /\ UNCHANGED <<open, anchors, accidents>>
    BY <1>3 DEF Record
  <2>2. e \in Entry
    BY <2>1, NewEntryFacts
  <2> HIDE DEF e
  <2>3. file' \in Seq(Lines)
    BY <2>1, <2>2, WithLineFacts DEF Lines
  <2>4. Append(mem[w], e) \in Seq(Lines)
    BY <2>2, AppendProperties DEF Lines, LedgerTypeOK
  <2>5. mem' \in [Writers -> Seq(Lines)] /\ pending' \in [Writers -> Entry \cup {NoEntry}]
    BY <2>1, <2>2, <2>4 DEF LedgerTypeOK
  <2>6. \A v \in Writers \ open' : mem'[v] = <<>> /\ pending'[v] = NoEntry
    BY <2>1 DEF LedgerTypeOK
  <2>7. /\ recorded' \in Seq(Entry) /\ Len(recorded') <= MaxRecords
        /\ basis' \in Seq(Seq(Lines)) /\ Len(basis') = Len(recorded')
        /\ undisturbed' \in BOOLEAN
    BY <2>1, <2>2, RecordedTyped
  <2> QED BY <2>1, <2>3, <2>5, <2>6, <2>7 DEF LedgerTypeOK
<1>4. ASSUME NEW w \in Writers, NEW c \in Commits \cup {NoGit}, NEW whole \in BOOLEAN,
             RecordCut(w, c, whole)
      PROVE  LedgerTypeOK'
  <2> DEFINE e == NewEntry(mem[w], c)
             line == IF whole THEN e ELSE Corrupt
  <2>1. /\ Len(recorded) < MaxRecords /\ accidents < MaxAccidents
        /\ file' = WithLine(line) /\ unended' = TRUE
        /\ IF whole THEN Recorded(w, e)
           ELSE undisturbed' = FALSE /\ UNCHANGED <<recorded, basis>>
        /\ accidents' = accidents + 1
        /\ Closed(w)
        /\ UNCHANGED anchors
    BY <1>4 DEF RecordCut
  <2>2. e \in Entry
    BY <2>1, NewEntryFacts
  <2> HIDE DEF e
  <2>3. line \in Lines
    BY <2>2 DEF Lines
  <2> HIDE DEF line
  <2>4. file' \in Seq(Lines) /\ file' # <<>>
    BY <2>1, <2>3, WithLineFacts
  <2>5. /\ recorded' \in Seq(Entry) /\ Len(recorded') <= MaxRecords
        /\ basis' \in Seq(Seq(Lines)) /\ Len(basis') = Len(recorded')
        /\ undisturbed' \in BOOLEAN
    BY <2>1, <2>2, RecordedTyped DEF LedgerTypeOK
  <2>6. accidents' \in 0 .. MaxAccidents
    BY <2>1, LedgerAssumption DEF LedgerTypeOK
  <2> QED BY <2>1, <2>4, <2>5, <2>6, ClosedTyped DEF LedgerTypeOK
<1>5. ASSUME NEW w \in Writers, NEW ok \in BOOLEAN, Anchor(w, ok)
      PROVE  LedgerTypeOK'
  <2> DEFINE a == [seq |-> pending[w].seq, hash |-> pending[w].hash]
  <2>1. pending[w] \in Entry
    BY <1>5 DEF Anchor, LedgerTypeOK
  <2>2. a \in [seq : Nat, hash : Seq(Content)]
    BY <2>1 DEF Entry
  <2>3. anchors' = Append(anchors, a) \/ anchors' = anchors
    BY <1>5 DEF Anchor
  <2> HIDE DEF a
  <2>4. anchors' \in Seq([seq : Nat, hash : Seq(Content)])
    <3>1. anchors \in Seq([seq : Nat, hash : Seq(Content)])
      BY DEF LedgerTypeOK
    <3>2. Append(anchors, a) \in Seq([seq : Nat, hash : Seq(Content)])
      BY <2>2, <3>1, AppendProperties
    <3> QED BY <2>3, <3>1, <3>2
  <2> QED BY <1>5, <2>4 DEF Anchor, LedgerTypeOK
<1>6. ASSUME NEW i \in DOMAIN file, LoseLine(i)
      PROVE  LedgerTypeOK'
  <2>1. accidents' \in 0 .. MaxAccidents /\ unended' \in BOOLEAN
    BY <1>6, LedgerAssumption DEF LoseLine, LedgerTypeOK
  <2> QED BY <1>6, <2>1, LoseLineFacts DEF LoseLine, LedgerTypeOK
<1>7. ASSUME NEW i \in DOMAIN file, AlterLine(i)
      PROVE  LedgerTypeOK'
  <2>1. accidents' \in 0 .. MaxAccidents
    BY <1>7, LedgerAssumption DEF AlterLine, LedgerTypeOK
  <2>2. file' \in Seq(Lines) /\ Len(file') = Len(file)
    BY <1>7, AlterLineFacts
  <2>3. unended' => file' # <<>>
    BY <1>7, <2>2, EmptySeq, LenProperties DEF AlterLine, LedgerTypeOK
  <2> QED BY <1>7, <2>1, <2>2, <2>3 DEF AlterLine, LedgerTypeOK
<1>8. ASSUME NEW at \in Selections, Rechain(at)
      PROVE  LedgerTypeOK'
  <2>1. accidents' \in 0 .. MaxAccidents
    BY <1>8, LedgerAssumption DEF Rechain, LedgerTypeOK
  <2>2. file' \in Seq(Lines)
    BY <1>8, RechainFacts
  <2> QED BY <1>8, <2>1, <2>2 DEF Rechain, LedgerTypeOK
<1>9. CASE UNCHANGED vars
  BY <1>9 DEF LedgerTypeOK, vars
<1> QED BY <1>1, <1>2, <1>3, <1>4, <1>5, <1>6, <1>7, <1>8, <1>9 DEF Next

-------------------------------------------------------------------------------
\* A line is appended, whole or not: the claims that were there stay, and a new one is
\* greater than all of them.
LEMMA WrittenStep ==
  ASSUME LedgerTypeOK, FileIsClaimed, NEW w \in Writers, NEW e \in Entry,
         e.claim = Len(recorded) + 1, Len(recorded) < MaxRecords,
         \/ file' = WithLine(e) /\ Recorded(w, e)
         \/ file' = WithLine(Corrupt) /\ recorded' = recorded
  PROVE  FileIsClaimed'
<1>0. /\ file \in Seq(Lines) /\ Len(file) \in Nat /\ DOMAIN file = 1 .. Len(file)
      /\ Len(recorded) \in Nat
  BY LenProperties DEF LedgerTypeOK
<1>1. PICK line \in Lines : file' = WithLine(line) /\ (line = Corrupt \/ (line = e /\ Recorded(w, e)))
  BY DEF Lines
<1>2. /\ Len(recorded') \in Nat /\ Len(recorded) <= Len(recorded')
      /\ \A n \in 1 .. Len(recorded) : recorded'[n] = recorded[n]
      /\ line # Corrupt => Len(recorded') = Len(recorded) + 1 /\ recorded'[e.claim] = e
  BY <1>0, <1>1, RecordedTyped
<1>3. ASSUME NEW k \in DOMAIN file', file'[k].claim # Forged
      PROVE  \/ k \in DOMAIN file /\ file'[k] = file[k]
             \/ k = Len(file) + 1 /\ file'[k] = e /\ line # Corrupt
  <2>1. file'[k] # Corrupt
    BY <1>3 DEF Corrupt
  <2>2. \/ k \in DOMAIN file /\ file'[k] = file[k]
        \/ k = Len(file) + 1 /\ file'[k] = line
    BY <1>1, <2>1, WithLineKeeps
  <2> QED BY <1>1, <2>1, <2>2
<1> SUFFICES ASSUME NEW k \in DOMAIN file', file'[k].claim # Forged
             PROVE  /\ file'[k].claim \in 1 .. Len(recorded')
                    /\ file'[k].commit = recorded'[file'[k].claim].commit
  BY DEF FileIsClaimed
<1>4. CASE k \in DOMAIN file /\ file'[k] = file[k]
  BY <1>0, <1>2, <1>4 DEF FileIsClaimed
<1>5. CASE k = Len(file) + 1 /\ file'[k] = e /\ line # Corrupt
  BY <1>0, <1>2, <1>5
<1> QED BY <1>3, <1>4, <1>5

LEMMA ClaimedStep ==
  ASSUME LedgerTypeOK, FileIsClaimed, [Next]_vars
  PROVE  FileIsClaimed'
<1>0. /\ file \in Seq(Lines) /\ Len(file) \in Nat /\ DOMAIN file = 1 .. Len(file)
  BY LenProperties DEF LedgerTypeOK
<1>1. file' = file /\ recorded' = recorded => FileIsClaimed'
  BY DEF FileIsClaimed
<1>2. ASSUME NEW w \in Writers,
             Open(w) \/ Close(w) \/ \E ok \in BOOLEAN : Anchor(w, ok)
      PROVE  FileIsClaimed'
  BY <1>1, <1>2 DEF Open, Close, Anchor
<1>3. ASSUME NEW w \in Writers, NEW c \in Commits \cup {NoGit},
             Record(w, c) \/ \E whole \in BOOLEAN : RecordCut(w, c, whole)
      PROVE  FileIsClaimed'
  <2> DEFINE e == NewEntry(mem[w], c)
  <2>1. /\ Len(recorded) < MaxRecords
        /\ \/ file' = WithLine(e) /\ Recorded(w, e)
           \/ file' = WithLine(Corrupt) /\ recorded' = recorded
    BY <1>3 DEF Record, RecordCut
  <2>2. e \in Entry /\ e.claim = Len(recorded) + 1
    BY <2>1, NewEntryFacts
  <2> HIDE DEF e
  <2> QED BY <2>1, <2>2, WrittenStep
<1>4. ASSUME NEW from, recorded' = recorded,
             \A k \in DOMAIN file' : /\ from[k] \in DOMAIN file
                                     /\ file'[k].claim = file[from[k]].claim
                                     /\ file'[k].commit = file[from[k]].commit
      PROVE  FileIsClaimed'
  BY <1>4 DEF FileIsClaimed
<1>5. ASSUME NEW i \in DOMAIN file, LoseLine(i)
      PROVE  FileIsClaimed'
  <2> DEFINE from == [k \in DOMAIN file' |-> IF k < i THEN k ELSE k + 1]
  <2>1. /\ DOMAIN file' = 1 .. Len(file) - 1 /\ recorded' = recorded
        /\ \A k \in 1 .. Len(file) - 1 : file'[k] = file[IF k < i THEN k ELSE k + 1]
    BY <1>5, LoseLineFacts, LenProperties DEF LoseLine
  <2>2. \A k \in DOMAIN file' : from[k] \in DOMAIN file /\ file'[k] = file[from[k]]
    BY <1>0, <2>1
  <2> HIDE DEF from
  <2> QED BY <1>4, <2>1, <2>2
<1>6. ASSUME NEW i \in DOMAIN file, AlterLine(i)
      PROVE  FileIsClaimed'
  <2>1. /\ DOMAIN file' = DOMAIN file /\ recorded' = recorded
        /\ \A k \in DOMAIN file : file'[k].claim # Forged => file'[k] = file[k]
    BY <1>0, <1>6, AlterLineFacts, LenProperties DEF AlterLine
  <2> QED BY <2>1 DEF FileIsClaimed
<1>7. ASSUME NEW at \in Selections, Rechain(at)
      PROVE  FileIsClaimed'
  <2>1. recorded' = recorded
    BY <1>7 DEF Rechain
  <2> QED BY <1>4, <1>7, <2>1, RechainFacts
<1>8. CASE UNCHANGED vars
  BY <1>1, <1>8 DEF vars
<1> QED BY <1>2, <1>3, <1>5, <1>6, <1>7, <1>8 DEF Next

-------------------------------------------------------------------------------
\* A step records an entry of some writer, made of what it had loaded, or none.
RecordedBy(w, c) ==
  /\ Len(recorded) < MaxRecords
  /\ file' = WithLine(NewEntry(mem[w], c)) /\ Recorded(w, NewEntry(mem[w], c))
  /\ anchors' = anchors
  /\ \A v \in Writers : pending'[v] \in {NoEntry, pending[v], NewEntry(mem[w], c)}

LEMMA RecordedOrNot ==
  ASSUME LedgerTypeOK, [Next]_vars
  PROVE  \/ \E w \in Writers, c \in Commits \cup {NoGit} : RecordedBy(w, c)
         \/ /\ UNCHANGED <<recorded, basis>>
            /\ undisturbed' => file' = file /\ undisturbed
<1>1. CASE UNCHANGED vars
  BY <1>1 DEF vars
<1>2. ASSUME NEW w \in Writers, Open(w) \/ Close(w) \/ \E ok \in BOOLEAN : Anchor(w, ok)
      PROVE  UNCHANGED <<file, recorded, basis, undisturbed>>
  BY <1>2 DEF Open, Close, Anchor
<1>3. ASSUME NEW w \in Writers, NEW c \in Commits \cup {NoGit}, Record(w, c)
      PROVE  RecordedBy(w, c)
  BY <1>3 DEF Record, RecordedBy, LedgerTypeOK
<1>4. ASSUME NEW w \in Writers, NEW c \in Commits \cup {NoGit}, RecordCut(w, c, TRUE)
      PROVE  RecordedBy(w, c)
  BY <1>4, ClosedTyped DEF RecordCut, RecordedBy
<1>5. ASSUME NEW w \in Writers, NEW c \in Commits \cup {NoGit}, RecordCut(w, c, FALSE)
      PROVE  UNCHANGED <<recorded, basis>> /\ ~undisturbed'
  BY <1>5 DEF RecordCut
<1>6. ASSUME NEW i \in DOMAIN file, LoseLine(i) \/ AlterLine(i)
      PROVE  UNCHANGED <<recorded, basis>> /\ ~undisturbed'
  BY <1>6 DEF LoseLine, AlterLine
<1>7. ASSUME NEW at \in Selections, Rechain(at)
      PROVE  UNCHANGED <<recorded, basis>> /\ ~undisturbed'
  BY <1>7 DEF Rechain
<1> QED BY <1>1, <1>2, <1>3, <1>4, <1>5, <1>6, <1>7 DEF Next

\* What has been recorded stays; what is new stands.
LEMMA HistoryGrows ==
  ASSUME LedgerTypeOK, NEW w \in Writers, NEW c \in Commits \cup {NoGit}, RecordedBy(w, c)
  PROVE  /\ Len(recorded) \in Nat /\ Len(recorded') = Len(recorded) + 1
         /\ recorded'[Len(recorded) + 1] = NewEntry(mem[w], c)
         /\ basis'[Len(recorded) + 1] = mem[w]
         /\ \A n \in 1 .. Len(recorded) : recorded'[n] = recorded[n] /\ basis'[n] = basis[n]
<1>1. /\ basis \in Seq(Seq(Lines)) /\ Len(basis) = Len(recorded) /\ Len(recorded) \in Nat
      /\ mem[w] \in Seq(Lines)
  BY LenProperties DEF LedgerTypeOK
<1>2. NewEntry(mem[w], c) \in Entry
  BY NewEntryFacts DEF RecordedBy
<1>3. /\ Len(recorded') = Len(recorded) + 1
      /\ recorded'[Len(recorded) + 1] = NewEntry(mem[w], c)
      /\ \A n \in 1 .. Len(recorded) : recorded'[n] = recorded[n]
  BY <1>2, RecordedTyped DEF RecordedBy
<1>4. /\ basis'[Len(recorded) + 1] = mem[w]
      /\ \A n \in 1 .. Len(recorded) : basis'[n] = basis[n]
  <2>1. basis' = Append(basis, mem[w])
    BY DEF RecordedBy, Recorded
  <2> QED BY <1>1, <2>1, AppendProperties
<1> QED BY <1>1, <1>3, <1>4

LEMMA StandStep ==
  ASSUME LedgerTypeOK, RecordsStand, [Next]_vars
  PROVE  RecordsStand'
<1>1. CASE UNCHANGED <<recorded, basis>>
  BY <1>1 DEF RecordsStand
<1>2. ASSUME NEW w \in Writers, NEW c \in Commits \cup {NoGit}, RecordedBy(w, c)
      PROVE  RecordsStand'
  <2> DEFINE e == NewEntry(mem[w], c)
             m == Len(recorded)
  <2>1. /\ e.claim = m + 1 /\ e.hash = HashOf(e)
        /\ e.seq = Len(mem[w]) /\ e.prev = HeadHash(mem[w])
    BY <1>2, NewEntryFacts DEF RecordedBy
  <2>2. /\ m \in Nat /\ Len(recorded') = m + 1 /\ recorded'[m + 1] = e /\ basis'[m + 1] = mem[w]
        /\ \A n \in 1 .. m : recorded'[n] = recorded[n] /\ basis'[n] = basis[n]
    BY <1>2, HistoryGrows
  <2> HIDE DEF e, m
  <2>3. ASSUME NEW n \in 1 .. Len(recorded')
        PROVE  /\ recorded'[n].claim = n /\ recorded'[n].hash = HashOf(recorded'[n])
               /\ recorded'[n].seq = Len(basis'[n]) /\ recorded'[n].prev = HeadHash(basis'[n])
    <3>1. CASE n = m + 1
      BY <2>1, <2>2, <3>1
    <3>2. CASE n # m + 1
      <4>1. n \in 1 .. m
        BY <2>2, <3>2
      <4> QED BY <2>2, <4>1 DEF RecordsStand, m
    <3> QED BY <3>1, <3>2
  <2> QED BY <2>3 DEF RecordsStand, HashOf, ContentOf, HeadHash
<1> QED BY <1>1, <1>2, RecordedOrNot

LEMMA AnchorsStandStep ==
  ASSUME LedgerTypeOK, AnchorsStand, RecordsStand, [Next]_vars
  PROVE  AnchorsStand'
<1>1. /\ anchors \in Seq([seq : Nat, hash : Seq(Content)]) /\ Len(anchors) \in Nat
      /\ DOMAIN anchors = 1 .. Len(anchors)
  BY LenProperties DEF LedgerTypeOK
<1>2. ASSUME recorded' = recorded, NEW seq, NEW hash, IsRecorded(seq, hash)
      PROVE  IsRecorded(seq, hash)'
  BY <1>2 DEF IsRecorded
<1>3. ASSUME NEW w \in Writers, NEW c \in Commits \cup {NoGit}, RecordedBy(w, c)
      PROVE  AnchorsStand'
  <2>1. /\ Len(recorded) \in Nat /\ Len(recorded') = Len(recorded) + 1
        /\ recorded'[Len(recorded) + 1] = NewEntry(mem[w], c)
        /\ \A n \in 1 .. Len(recorded) : recorded'[n] = recorded[n]
    BY <1>3, HistoryGrows
  <2>2. ASSUME NEW seq, NEW hash, IsRecorded(seq, hash)
        PROVE  IsRecorded(seq, hash)'
    <3>1. PICK n \in 1 .. Len(recorded) : recorded[n].seq = seq /\ recorded[n].hash = hash
      BY <2>2 DEF IsRecorded
    <3>2. n \in 1 .. Len(recorded') /\ recorded'[n] = recorded[n]
      BY <2>1
    <3> QED BY <3>1, <3>2 DEF IsRecorded
  <2>3. ASSUME NEW v \in Writers, pending'[v] # NoEntry
        PROVE  IsRecorded(pending[v].seq, pending[v].hash)'
    <3>1. CASE pending'[v] = pending[v]
      <4>1. IsRecorded(pending[v].seq, pending[v].hash)
        BY <2>3, <3>1 DEF AnchorsStand
      <4>2. PICK n \in 1 .. Len(recorded) :
              recorded[n].seq = pending[v].seq /\ recorded[n].hash = pending[v].hash
        BY <4>1 DEF IsRecorded
      <4>3. n \in 1 .. Len(recorded') /\ recorded'[n] = recorded[n]
        BY <2>1
      <4> QED BY <3>1, <4>2, <4>3 DEF IsRecorded
    <3>2. CASE pending'[v] = NewEntry(mem[w], c)
      <4>1. Len(recorded) + 1 \in 1 .. Len(recorded')
        BY <2>1
      <4> QED BY <2>1, <3>2, <4>1 DEF IsRecorded
    <3> QED BY <1>3, <2>3, <3>1, <3>2 DEF RecordedBy
  <2>4. ASSUME NEW k \in DOMAIN anchors'
        PROVE  IsRecorded(anchors[k].seq, anchors[k].hash)'
    <3>1. anchors' = anchors /\ IsRecorded(anchors[k].seq, anchors[k].hash)
      BY <1>3, <2>4 DEF RecordedBy, AnchorsStand
    <3>2. PICK n \in 1 .. Len(recorded) :
            recorded[n].seq = anchors[k].seq /\ recorded[n].hash = anchors[k].hash
      BY <3>1 DEF IsRecorded
    <3>3. n \in 1 .. Len(recorded') /\ recorded'[n] = recorded[n]
      BY <2>1
    <3> QED BY <3>1, <3>2, <3>3 DEF IsRecorded
  <2> QED BY <2>3, <2>4 DEF AnchorsStand
<1>4. ASSUME recorded' = recorded, anchors' = anchors,
             \A v \in Writers : pending'[v] \in {NoEntry, pending[v]}
      PROVE  AnchorsStand'
  <2>1. \A v \in Writers : pending'[v] # NoEntry => pending'[v] = pending[v]
    BY <1>4
  <2> QED BY <1>4, <2>1 DEF AnchorsStand, IsRecorded
<1>5. ASSUME NEW w \in Writers, NEW ok \in BOOLEAN, Anchor(w, ok)
      PROVE  AnchorsStand'
  <2> DEFINE a == [seq |-> pending[w].seq, hash |-> pending[w].hash]
  <2>1. /\ pending[w] # NoEntry /\ recorded' = recorded
        /\ anchors' = anchors \/ anchors' = Append(anchors, a)
        /\ \A v \in Writers : pending'[v] \in {NoEntry, pending[v]}
    BY <1>5 DEF Anchor, LedgerTypeOK
  <2>2. a \in [seq : Nat, hash : Seq(Content)] /\ IsRecorded(a.seq, a.hash)
    BY <2>1 DEF AnchorsStand, LedgerTypeOK, Entry
  <2> HIDE DEF a
  <2>3. CASE anchors' = anchors
    BY <1>4, <2>1, <2>3
  <2>4. CASE anchors' = Append(anchors, a)
    <3>1. /\ DOMAIN anchors' = 1 .. Len(anchors) + 1 /\ anchors'[Len(anchors) + 1] = a
          /\ \A k \in 1 .. Len(anchors) : anchors'[k] = anchors[k]
      BY <1>1, <2>2, <2>4, AppendProperties, LenProperties
    <3>2. ASSUME NEW k \in DOMAIN anchors'
          PROVE  IsRecorded(anchors'[k].seq, anchors'[k].hash)
      <4>1. k \in 1 .. Len(anchors) \/ k = Len(anchors) + 1
        BY <1>1, <3>1
      <4> QED BY <1>1, <2>2, <3>1, <4>1 DEF AnchorsStand
    <3>3. \A v \in Writers : pending'[v] # NoEntry => pending'[v] = pending[v]
      BY <2>1
    <3> QED BY <2>1, <3>2, <3>3 DEF AnchorsStand, IsRecorded
  <2> QED BY <2>1, <2>3, <2>4
<1>6. ASSUME NEW w \in Writers, Open(w) \/ Close(w)
      PROVE  AnchorsStand'
  BY <1>4, <1>6, ClosedTyped DEF Open, Close
<1>7. ASSUME NEW w \in Writers, NEW c \in Commits \cup {NoGit},
             Record(w, c) \/ \E whole \in BOOLEAN : RecordCut(w, c, whole)
      PROVE  AnchorsStand'
  <2>1. CASE RecordCut(w, c, FALSE)
    BY <1>4, <2>1, ClosedTyped DEF RecordCut
  <2>2. CASE RecordCut(w, c, TRUE)
    <3>1. RecordedBy(w, c)
      BY <2>2, ClosedTyped DEF RecordCut, RecordedBy
    <3> QED BY <1>3, <3>1
  <2>3. CASE Record(w, c)
    <3>1. RecordedBy(w, c)
      BY <2>3 DEF Record, RecordedBy, LedgerTypeOK
    <3> QED BY <1>3, <3>1
  <2> QED BY <1>7, <2>1, <2>2, <2>3
<1>8. ASSUME \/ \E i \in DOMAIN file : LoseLine(i) \/ AlterLine(i)
             \/ \E at \in Selections : Rechain(at)
             \/ UNCHANGED vars
      PROVE  AnchorsStand'
  BY <1>4, <1>8 DEF LoseLine, AlterLine, Rechain, vars
<1> QED BY <1>5, <1>6, <1>7, <1>8 DEF Next

-------------------------------------------------------------------------------
\* An entry is recorded without disturbing the file.
LEMMA RecordStep ==
  ASSUME LedgerTypeOK, RecordsStand, FileIsTheRecord, [Next]_vars
  PROVE  FileIsTheRecord'
<1> SUFFICES ASSUME undisturbed' PROVE FileIsTheRecord'
  BY DEF FileIsTheRecord
<1>1. CASE UNCHANGED <<recorded, basis>> /\ file' = file /\ undisturbed
  BY <1>1 DEF FileIsTheRecord
<1>2. ASSUME NEW w \in Writers, NEW c \in Commits \cup {NoGit}, RecordedBy(w, c)
      PROVE  FileIsTheRecord'
  <2> DEFINE e == NewEntry(mem[w], c)
             m == Len(file)
  <2>1. /\ undisturbed /\ ~unended /\ mem[w] = file
        /\ file' = Append(file, e) /\ recorded' = Append(recorded, e)
    BY <1>2 DEF RecordedBy, Recorded, WithLine
  <2>2. /\ file \in Seq(Lines) /\ recorded \in Seq(Entry) /\ m \in Nat /\ DOMAIN file = 1 .. m
        /\ Len(recorded) = m /\ file = recorded
        /\ \A i \in DOMAIN file : /\ file[i].seq = i - 1
                                 /\ file[i].prev = IF i = 1 THEN GENESIS ELSE file[i - 1].hash
    BY <2>1, LenProperties DEF LedgerTypeOK, FileIsTheRecord
  <2>3. e \in Entry /\ e \in Lines /\ e.seq = m /\ e.prev = HeadHash(file)
    BY <1>2, <2>1, NewEntryFacts DEF RecordedBy, Lines
  <2>4. HeadHash(file) = IF m = 0 THEN GENESIS ELSE file[m].hash
    <3>1. \A i \in DOMAIN file : file[i].hash # <<>>
      <4>1. \A i \in DOMAIN file : file[i] \in Entry /\ file[i].hash = HashOf(file[i])
        BY <2>2, ElementOfSeq DEF RecordsStand
      <4> QED BY <4>1, HashNotEmpty
    <3>2. file = <<>> <=> m = 0
      BY <2>2, EmptySeq
    <3> QED BY <2>2, <3>1, <3>2, HeadHashOfChain
  <2> HIDE DEF e
  <2>5. /\ DOMAIN file' = 1 .. m + 1 /\ file'[m + 1] = e
        /\ \A i \in 1 .. m : file'[i] = file[i]
    BY <2>1, <2>2, <2>3, AppendProperties, LenProperties
  <2> HIDE DEF m
  <2>6. ASSUME NEW i \in DOMAIN file'
        PROVE  /\ file'[i].seq = i - 1
               /\ file'[i].prev = IF i = 1 THEN GENESIS ELSE file'[i - 1].hash
    <3>1. CASE i = m + 1
      <4>1. i - 1 = m /\ (i = 1 <=> m = 0) /\ (m # 0 => m \in 1 .. m)
        BY <2>2, <3>1
      <4>2. file'[i] = e
        BY <2>5, <3>1
      <4>3. m # 0 => file'[i - 1] = file[m]
        BY <2>5, <4>1
      <4> QED BY <2>3, <2>4, <4>1, <4>2, <4>3
    <3>2. CASE i # m + 1
      <4>1. i \in 1 .. m /\ (i # 1 => i - 1 \in 1 .. m)
        BY <2>2, <2>5, <3>2
      <4> QED BY <2>2, <2>5, <4>1
    <3> QED BY <3>1, <3>2
  <2> QED BY <2>1, <2>2, <2>6 DEF FileIsTheRecord
<1> QED BY <1>1, <1>2, RecordedOrNot

LEMMA IInvAlways == Spec => []IInv
<1>1. Init => IInv
  <2> SUFFICES ASSUME Init PROVE IInv
    OBVIOUS
  <2>1. /\ DOMAIN file = {} /\ DOMAIN anchors = {} /\ Len(recorded) = 0 /\ file = recorded
        /\ \A w \in Writers : pending[w] = NoEntry
    BY EmptySeq DEF Init
  <2>2. FileIsClaimed /\ RecordsStand /\ AnchorsStand /\ FileIsTheRecord
    BY <2>1 DEF FileIsClaimed, RecordsStand, AnchorsStand, FileIsTheRecord
  <2> QED BY <2>2, TypeInit DEF IInv
<1>2. IInv /\ [Next]_vars => IInv'
  BY TypeStep, ClaimedStep, StandStep, AnchorsStandStep, RecordStep DEF IInv
<1> QED BY <1>1, <1>2, PTL DEF Spec

-------------------------------------------------------------------------------
\* Lines, copies, anchors and histories stay well formed, and a process that is gone
\* has no copy and nothing to anchor.
THEOREM LedgerTypeCorrect == Spec => []LedgerTypeOK
BY IInvAlways, PTL DEF IInv

\* With the number of entries recorded, verify passes without one of them only over a line
\* that claims what nobody recorded, or what another line claims, though the chain was
\* computed again: as many different recorded claims as there are records are all of them.
THEOREM CountIsEnough == Spec => []CountClosesTheHole
<1>1. IInv => CountClosesTheHole
  <2> SUFFICES ASSUME IInv, NEW git \in BOOLEAN, Verify(Len(recorded), git),
                      \A i \in DOMAIN file : file[i].claim # Forged,
                      \A i, j \in DOMAIN file : file[i].claim = file[j].claim => i = j,
                      NEW m \in DOMAIN recorded
               PROVE  \E i \in DOMAIN file : /\ file[i].claim = recorded[m].claim
                                             /\ file[i].commit = recorded[m].commit
    BY DEF CountClosesTheHole
  <2> DEFINE n == Len(recorded)
  <2>1. /\ Len(file) \in Nat /\ DOMAIN file = 1 .. Len(file)
        /\ n \in Nat /\ DOMAIN recorded = 1 .. n
    BY LenProperties DEF IInv, LedgerTypeOK
  <2>2. Len(file) = n
    BY <2>1 DEF Verify
  <2>3. \A i \in 1 .. n : /\ file[i].claim \in 1 .. n
                          /\ file[i].commit = recorded[file[i].claim].commit
    BY <2>1, <2>2 DEF IInv, FileIsClaimed
  <2> DEFINE f == [i \in 1 .. n |-> file[i].claim]
  <2>4. f \in Injection(1 .. n, 1 .. n)
    BY <2>1, <2>2, <2>3 DEF Injection, IsInjective
  <2>5. f \in Surjection(1 .. n, 1 .. n)
    <3> HIDE DEF f, n
    <3> QED BY <2>1, <2>4, FS_Interval, FS_Injection
  <2>6. PICK i \in 1 .. n : f[i] = m
    BY <2>1, <2>5 DEF Surjection
  <2>7. recorded[m].claim = m
    BY <2>1 DEF IInv, RecordsStand
  <2> QED BY <2>1, <2>2, <2>3, <2>6, <2>7
<1> QED BY <1>1, IInvAlways, PTL

\* A file that passes with a line more passes without it.
LEMMA PrefixIsIntact ==
  ASSUME LedgerTypeOK, NEW line \in Lines, file' = WithLine(line), NEW git \in BOOLEAN,
         ChainOK(file)', AnchorsOK(file', git)
  PROVE  ChainOK(file) /\ AnchorsOK(file, git)
<1>1. DOMAIN file = 1 .. Len(file) /\ Len(file) \in Nat
  BY LenProperties DEF LedgerTypeOK
<1>2. file' \in Seq(Lines) /\ DOMAIN file' = 1 .. Len(file') /\ Len(file') \in Nat
  BY WithLineFacts, LenProperties
<1>3. \A i \in DOMAIN file' : file'[i] # Corrupt
  BY DEF ChainOK
<1>4. ~unended
  <2> SUFFICES ASSUME unended PROVE FALSE
    OBVIOUS
  <2>1. Len(file') = Len(file) /\ Len(file) # 0 /\ file'[Len(file)] = Corrupt
    BY WithLineFacts
  <2>2. Len(file) \in DOMAIN file'
    BY <1>1, <1>2, <2>1
  <2> QED BY <1>3, <2>1, <2>2
<1>5. /\ Len(file') = Len(file) + 1
      /\ \A i \in 1 .. Len(file) : file'[i] = file[i]
  BY <1>4, WithLineFacts
<1>6. \A i \in DOMAIN file : i \in DOMAIN file' /\ file'[i] = file[i]
  BY <1>1, <1>2, <1>5
<1>7. ChainOK(file)
  <2> SUFFICES ASSUME NEW i \in DOMAIN file
               PROVE  /\ file[i] # Corrupt /\ file[i].hash = HashOf(file[i])
                      /\ file[i].prev = IF i = 1 THEN GENESIS ELSE file[i - 1].hash
    BY DEF ChainOK
  <2>1. /\ file'[i] # Corrupt /\ file'[i].hash = HashOf(file'[i])
        /\ file'[i].prev = IF i = 1 THEN GENESIS ELSE file'[i - 1].hash
    BY <1>6 DEF ChainOK, HashOf, ContentOf
  <2>2. i # 1 => i - 1 \in DOMAIN file
    BY <1>1
  <2> QED BY <1>6, <2>1, <2>2
<1>8. ASSUME git PROVE InOrder(file)
  <2>1. InOrder(file')
    BY <1>8 DEF AnchorsOK
  <2>2. \A i, j \in DOMAIN file : \A k \in DOMAIN file' : k < j => k \in DOMAIN file
    BY <1>1, <1>2
  <2> SUFFICES ASSUME NEW i \in DOMAIN file, NEW j \in DOMAIN file,
                      i < j, file[i].commit # NoGit, file[j].commit # NoGit,
                      \A k \in DOMAIN file : i < k /\ k < j => file[k].commit = NoGit
               PROVE  <<file[i].commit, file[j].commit>> \in Ancestors
    BY DEF InOrder
  <2>3. \A k \in DOMAIN file' : i < k /\ k < j => file'[k].commit = NoGit
    BY <1>6, <2>2
  <2> QED BY <1>6, <2>1, <2>3 DEF InOrder
<1> QED BY <1>6, <1>7, <1>8 DEF AnchorsOK

\* No record that comes later covers up a break.
THEOREM BreaksStayVisible == Spec => BreakIsNotCovered
<1> DEFINE Uncovered ==
      recorded' # recorded => \A git \in BOOLEAN :
        ChainOK(file)' /\ AnchorsOK(file', git) => ChainOK(file) /\ AnchorsOK(file, git)
<1>1. IInv /\ [Next]_vars => [Uncovered]_vars
  <2> SUFFICES ASSUME IInv, [Next]_vars, recorded' # recorded, NEW git \in BOOLEAN,
                      ChainOK(file)', AnchorsOK(file', git)
               PROVE  ChainOK(file) /\ AnchorsOK(file, git)
    OBVIOUS
  <2>1. LedgerTypeOK
    BY DEF IInv
  <2>2. PICK w \in Writers, c \in Commits \cup {NoGit} : RecordedBy(w, c)
    BY <2>1, RecordedOrNot
  <2>3. NewEntry(mem[w], c) \in Lines /\ file' = WithLine(NewEntry(mem[w], c))
    BY <2>1, <2>2, NewEntryFacts DEF RecordedBy, Lines
  <2> QED BY <2>1, <2>3, PrefixIsIntact
<1> QED BY <1>1, IInvAlways, PTL DEF Spec, BreakIsNotCovered

-------------------------------------------------------------------------------
\* Where the numbers are right, the line of a number is the next one.
LEMMA LineOfNumber ==
  ASSUME file \in Seq(Lines), \A i \in DOMAIN file : file[i].seq = i - 1, NEW q \in Seqs(file)
  PROVE  q + 1 \in DOMAIN file /\ q \in Nat /\ LastHash(file, q) = file[q + 1].hash
<1> DEFINE at == {i \in DOMAIN file : file[i].seq = q}
           last == CHOOSE i \in at : \A j \in at : j <= i
<1>1. DOMAIN file = 1 .. Len(file) /\ Len(file) \in Nat
  BY LenProperties
<1>2. PICK p \in DOMAIN file : file[p].seq = q
  BY DEF Seqs
<1>3. p = q + 1 /\ q \in Nat
  BY <1>1, <1>2
<1>4. at = {p}
  BY <1>1, <1>2
<1>5. last = p
  <2>1. p <= p
    BY <1>1
  <2> HIDE DEF at
  <2> QED BY <1>4, <2>1
<1> QED BY <1>2, <1>3, <1>5 DEF LastHash

\* The hash of the last event of a number was anchored under that number.
LEMMA LastEvent ==
  ASSUME LedgerTypeOK, NEW q \in Seqs(anchors)
  PROVE  \E k \in DOMAIN anchors : anchors[k].seq = q /\ LastHash(anchors, q) = anchors[k].hash
<1> DEFINE at == {i \in DOMAIN anchors : anchors[i].seq = q}
           last == CHOOSE i \in at : \A j \in at : j <= i
<1>1. Len(anchors) \in Nat /\ DOMAIN anchors = 1 .. Len(anchors)
  BY LenProperties DEF LedgerTypeOK
<1>2. at # {} /\ at \subseteq 1 .. Len(anchors)
  BY <1>1 DEF Seqs
<1>3. last \in at
  <2> HIDE DEF at
  <2>1. \E i \in at : \A j \in at : j <= i
    BY <1>1, <1>2, Greatest
  <2> QED BY <2>1
<1>4. LastHash(anchors, q) = anchors[last].hash
  BY DEF LastHash
<1> HIDE DEF last
<1> QED BY <1>3, <1>4

\* What verify vouches for with the anchor: whatever was lost, altered, re-chained or never
\* anchored besides, a file that passes holds every entry anchored last under its number, as
\* it was recorded, and below it exactly the intact entries its writer had loaded.
THEOREM AnchoredStands == Spec => []AnchorsPinHistory
<1>1. IInv => AnchorsPinHistory
  <2> SUFFICES ASSUME IInv, NEW git \in BOOLEAN, Verify(-1, git), NEW q \in Seqs(anchors)
               PROVE  \E n \in DOMAIN recorded :
                        /\ recorded[n].hash = LastHash(anchors, q)
                        /\ q + 1 \in DOMAIN file /\ file[q + 1] = recorded[n]
                        /\ ChainOK(basis[n]) => SubSeq(file, 1, q) = basis[n]
    BY DEF AnchorsPinHistory
  <2>1. /\ LedgerTypeOK /\ file \in Seq(Lines) /\ ChainOK(file)
        /\ \A i \in DOMAIN file : file[i].seq = i - 1
        /\ ExternalAnchor(file) # "mismatch"
        /\ DOMAIN recorded = 1 .. Len(recorded) /\ recorded \in Seq(Entry)
        /\ basis \in Seq(Seq(Lines)) /\ Len(basis) = Len(recorded)
        /\ Len(file) \in Nat /\ DOMAIN file = 1 .. Len(file)
    BY LenProperties DEF Verify, AnchorsOK, IInv, LedgerTypeOK
  <2>2. PICK k \in DOMAIN anchors : anchors[k].seq = q /\ LastHash(anchors, q) = anchors[k].hash
    BY <2>1, LastEvent
  <2>3. PICK n \in 1 .. Len(recorded) : recorded[n].seq = q /\ recorded[n].hash = LastHash(anchors, q)
    BY <2>2 DEF IInv, AnchorsStand, IsRecorded
  <2>4. q \in Seqs(file) /\ LastHash(file, q) = LastHash(anchors, q)
    BY <2>1 DEF ExternalAnchor
  <2>5. q + 1 \in DOMAIN file /\ q \in Nat /\ file[q + 1].hash = recorded[n].hash
    BY <2>1, <2>3, <2>4, LineOfNumber
  <2>6. file[q + 1] = recorded[n]
    <3>1. file[q + 1] \in Entry /\ file[q + 1].hash = HashOf(file[q + 1])
      BY <2>1, <2>5, ChainFacts
    <3>2. recorded[n] \in Entry /\ recorded[n].hash = HashOf(recorded[n])
      BY <2>1, ElementOfSeq DEF IInv, RecordsStand
    <3> QED BY <2>5, <3>1, <3>2, SameHash
  <2>7. ASSUME ChainOK(basis[n])
        PROVE  SubSeq(file, 1, q) = basis[n]
    <3> DEFINE loaded == basis[n]
    <3>1. /\ loaded \in Seq(Lines) /\ Len(loaded) = q /\ DOMAIN loaded = 1 .. q
          /\ HeadHash(loaded) = file[q + 1].prev
      <4>1. loaded \in Seq(Lines)
        BY <2>1, ElementOfSeq
      <4>2. Len(loaded) = q /\ HeadHash(loaded) = recorded[n].prev
        BY <2>3 DEF IInv, RecordsStand
      <4> QED BY <2>6, <4>1, <4>2, LenProperties
    <3>2. ChainOK(loaded)
      BY <2>7
    <3> HIDE DEF loaded
    <3>3. \A r \in 1 .. q : loaded[r] = file[r]
      <4>1. CASE q = 0
        BY <4>1
      <4>2. CASE q # 0
        <5>1. q \in DOMAIN loaded /\ q \in DOMAIN file /\ (q + 1) - 1 = q /\ q + 1 # 1
          BY <2>1, <2>5, <3>1, <4>2
        <5>2. HeadHash(loaded) = loaded[q].hash
          <6>1. \A r \in DOMAIN loaded : loaded[r].hash # <<>>
            BY <3>1, <3>2, ChainFacts
          <6>2. loaded # <<>>
            BY <3>1, <4>2, EmptySeq
          <6> QED BY <3>1, <6>1, <6>2, HeadHashOfChain
        <5>3. file[q + 1].prev = file[q].hash
          <6>1. file[q + 1].prev = IF q + 1 = 1 THEN GENESIS ELSE file[(q + 1) - 1].hash
            BY <2>1, <2>5, ChainFacts
          <6> QED BY <5>1, <6>1
        <5>4. loaded[q].hash = file[q].hash
          BY <3>1, <5>2, <5>3
        <5> QED BY <2>1, <3>1, <3>2, <5>1, <5>4, Pinned
      <4> QED BY <4>1, <4>2
    <3>4. /\ SubSeq(file, 1, q) \in Seq(Lines) /\ Len(SubSeq(file, 1, q)) = q
          /\ \A r \in 1 .. q : SubSeq(file, 1, q)[r] = file[r]
      BY <2>1, <2>5, SubSeqProperties, ElementOfSeq
    <3>5. SubSeq(file, 1, q) = loaded
      BY <3>1, <3>3, <3>4, SeqEqual
    <3> QED BY <3>5 DEF loaded
  <2> QED BY <2>1, <2>3, <2>5, <2>6, <2>7
<1> QED BY <1>1, IInvAlways, PTL

\* A file that passes without git.
Intact(lines) == ChainOK(lines) /\ AnchorsOK(lines, FALSE)

\* A hash in both stands at the same place in both, on the same lines.
Agree(one, other) ==
  \A i \in DOMAIN one, j \in DOMAIN other : one[i].hash = other[j].hash =>
    i = j /\ \A k \in 1 .. i : one[k] = other[k]

\* Whoever verifies the file now and whoever verified it before agree: a hash that both
\* files hold stands on the same lines in both, whatever was lost, altered, re-chained and
\* recorded in between.  To note the last hash is to pin the whole file.
THEOREM VerifiersAgree ==
  ASSUME NEW CONSTANT before
  PROVE  Spec => [](file = before /\ Intact(before) => [](Intact(file) => Agree(before, file)))
<1> DEFINE Passed == before \in Seq(Lines) /\ Intact(before)
<1>1. IInv /\ file = before /\ Intact(before) => Passed
  BY DEF IInv, LedgerTypeOK
<1>2. Passed => Passed'
  OBVIOUS
<1>3. IInv /\ Passed => (Intact(file) => Agree(before, file))
  <2> SUFFICES ASSUME IInv, Passed, Intact(file), NEW i \in DOMAIN before, NEW j \in DOMAIN file,
                      before[i].hash = file[j].hash
               PROVE  i = j /\ \A k \in 1 .. i : before[k] = file[k]
    BY DEF Agree
  <2>1. /\ file \in Seq(Lines) /\ ChainOK(file) /\ ChainOK(before)
        /\ DOMAIN file = 1 .. Len(file) /\ DOMAIN before = 1 .. Len(before)
        /\ Len(file) \in Nat /\ Len(before) \in Nat
        /\ before[i].seq = i - 1 /\ file[j].seq = j - 1
    BY LenProperties DEF IInv, LedgerTypeOK, Intact, AnchorsOK
  <2>2. before[i] = file[j]
    BY <2>1, ChainFacts, SameHash
  <2>3. i = j
    BY <2>1, <2>2
  <2> QED BY <2>1, <2>3, Pinned
<1> QED BY <1>1, <1>2, <1>3, IInvAlways, PTL DEF Spec

\* A ledger whose records each continued the whole file fails verify exactly when its
\* commits are not in the order of history and git can say so, whatever was not anchored.
THEOREM HonestWorkIsIntact == Spec => []OnlyOrderIsBlamed
<1>1. IInv => OnlyOrderIsBlamed
  <2> SUFFICES ASSUME IInv, undisturbed, NEW git \in BOOLEAN
               PROVE  Verify(Len(recorded), git) <=> (git => InOrder(file))
    BY DEF OnlyOrderIsBlamed
  <2>1. /\ LedgerTypeOK /\ file \in Seq(Lines) /\ Len(file) \in Nat
        /\ DOMAIN file = 1 .. Len(file) /\ file = recorded
        /\ \A i \in DOMAIN file : /\ file[i].seq = i - 1
                                 /\ file[i].prev = IF i = 1 THEN GENESIS ELSE file[i - 1].hash
    BY LenProperties DEF IInv, LedgerTypeOK, FileIsTheRecord
  <2>2. ChainOK(file)
    <3> SUFFICES ASSUME NEW i \in DOMAIN file
                 PROVE  file[i] # Corrupt /\ file[i].hash = HashOf(file[i])
      BY <2>1 DEF ChainOK
    <3>1. file[i].hash = HashOf(file[i])
      BY <2>1 DEF IInv, RecordsStand
    <3>2. file[i].seq # -1
      BY <2>1
    <3> QED BY <3>1, <3>2 DEF Corrupt
  <2>3. ASSUME NEW q \in Seqs(anchors)
        PROVE  q \in Seqs(file) /\ LastHash(file, q) = LastHash(anchors, q)
    <3>1. PICK k \in DOMAIN anchors : anchors[k].seq = q /\ LastHash(anchors, q) = anchors[k].hash
      BY <2>1, LastEvent
    <3>2. PICK n \in 1 .. Len(recorded) :
            recorded[n].seq = q /\ recorded[n].hash = LastHash(anchors, q)
      BY <3>1 DEF IInv, AnchorsStand, IsRecorded
    <3>3. n \in DOMAIN file /\ n = q + 1 /\ file[n].seq = q
          /\ file[n].hash = LastHash(anchors, q)
      BY <2>1, <3>2
    <3>4. q \in Seqs(file)
      BY <3>3 DEF Seqs
    <3> QED BY <2>1, <3>3, <3>4, LineOfNumber
  <2>4. ExternalAnchor(file) # "mismatch"
    BY <2>3 DEF ExternalAnchor
  <2> QED BY <2>1, <2>2, <2>4 DEF Verify, AnchorsOK
<1> QED BY <1>1, IInvAlways, PTL
================================================================================
