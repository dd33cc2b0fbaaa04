----------------------------- MODULE AuditProofs ------------------------------
(***************************************************************************)
(* The safety of the audit log of a node (AuditChain), for every set of    *)
(* processes, every number of records and failures, every text and every   *)
(* loss in reading it back, and damage anywhere in the file; and of the    *)
(* exports of the logs of a cluster (AuditExport), for every number of     *)
(* nodes and exports and logs of every length.                             *)
(***************************************************************************)
EXTENDS AuditChain, AuditExport, FiniteSetTheorems, SequenceTheorems,
        WellFoundedInduction, TLAPS

(***************************************************************************)
(* The inductive invariant.  While nothing disturbs it, the file is a      *)
(* chain whose hashes all differ, although numbers are given twice after   *)
(* a failed append and a restart: for a record is hashed with its          *)
(* predecessor's hash.  The chain does not rest on what a record was       *)
(* hashed with being what the line holds: a record whose text reading does *)
(* not keep is a link like any other, and fails its own check.  A write    *)
(* cut short leaves a line without its end, and is paid for once the next  *)
(* record has joined it.                                                   *)
(***************************************************************************)
LinesOf(lines) == {lines[k] : k \in DOMAIN lines}

IsRecord(r) == r = [id |-> r.id, body |-> r.body, prev |-> r.prev, hash |-> r.hash]

RecordLine(r) == Line({r}, TRUE)

\* Every line is a record of the chain with its newline.
Whole(lines) ==
  \A k \in DOMAIN lines :
    LET r == RecordAt(lines, k)
    IN  lines[k] = Line({r}, TRUE) /\ IsRecord(r) /\ r.hash # NoHash

Ended(lines) == \A k \in DOMAIN lines : lines[k].ended

\* The hash up to line k of a file of whole lines.
HashTo(lines, k) == IF k = 0 THEN NoHash ELSE RecordAt(lines, k).hash

\* Every record was hashed with the hash before it, and no two hashes are the same.
Chain(lines) ==
  /\ \A k \in DOMAIN lines :
       LET r == RecordAt(lines, k)
       IN  r.prev = HashTo(lines, k - 1) /\ \E body : r.hash = HashOf(r.id, body, r.prev)
  /\ \A j, k \in 0 .. Len(lines) : j < k => HashTo(lines, j) # HashTo(lines, k)

\* Every record has the text it was hashed with.
Kept(lines) ==
  \A k \in DOMAIN lines :
    LET r == RecordAt(lines, k) IN r.hash = HashOf(r.id, r.body, r.prev)

TypeInv ==
  /\ file \in Seq(LinesOf(file))
  /\ running \subseteq Processes
  /\ lastHash = [p \in Processes |-> lastHash[p]]
  /\ shared \in BOOLEAN /\ mangled \in BOOLEAN /\ torn \in Nat
  /\ damage \in {"none", "tail", "inner", "unseen"}

ChainInv ==
  /\ torn = 0 => Ended(file)
  /\ ~shared => \A p, q \in running : p = q
  /\ Undisturbed /\ damage = "none" =>
       /\ Whole(file) /\ Chain(file)
       /\ Kept(file) <=> ~mangled
       /\ \A p \in running : lastHash[p] = HashTo(file, Len(file))
  /\ InnerDamageIsFound

\* Records in lines that nothing can join any more.
Settled(lines) == UNION {lines[k].record : k \in {i \in DOMAIN lines : lines[i].ended}}
Unended(lines) == lines # <<>> /\ ~lines[Len(lines)].ended

TornInv ==
  /\ IsFiniteSet(written)
  /\ damage = "none" =>
       /\ \A k \in DOMAIN file : k # Len(file) => file[k].ended
       /\ Cardinality(written \ Settled(file)) =< (IF Unended(file) THEN torn - 1 ELSE torn)

-----------------------------------------------------------------------------
(* Hashes of a file *)

LEMMA HashOfDiffers ==
  /\ \A id, body, prev : HashOf(id, body, prev) # NoHash
  /\ \A i, b, p, j, c, q :
       HashOf(i, b, p) = HashOf(j, c, q) <=> i = j /\ Text[b] = Text[c] /\ p = q
  BY DEF HashOf, NoHash

\* A sequence is one of its own elements.
LEMMA OwnElements ==
  ASSUME NEW S, NEW lines \in Seq(S)
  PROVE  lines \in Seq(LinesOf(lines))
  <1> DEFINE T == LinesOf(lines)
  <1>1. lines \in [1 .. Len(lines) -> S] /\ Len(lines) \in Nat /\ DOMAIN lines = 1 .. Len(lines)
    BY LenProperties
  <1>2. \A k \in 1 .. Len(lines) : lines[k] \in T
    BY <1>1 DEF LinesOf
  <1> HIDE DEF T
  <1>3. lines \in [1 .. Len(lines) -> T]
    BY <1>1, <1>2
  <1>4. lines \in UNION {[1 .. n -> T] : n \in Nat}
    BY <1>1, <1>3
  <1> QED
    BY <1>4, SeqDef DEF T

\* Some of the first numbers have a greatest one: by the least number principle,
\* which the library proves, for what they lack to n.
LEMMA GreatestNumber ==
  ASSUME NEW n \in Nat, NEW T, T \subseteq 1 .. n, T # {}
  PROVE  \E m \in T : \A k \in T : k =< m
  <1> DEFINE R == OpToRel(<, Nat)
             U == {n - k : k \in T}
  <1>1. IsWellFoundedOn(R, Nat)
    BY NatLessThanWellFounded
  <1>2. \A x, y \in Nat : x < y => <<x, y>> \in R
    BY DEF OpToRel
  <1>3. U \subseteq Nat /\ U # {}
    <2>1. \A k \in T : k \in 1 .. n
      OBVIOUS
    <2>2. \A k \in 1 .. n : n - k \in Nat
      OBVIOUS
    <2>3. PICK t \in T : TRUE
      OBVIOUS
    <2>4. n - t \in U
      OBVIOUS
    <2> QED
      BY <2>1, <2>2, <2>4
  <1> HIDE DEF R
  <1>4. PICK u \in U : \A v \in U : ~(<<v, u>> \in R)
    BY <1>1, <1>3, WFMin
  <1>5. PICK m \in T : u = n - m
    BY <1>4
  <1>6. ASSUME NEW k \in T
        PROVE  k =< m
    <2>1. n - k \in U /\ n - k \in Nat /\ u \in Nat
      BY <1>3, <1>4
    <2>2. ~(n - k < u)
      BY <1>2, <1>4, <2>1
    <2> QED
      BY <1>5, <2>2
  <1> QED
    BY <1>6

HashedBefore(lines, n) == {j \in Hashed(lines) : j < n}

LEMMA HashOfLast ==
  ASSUME NEW lines, lines \in Seq(LinesOf(lines)), NEW n,
         NEW k \in HashedBefore(lines, n), \A i \in HashedBefore(lines, n) : i =< k
  PROVE  HashBefore(lines, n) = RecordAt(lines, k).hash
  <1> DEFINE before == HashedBefore(lines, n)
             last == CHOOSE j \in before : \A i \in before : i =< j
  <1>1. before \subseteq 1 .. Len(lines) /\ Len(lines) \in Nat
    BY LenProperties DEF HashedBefore, Hashed, ReadAll
  <1>2. last \in before /\ \A i \in before : i =< last
    OBVIOUS
  <1>3. before # {}
    OBVIOUS
  <1>4. HashBefore(lines, n) = RecordAt(lines, last).hash
    BY <1>3 DEF HashBefore, HashedBefore
  <1> HIDE DEF last
  <1>5. k \in before /\ \A i \in before : i =< k
    OBVIOUS
  <1> HIDE DEF before
  <1>6. last = k
    BY <1>1, <1>2, <1>5
  <1> QED
    BY <1>4, <1>6

\* Files with the same lines before line n.
LEMMA HashBeforeSame ==
  ASSUME NEW f, f \in Seq(LinesOf(f)), NEW g, g \in Seq(LinesOf(g)), NEW n \in Nat,
         \A j \in DOMAIN f : j < n => j \in DOMAIN g /\ g[j] = f[j],
         \A j \in DOMAIN g : j < n => j \in DOMAIN f
  PROVE  HashBefore(g, n) = HashBefore(f, n)
  <1>1. \A j \in DOMAIN f : j < n => RecordAt(g, j) = RecordAt(f, j)
    BY DEF RecordAt
  <1>2. HashedBefore(g, n) = HashedBefore(f, n)
    BY <1>1 DEF HashedBefore, Hashed, ReadAll
  <1>3. CASE HashedBefore(f, n) = {}
    BY <1>2, <1>3 DEF HashBefore, HashedBefore
  <1>4. CASE HashedBefore(f, n) # {}
    <2>1. HashedBefore(f, n) \subseteq 1 .. Len(f) /\ Len(f) \in Nat
      BY LenProperties DEF HashedBefore, Hashed, ReadAll
    <2>2. PICK k \in HashedBefore(f, n) : \A i \in HashedBefore(f, n) : i =< k
      BY <1>4, <2>1, GreatestNumber
    <2>3. k \in DOMAIN f /\ k < n
      BY DEF HashedBefore, Hashed, ReadAll
    <2>4. HashBefore(f, n) = RecordAt(f, k).hash
      BY <2>2, HashOfLast
    <2>5. HashBefore(g, n) = RecordAt(g, k).hash
      BY <1>2, <2>2, HashOfLast
    <2> QED
      BY <1>1, <2>3, <2>4, <2>5
  <1> QED
    BY <1>3, <1>4

\* The hash after line k is that of line k, if it is one of the chain.
LEMMA HashAfter ==
  ASSUME NEW lines, lines \in Seq(LinesOf(lines)), NEW k \in DOMAIN lines
  PROVE  HashBefore(lines, k + 1) =
           IF k \in Hashed(lines) THEN RecordAt(lines, k).hash ELSE HashBefore(lines, k)
  <1>1. DOMAIN lines = 1 .. Len(lines) /\ Len(lines) \in Nat
    BY LenProperties
  <1>2. Hashed(lines) \subseteq DOMAIN lines
    BY DEF Hashed, ReadAll
  <1>3. CASE k \in Hashed(lines)
    <2>1. k \in HashedBefore(lines, k + 1) /\ \A i \in HashedBefore(lines, k + 1) : i =< k
      BY <1>1, <1>2, <1>3 DEF HashedBefore
    <2> QED
      BY <1>3, <2>1, HashOfLast
  <1>4. CASE k \notin Hashed(lines)
    <2> DEFINE HashIn(S) == IF S = {} THEN NoHash
                            ELSE RecordAt(lines, CHOOSE j \in S : \A i \in S : i =< j).hash
    <2>1. HashedBefore(lines, k + 1) = HashedBefore(lines, k)
      BY <1>1, <1>2, <1>4 DEF HashedBefore
    <2>2. \A m : HashBefore(lines, m) = HashIn(HashedBefore(lines, m))
      BY DEF HashBefore, HashedBefore
    <2> HIDE DEF HashIn
    <2> QED
      BY <1>4, <2>1, <2>2, Zenon
  <1> QED
    BY <1>3, <1>4

LEMMA HashBeforeWhole ==
  ASSUME NEW lines, lines \in Seq(LinesOf(lines)), Whole(lines)
  PROVE  /\ DOMAIN lines = 1 .. Len(lines) /\ Len(lines) \in Nat
         /\ Hashed(lines) = DOMAIN lines
         /\ \A k \in 1 .. Len(lines) + 1 : HashBefore(lines, k) = HashTo(lines, k - 1)
  <1>1. DOMAIN lines = 1 .. Len(lines) /\ Len(lines) \in Nat
    OBVIOUS
  <1>2. ASSUME NEW k \in DOMAIN lines
        PROVE  lines[k].record # {} /\ RecordAt(lines, k).hash # NoHash
    <2>1. lines[k] = Line({RecordAt(lines, k)}, TRUE) /\ RecordAt(lines, k).hash # NoHash
      BY DEF Whole
    <2> QED
      BY <2>1 DEF Line
  <1>3. Hashed(lines) = DOMAIN lines
    BY <1>2 DEF Hashed, ReadAll
  <1>4. ASSUME NEW k \in 1 .. Len(lines) + 1
        PROVE  HashBefore(lines, k) = HashTo(lines, k - 1)
    <2>1. CASE k = 1
      <3>1. {j \in Hashed(lines) : j < k} = {}
        BY <1>1, <1>3, <2>1
      <3> QED
        BY <2>1, <3>1 DEF HashBefore, HashTo
    <2>2. CASE k # 1
      <3>1. k - 1 \in DOMAIN lines /\ (k - 1) + 1 = k /\ k - 1 # 0
        BY <1>1, <2>2
      <3>2. HashBefore(lines, (k - 1) + 1) = RecordAt(lines, k - 1).hash
        BY <1>3, <3>1, HashAfter
      <3> QED
        BY <3>1, <3>2 DEF HashTo
    <2> QED
      BY <2>1, <2>2
  <1> QED
    BY <1>1, <1>3, <1>4

LEMMA VerifiesWhole ==
  ASSUME NEW lines, lines \in Seq(LinesOf(lines)), Whole(lines)
  PROVE  Verifies(lines) <=>
           \A k \in DOMAIN lines :
             LET r == RecordAt(lines, k)
             IN  r.prev = HashTo(lines, k - 1) /\ r.hash = HashOf(r.id, r.body, r.prev)
  BY HashBeforeWhole DEF Verifies, Links

-----------------------------------------------------------------------------
(* Files *)

\* A function of the first numbers is a sequence.
LEMMA IsFile ==
  ASSUME NEW n \in Nat, NEW f, f = [k \in 1 .. n |-> f[k]]
  PROVE  f \in Seq(LinesOf(f)) /\ Len(f) = n /\ DOMAIN f = 1 .. n
  <1> DEFINE T == LinesOf(f)
  <1>1. DOMAIN f = 1 .. n
    OBVIOUS
  <1>2. \A k \in 1 .. n : f[k] \in T
    BY <1>1 DEF LinesOf
  <1> HIDE DEF T
  <1>3. f \in [1 .. n -> T]
    BY <1>2
  <1>4. f \in Seq(T)
    BY <1>3, SeqDef
  <1>5. DOMAIN f = 1 .. Len(f) /\ Len(f) \in Nat
    BY <1>4, LenProperties
  <1>6. Len(f) = n
    BY <1>1, <1>5
  <1> QED
    BY <1>1, <1>4, <1>6 DEF T

LEMMA AppendsOne ==
  ASSUME NEW lines, lines \in Seq(LinesOf(lines)), NEW line
  PROVE  LET new == Append(lines, line)
         IN  /\ new \in Seq(LinesOf(new))
             /\ Len(new) = Len(lines) + 1 /\ DOMAIN new = 1 .. Len(lines) + 1
             /\ \A k \in 1 .. Len(lines) : new[k] = lines[k]
             /\ new[Len(lines) + 1] = line
  <1> DEFINE S == LinesOf(lines) \cup {line}
  <1>1. LinesOf(lines) \subseteq S /\ line \in S
    OBVIOUS
  <1> HIDE DEF S
  <1>2. lines \in Seq(S)
    BY <1>1, SeqMonotonic
  <1>3. Append(lines, line) \in Seq(S)
    BY <1>1, <1>2, AppendProperties
  <1>4. /\ Len(Append(lines, line)) = Len(lines) + 1
        /\ \A k \in 1 .. Len(lines) : Append(lines, line)[k] = lines[k]
        /\ Append(lines, line)[Len(lines) + 1] = line
    BY <1>1, <1>2, AppendProperties
  <1>5. DOMAIN Append(lines, line) = 1 .. Len(Append(lines, line))
    BY <1>3, LenProperties
  <1>6. Append(lines, line) \in Seq(LinesOf(Append(lines, line)))
    BY <1>3, OwnElements
  <1> QED
    BY <1>4, <1>5, <1>6, Zenon

\* A record written to a file of whole lines.
LEMMA WholeGrows ==
  ASSUME NEW lines, lines \in Seq(LinesOf(lines)), Whole(lines), NEW r, IsRecord(r),
         r.hash # NoHash, NEW new, new = Written(lines, RecordLine(r))
  PROVE  /\ Whole(new) /\ Len(new) = Len(lines) + 1
         /\ RecordAt(new, Len(new)) = r
         /\ \A k \in DOMAIN lines : RecordAt(new, k) = RecordAt(lines, k)
         /\ \A k \in 0 .. Len(lines) : HashTo(new, k) = HashTo(lines, k)
  <1>1. DOMAIN lines = 1 .. Len(lines) /\ Len(lines) \in Nat
    BY LenProperties
  <1>2. lines # <<>> => lines[Len(lines)].ended
    <2> SUFFICES ASSUME lines # <<>>
                 PROVE  lines[Len(lines)].ended
      OBVIOUS
    <2>1. Len(lines) \in DOMAIN lines
      BY <1>1, EmptySeq
    <2>2. lines[Len(lines)] = Line({RecordAt(lines, Len(lines))}, TRUE)
      BY <2>1 DEF Whole
    <2> QED
      BY <2>2 DEF Line
  <1>3. new = Append(lines, RecordLine(r))
    BY <1>2 DEF Written
  <1>4. /\ Len(new) = Len(lines) + 1 /\ DOMAIN new = 1 .. Len(lines) + 1
        /\ \A k \in 1 .. Len(lines) : new[k] = lines[k]
        /\ new[Len(lines) + 1] = RecordLine(r)
    BY <1>3, AppendsOne
  <1>5. /\ \A k \in DOMAIN lines : RecordAt(new, k) = RecordAt(lines, k)
        /\ RecordAt(new, Len(new)) = r
    <2>1. \A k \in DOMAIN lines : RecordAt(new, k) = RecordAt(lines, k)
      BY <1>1, <1>4 DEF RecordAt
    <2>2. new[Len(new)].record = {r}
      BY <1>4 DEF RecordLine, Line
    <2>3. RecordAt(new, Len(new)) = CHOOSE x \in {r} : TRUE
      BY <2>2, Zenon DEF RecordAt
    <2>4. (CHOOSE x \in {r} : TRUE) = r
      OBVIOUS
    <2> QED
      BY <2>1, <2>3, <2>4
  <1>7. Whole(new)
    <2> SUFFICES ASSUME NEW k \in DOMAIN new
                 PROVE  /\ new[k] = Line({RecordAt(new, k)}, TRUE)
                        /\ IsRecord(RecordAt(new, k)) /\ RecordAt(new, k).hash # NoHash
      BY DEF Whole
    <2>1. CASE k \in DOMAIN lines
      <3>1. /\ lines[k] = Line({RecordAt(lines, k)}, TRUE)
            /\ IsRecord(RecordAt(lines, k)) /\ RecordAt(lines, k).hash # NoHash
        BY <2>1, Zenon DEF Whole
      <3> QED
        BY <1>1, <1>4, <1>5, <2>1, <3>1, Zenon
    <2>2. CASE k = Len(new)
      BY <1>4, <1>5, <2>2, Zenon DEF RecordLine
    <2>3. k \in DOMAIN lines \/ k = Len(new)
      BY <1>1, <1>4
    <2> QED
      BY <2>1, <2>2, <2>3, Zenon
  <1>8. \A k \in 0 .. Len(lines) : HashTo(new, k) = HashTo(lines, k)
    BY <1>1, <1>5 DEF HashTo
  <1> QED
    BY <1>4, <1>5, <1>7, <1>8

LEMMA WrittenIsFile ==
  ASSUME NEW lines, lines \in Seq(LinesOf(lines)), NEW line
  PROVE  LET new == Written(lines, line)
         IN  /\ new \in Seq(LinesOf(new))
             /\ Unended(lines) =>
                  /\ Len(new) = Len(lines) /\ DOMAIN new = DOMAIN lines
                  /\ Len(lines) \in DOMAIN lines
                  /\ \A k \in DOMAIN lines :
                       new[k] = IF k = Len(lines) THEN Line({}, line.ended) ELSE lines[k]
             /\ ~Unended(lines) => new = Append(lines, line)
  <1> DEFINE new == Written(lines, line)
             joined == [lines EXCEPT ![Len(lines)] = Line({}, line.ended)]
  <1>1. CASE Unended(lines)
    <2>1. new = joined
      BY <1>1 DEF Written, Unended
    <2>2. Len(lines) \in Nat /\ DOMAIN lines = 1 .. Len(lines) /\ lines = [k \in 1 .. Len(lines) |-> lines[k]]
      BY LenProperties
    <2>3. Len(lines) \in DOMAIN lines
      BY <1>1, <2>2, EmptySeq DEF Unended
    <2>4. /\ joined = [k \in 1 .. Len(lines) |-> joined[k]]
          /\ \A k \in DOMAIN lines :
               joined[k] = IF k = Len(lines) THEN Line({}, line.ended) ELSE lines[k]
      BY <2>2, <2>3
    <2> HIDE DEF joined
    <2>5. joined \in Seq(LinesOf(joined)) /\ Len(joined) = Len(lines) /\ DOMAIN joined = DOMAIN lines
      BY <2>2, <2>4, IsFile
    <2> QED
      BY <1>1, <2>1, <2>3, <2>4, <2>5
  <1>2. CASE ~Unended(lines)
    <2>1. new = Append(lines, line)
      BY <1>2 DEF Written, Unended
    <2>2. Append(lines, line) \in Seq(LinesOf(Append(lines, line)))
      BY AppendsOne
    <2> QED
      BY <1>2, <2>1, <2>2
  <1> QED
    BY <1>1, <1>2

-----------------------------------------------------------------------------
(* Types, and the number of records a torn write costs *)

LEMMA TypeStep ==
  ASSUME TypeInv, [Next]_vars
  PROVE  TypeInv'
  <1>1. CASE UNCHANGED vars
    BY <1>1 DEF TypeInv, vars, LinesOf
  <1>2. ASSUME NEW p \in Processes, Open(p)
        PROVE  TypeInv'
    BY <1>2 DEF TypeInv, Open, LinesOf
  <1>3. ASSUME NEW p \in Processes, Stop(p)
        PROVE  TypeInv'
    BY <1>3 DEF TypeInv, Stop, LinesOf
  <1>4. ASSUME NEW p \in Processes, NEW body \in Bodies, AppendWritten(p, body)
        PROVE  TypeInv'
    <2>1. (file \in Seq(LinesOf(file)))'
      BY <1>4, WrittenIsFile DEF TypeInv, AppendWritten
    <2> QED
      BY <1>4, <2>1 DEF TypeInv, AppendWritten
  <1>5. ASSUME NEW p \in Processes, NEW body \in Bodies, AppendUnopened(p, body)
        PROVE  TypeInv'
    BY <1>5 DEF TypeInv, AppendUnopened, LinesOf
  <1>6. ASSUME NEW p \in Processes, NEW body \in Bodies, AppendTorn(p, body)
        PROVE  TypeInv'
    <2>0. PICK part \in {{}, {Record(p, body)}} : file' = Written(file, Line(part, FALSE))
      BY <1>6 DEF AppendTorn
    <2>1. (file \in Seq(LinesOf(file)))'
      BY <2>0, WrittenIsFile DEF TypeInv
    <2>2. /\ torn' = torn + 1 /\ running' \in {running, running \ {p}}
          /\ UNCHANGED <<lastHash, shared, mangled, damage>>
      BY <1>6 DEF AppendTorn
    <2> QED
      BY <2>1, <2>2 DEF TypeInv
  <1>7. CASE LoseLine \/ MoveLine \/ ChangeLine \/ AddLine
    <2>1. DOMAIN file = 1 .. Len(file) /\ Len(file) \in Nat
      BY LenProperties DEF TypeInv
    <2>2. \E n \in Nat : file' = [k \in 1 .. n |-> file'[k]]
      <3>1. CASE LoseLine
        <4>1. Len(file) - 1 \in Nat
          BY <2>1, <3>1 DEF LoseLine
        <4> QED
          BY <3>1, <4>1 DEF LoseLine
      <3>2. CASE MoveLine
        BY <2>1, <3>2, LenProperties DEF MoveLine, TypeInv
      <3>3. CASE ChangeLine
        BY <2>1, <3>3, LenProperties DEF ChangeLine, TypeInv
      <3>4. CASE AddLine
        <4>1. Len(file) + 1 \in Nat
          BY <2>1
        <4> QED
          BY <3>4, <4>1 DEF AddLine
      <3> QED
        BY <1>7, <3>1, <3>2, <3>3, <3>4
    <2>3. (file \in Seq(LinesOf(file)))'
      BY <2>2, IsFile
    <2>4. /\ damage' \in {"tail", "inner", "unseen"}
          /\ UNCHANGED <<running, lastHash, shared, mangled, torn>>
      BY <1>7 DEF LoseLine, MoveLine, ChangeLine, AddLine, Damaged, Place, KindOfChange
    <2> QED
      BY <2>3, <2>4 DEF TypeInv
  <1> QED
    BY <1>1, <1>2, <1>3, <1>4, <1>5, <1>6, <1>7 DEF Next

LEMMA TornStep ==
  ASSUME TypeInv, TornInv, [Next]_vars
  PROVE  TornInv'
  <1> DEFINE owed == written \ Settled(file)
  <1>1. /\ DOMAIN file = 1 .. Len(file) /\ Len(file) \in Nat
        /\ file # <<>> <=> Len(file) # 0
    BY LenProperties, EmptySeq DEF TypeInv
  <1>2. CASE UNCHANGED <<file, written, damage, torn>>
    BY <1>2 DEF TornInv, Settled, Unended
  <1>3. ASSUME NEW line, file' = Written(file, line), damage' = damage, damage = "none"
        PROVE  /\ (\A k \in DOMAIN file : k # Len(file) => file[k].ended)'
               /\ Unended(file)' <=> ~line.ended
               /\ Settled(file) \cup (IF line.ended /\ ~Unended(file) THEN line.record ELSE {})
                    \subseteq Settled(file')
    <2>1. CASE Unended(file)
      <3>1. /\ Len(file') = Len(file) /\ DOMAIN file' = DOMAIN file /\ Len(file) \in DOMAIN file
            /\ \A k \in DOMAIN file :
                 file'[k] = IF k = Len(file) THEN Line({}, line.ended) ELSE file[k]
        BY <1>3, <2>1, WrittenIsFile DEF TypeInv
      <3>2. file'[Len(file')].ended = line.ended /\ file' # <<>>
        BY <1>1, <3>1 DEF Line
      <3>3. \A k \in DOMAIN file : file[k].ended => file'[k] = file[k]
        BY <2>1, <3>1 DEF Unended
      <3> QED
        BY <1>3, <2>1, <3>1, <3>2, <3>3 DEF TornInv, Unended, Settled
    <2>2. CASE ~Unended(file)
      <3>1. /\ Len(file') = Len(file) + 1 /\ DOMAIN file' = 1 .. Len(file) + 1
            /\ \A k \in 1 .. Len(file) : file'[k] = file[k]
            /\ file'[Len(file) + 1] = line
        <4>1. file' = Append(file, line) /\ file \in Seq(LinesOf(file))
          BY <1>3, <2>2, WrittenIsFile DEF TypeInv
        <4> QED
          BY <4>1, AppendsOne
      <3>2. \A k \in DOMAIN file : file[k].ended
        BY <1>1, <1>3, <2>2 DEF TornInv, Unended
      <3>3. file' # <<>> /\ Len(file') \in DOMAIN file'
        BY <1>1, <3>1
      <3> QED
        BY <1>1, <2>2, <3>1, <3>2, <3>3 DEF Unended, Settled
    <2> QED
      BY <2>1, <2>2
  <1>4. IsFiniteSet(written) /\ IsFiniteSet(owed)
    BY FS_Difference DEF TornInv
  <1>5. Cardinality(owed) \in Nat
    BY <1>4, FS_CardinalityType
  <1>6. ASSUME NEW p \in Processes, NEW body \in Bodies, AppendWritten(p, body)
        PROVE  TornInv'
    <2> DEFINE r == Record(p, body)
               line == Line({r}, TRUE)
    <2>1. /\ file' = Written(file, line) /\ written' = written \cup {r}
          /\ damage' = damage /\ torn' = torn
      BY <1>6 DEF AppendWritten
    <2>2. line.ended /\ line.record = {r}
      BY DEF Line
    <2> HIDE DEF r, line
    <2>3. IsFiniteSet(written')
      BY <1>4, <2>1, FS_AddElement
    <2>4. ASSUME damage = "none"
          PROVE  Cardinality(written' \ Settled(file')) =< torn
      <3>1. Settled(file) \cup (IF ~Unended(file) THEN {r} ELSE {}) \subseteq Settled(file')
        BY <1>3, <2>1, <2>2, <2>4
      <3>2. CASE Unended(file)
        <4>1. written' \ Settled(file') \subseteq owed \cup {r}
          BY <2>1, <3>1
        <4>2. IsFiniteSet(owed \cup {r}) /\ Cardinality(owed \cup {r}) =< Cardinality(owed) + 1
          <5> HIDE DEF owed
          <5>1. /\ IsFiniteSet(owed \cup {r})
                /\ \/ Cardinality(owed \cup {r}) = Cardinality(owed)
                   \/ Cardinality(owed \cup {r}) = Cardinality(owed) + 1
            BY <1>4, FS_AddElement
          <5> QED
            BY <1>5, <5>1
        <4>3. Cardinality(written' \ Settled(file')) =< Cardinality(owed \cup {r})
          BY <4>1, <4>2, FS_Subset
        <4>4. Cardinality(owed) =< torn - 1
          BY <2>4, <3>2 DEF TornInv
        <4>5. Cardinality(owed \cup {r}) \in Nat /\ Cardinality(written' \ Settled(file')) \in Nat
          BY <4>1, <4>2, FS_CardinalityType, FS_Subset
        <4> HIDE DEF owed
        <4> QED
          BY <1>5, <4>2, <4>3, <4>4, <4>5 DEF TypeInv
      <3>3. CASE ~Unended(file)
        <4>1. written' \ Settled(file') \subseteq owed
          BY <2>1, <3>1, <3>3
        <4>2. Cardinality(written' \ Settled(file')) =< Cardinality(owed)
          BY <1>4, <4>1, FS_Subset
        <4>3. Cardinality(owed) =< torn
          BY <2>4, <3>3 DEF TornInv
        <4>4. Cardinality(written' \ Settled(file')) \in Nat
          BY <1>4, <4>1, FS_CardinalityType, FS_Subset
        <4> HIDE DEF owed
        <4> QED
          BY <1>5, <4>2, <4>3, <4>4 DEF TypeInv
      <3> QED
        BY <3>2, <3>3
    <2>5. damage = "none" => ~Unended(file)' /\ (\A k \in DOMAIN file : k # Len(file) => file[k].ended)'
      BY <1>3, <2>1, <2>2
    <2> QED
      BY <2>1, <2>3, <2>4, <2>5 DEF TornInv
  <1>7. ASSUME NEW p \in Processes, NEW body \in Bodies, AppendTorn(p, body)
        PROVE  TornInv'
    <2>1. PICK part \in {{}, {Record(p, body)}} : file' = Written(file, Line(part, FALSE))
      BY <1>7 DEF AppendTorn
    <2> DEFINE line == Line(part, FALSE)
    <2>2. file' = Written(file, line) /\ written' = written /\ damage' = damage /\ torn' = torn + 1
      BY <1>7, <2>1 DEF AppendTorn
    <2>3. ~line.ended
      BY DEF Line
    <2> HIDE DEF line
    <2>4. ASSUME damage = "none"
          PROVE  /\ Unended(file)' /\ (\A k \in DOMAIN file : k # Len(file) => file[k].ended)'
                 /\ Cardinality(written' \ Settled(file')) =< torn' - 1
      <3>1. Settled(file) \subseteq Settled(file') /\ Unended(file)'
            /\ (\A k \in DOMAIN file : k # Len(file) => file[k].ended)'
        BY <1>3, <2>2, <2>3, <2>4
      <3>2. written' \ Settled(file') \subseteq owed
        BY <2>2, <3>1
      <3>3. Cardinality(written' \ Settled(file')) =< Cardinality(owed)
        BY <1>4, <3>2, FS_Subset
      <3>4. Cardinality(owed) =< torn
        BY <1>5, <2>4 DEF TornInv, TypeInv
      <3>5. Cardinality(written' \ Settled(file')) \in Nat
        BY <1>4, <3>2, FS_CardinalityType, FS_Subset
      <3> HIDE DEF owed
      <3> QED
        BY <1>5, <2>2, <3>1, <3>3, <3>4, <3>5 DEF TypeInv
    <2> QED
      BY <1>4, <2>2, <2>4 DEF TornInv
  <1>8. CASE LoseLine \/ MoveLine \/ ChangeLine \/ AddLine
    <2>1. written' = written /\ damage' \in {"tail", "inner", "unseen"}
      BY <1>8 DEF LoseLine, MoveLine, ChangeLine, AddLine, Damaged, Place, KindOfChange
    <2> QED
      BY <2>1 DEF TornInv
  <1>9. ASSUME NEW p \in Processes,
               Open(p) \/ Stop(p) \/ \E body \in Bodies : AppendUnopened(p, body)
        PROVE  TornInv'
    BY <1>2, <1>9 DEF Open, Stop, AppendUnopened
  <1>10. CASE UNCHANGED vars
    BY <1>2, <1>10 DEF vars
  <1> QED
    BY <1>6, <1>7, <1>8, <1>9, <1>10 DEF Next

-----------------------------------------------------------------------------
(* The chain *)

\* A check that fails goes on to fail when a line is added at the end.
LEMMA StaysBroken ==
  ASSUME NEW lines, lines \in Seq(LinesOf(lines)), NEW line, ~Verifies(lines)
  PROVE  ~Verifies(Append(lines, line))
  <1> DEFINE new == Append(lines, line)
  <1>1. /\ new \in Seq(LinesOf(new)) /\ DOMAIN new = 1 .. Len(lines) + 1
        /\ DOMAIN lines = 1 .. Len(lines) /\ Len(lines) \in Nat
        /\ \A j \in DOMAIN lines : new[j] = lines[j]
    BY AppendsOne, LenProperties
  <1> HIDE DEF new
  <1>2. PICK k \in Hashed(lines) : ~Links(lines, k)
    BY DEF Verifies
  <1>3. k \in DOMAIN lines /\ lines[k].record # {} /\ RecordAt(lines, k).hash # NoHash
    BY <1>2 DEF Hashed, ReadAll
  <1>4. RecordAt(new, k) = RecordAt(lines, k) /\ k \in Hashed(new)
    <2>1. k \in DOMAIN new /\ new[k] = lines[k]
      BY <1>1, <1>3
    <2>2. RecordAt(new, k) = RecordAt(lines, k)
      BY <2>1 DEF RecordAt
    <2> QED
      BY <1>3, <2>1, <2>2 DEF Hashed, ReadAll
  <1>5. HashBefore(new, k) = HashBefore(lines, k)
    <2>1. /\ k \in Nat
          /\ \A j \in DOMAIN lines : j < k => j \in DOMAIN new /\ new[j] = lines[j]
          /\ \A j \in DOMAIN new : j < k => j \in DOMAIN lines
      BY <1>1, <1>3
    <2> QED
      BY <1>1, <2>1, HashBeforeSame
  <1>6. ~Links(new, k)
    BY <1>2, <1>4, <1>5 DEF Links
  <1> QED
    BY <1>4, <1>6 DEF Verifies, new

\* A record that continues the chain of a file.
LEMMA ChainGrows ==
  ASSUME NEW lines, lines \in Seq(LinesOf(lines)), Whole(lines), Chain(lines),
         NEW r, IsRecord(r), NEW body,
         r.prev = HashTo(lines, Len(lines)), r.hash = HashOf(r.id, body, r.prev),
         NEW new, new = Written(lines, RecordLine(r))
  PROVE  /\ Whole(new) /\ Chain(new) /\ HashTo(new, Len(new)) = r.hash
         /\ Kept(new) <=> Kept(lines) /\ Text[r.body] = Text[body]
  <1>0. r.hash # NoHash
    BY HashOfDiffers
  <1>1. /\ Whole(new) /\ Len(new) = Len(lines) + 1 /\ RecordAt(new, Len(new)) = r
        /\ \A k \in DOMAIN lines : RecordAt(new, k) = RecordAt(lines, k)
        /\ \A k \in 0 .. Len(lines) : HashTo(new, k) = HashTo(lines, k)
    BY <1>0, WholeGrows
  <1>2. new \in Seq(LinesOf(new))
    BY WrittenIsFile
  <1>3. /\ DOMAIN lines = 1 .. Len(lines) /\ DOMAIN new = 1 .. Len(lines) + 1
        /\ Len(lines) \in Nat
    BY <1>1, <1>2, LenProperties
  <1>4. Kept(new) <=> Kept(lines) /\ Text[r.body] = Text[body]
    <2>1. r.hash = HashOf(r.id, r.body, r.prev) <=> Text[r.body] = Text[body]
      BY HashOfDiffers
    <2>2. \A k \in DOMAIN new : k \in DOMAIN lines \/ k = Len(new)
      BY <1>1, <1>3
    <2>3. DOMAIN lines \subseteq DOMAIN new /\ Len(new) \in DOMAIN new
      BY <1>1, <1>3
    <2> QED
      BY <1>1, <2>1, <2>2, <2>3 DEF Kept
  <1>5. HashTo(new, Len(new)) = r.hash
    BY <1>1, <1>3 DEF HashTo
  <1>6. ASSUME NEW k \in DOMAIN new
        PROVE  /\ RecordAt(new, k).prev = HashTo(new, k - 1)
               /\ \E b : RecordAt(new, k).hash =
                           HashOf(RecordAt(new, k).id, b, RecordAt(new, k).prev)
    <2>1. CASE k \in DOMAIN lines
      <3>1. k - 1 \in 0 .. Len(lines)
        BY <1>3, <2>1
      <3> QED
        BY <1>1, <2>1, <3>1 DEF Chain
    <2>2. CASE k = Len(new)
      <3>1. k - 1 = Len(lines) /\ k - 1 \in 0 .. Len(lines)
        BY <1>1, <1>3, <2>2
      <3> QED
        BY <1>1, <2>2, <3>1
    <2> QED
      BY <1>1, <1>3, <2>1, <2>2
  <1>7. ASSUME NEW j \in 0 .. Len(lines)
        PROVE  HashTo(lines, j) # r.hash
    <2>1. CASE j = 0
      BY <1>0, <2>1 DEF HashTo
    <2>2. CASE j # 0
      <3>1. j \in DOMAIN lines /\ j - 1 \in 0 .. Len(lines) /\ Len(lines) \in 0 .. Len(lines)
            /\ j - 1 < Len(lines)
        BY <1>3, <2>2
      <3>2. \E b : HashTo(lines, j) = HashOf(RecordAt(lines, j).id, b, HashTo(lines, j - 1))
        BY <2>2, <3>1 DEF Chain, HashTo
      <3>3. HashTo(lines, j - 1) # HashTo(lines, Len(lines))
        BY <3>1 DEF Chain
      <3> QED
        BY <3>2, <3>3, HashOfDiffers
    <2> QED
      BY <2>1, <2>2
  <1>8. ASSUME NEW j \in 0 .. Len(new), NEW k \in 0 .. Len(new), j < k
        PROVE  HashTo(new, j) # HashTo(new, k)
    <2>1. j \in 0 .. Len(lines) /\ (k \in 0 .. Len(lines) \/ k = Len(new))
      BY <1>1, <1>3, <1>8
    <2>2. CASE k \in 0 .. Len(lines)
      BY <1>1, <1>8, <2>1, <2>2 DEF Chain
    <2>3. CASE k = Len(new)
      BY <1>1, <1>5, <1>7, <2>1, <2>3
    <2> QED
      BY <2>1, <2>2, <2>3
  <1> QED
    BY <1>1, <1>4, <1>5, <1>6, <1>8 DEF Chain

\* What the damage to a file of whole lines, not at its end, breaks.
LEMMA DamageShows ==
  ASSUME TypeInv, Whole(file), Chain(file), damage' = "inner",
         LoseLine \/ MoveLine \/ ChangeLine \/ AddLine
  PROVE  ~Verifies(file')
  <1>1. /\ file \in Seq(LinesOf(file))
        /\ DOMAIN file = 1 .. Len(file) /\ Len(file) \in Nat
        /\ file = [k \in 1 .. Len(file) |-> file[k]]
    BY LenProperties DEF TypeInv
  <1>2. file' \in Seq(LinesOf(file'))
    BY TypeStep DEF Next, TypeInv
  <1>3. ASSUME NEW k \in DOMAIN file
        PROVE  /\ file[k] = Line({RecordAt(file, k)}, TRUE) /\ IsRecord(RecordAt(file, k))
               /\ RecordAt(file, k).hash # NoHash
               /\ HashBefore(file, k) = HashTo(file, k - 1)
               /\ RecordAt(file, k).prev = HashTo(file, k - 1)
    <2>1. k \in 1 .. Len(file) + 1
      BY <1>1
    <2>2. HashBefore(file, k) = HashTo(file, k - 1)
      BY <1>1, <2>1, HashBeforeWhole
    <2>3. RecordAt(file, k).prev = HashTo(file, k - 1)
      BY DEF Chain
    <2> QED
      BY <2>2, <2>3, Zenon DEF Whole
  <1>4. \A j, k \in 0 .. Len(file) : j < k => HashTo(file, j) # HashTo(file, k)
    BY DEF Chain
  <1>5. ASSUME NEW k \in DOMAIN file', NEW r, file'[k].record = {r}
        PROVE  /\ RecordAt(file', k) = r
               /\ k \in Hashed(file') <=> r.hash # NoHash
               /\ r.hash # NoHash /\ r.prev # HashBefore(file', k) => ~Verifies(file')
               /\ r.hash # NoHash /\ r.hash # HashOf(r.id, r.body, r.prev) => ~Verifies(file')
    <2>1. (CHOOSE x \in {r} : TRUE) = r
      OBVIOUS
    <2>2. RecordAt(file', k) = r
      BY <1>5, <2>1 DEF RecordAt
    <2>3. k \in Hashed(file') <=> r.hash # NoHash
      BY <1>5, <2>2 DEF Hashed, ReadAll
    <2> QED
      BY <2>2, <2>3 DEF Verifies, Links
  <1>6. CASE LoseLine
    <2>1. PICK k \in DOMAIN file :
            /\ file' = [j \in 1 .. Len(file) - 1 |-> IF j < k THEN file[j] ELSE file[j+1]]
            /\ damage' = Place(k)
      BY <1>6 DEF LoseLine, Damaged
    <2>2. /\ DOMAIN file' = 1 .. Len(file) - 1
          /\ \A j \in DOMAIN file' : file'[j] = IF j < k THEN file[j] ELSE file[j+1]
      BY <2>1
    <2>3. k < Len(file)
      BY <2>1 DEF Place
    <2>4. k \in Nat /\ k \in DOMAIN file' /\ file'[k] = file[k + 1] /\ k + 1 \in DOMAIN file
          /\ k - 1 \in 0 .. Len(file) /\ k \in 0 .. Len(file) /\ k - 1 < k /\ (k + 1) - 1 = k
      BY <1>1, <2>1, <2>2, <2>3
    <2>5. HashBefore(file', k) = HashBefore(file, k)
      <3>1. /\ \A j \in DOMAIN file : j < k => j \in DOMAIN file' /\ file'[j] = file[j]
            /\ \A j \in DOMAIN file' : j < k => j \in DOMAIN file
        BY <1>1, <2>2, <2>4
      <3> QED
        BY <1>1, <1>2, <2>4, <3>1, HashBeforeSame
    <2>6. HashBefore(file', k) = HashTo(file, k - 1)
      BY <1>3, <2>5
    <2> DEFINE r == RecordAt(file, k + 1)
    <2>7. file'[k].record = {r} /\ r.hash # NoHash /\ r.prev = HashTo(file, k)
      <3>1. file[k + 1] = Line({r}, TRUE) /\ r.hash # NoHash /\ r.prev = HashTo(file, (k + 1) - 1)
        BY <1>3, <2>4
      <3> QED
        BY <2>4, <3>1 DEF Line
    <2> HIDE DEF r
    <2>8. HashTo(file, k - 1) # HashTo(file, k)
      BY <1>4, <2>4
    <2> QED
      BY <1>5, <2>4, <2>6, <2>7, <2>8
  <1>7. CASE MoveLine
    <2>1. PICK j \in DOMAIN file, k \in DOMAIN file :
            j < k /\ file' = [file EXCEPT ![j] = file[k], ![k] = file[j]]
      BY <1>7 DEF MoveLine
    <2>2. /\ DOMAIN file' = DOMAIN file /\ file'[j] = file[k]
          /\ \A i \in DOMAIN file : i < j => file'[i] = file[i]
          /\ j \in Nat /\ j - 1 < k - 1 /\ j - 1 \in 0 .. Len(file) /\ k - 1 \in 0 .. Len(file)
      BY <1>1, <2>1
    <2>3. HashBefore(file', j) = HashBefore(file, j)
      <3>1. /\ \A i \in DOMAIN file : i < j => i \in DOMAIN file' /\ file'[i] = file[i]
            /\ \A i \in DOMAIN file' : i < j => i \in DOMAIN file
        BY <2>2
      <3> QED
        BY <1>1, <1>2, <2>2, <3>1, HashBeforeSame
    <2> DEFINE r == RecordAt(file, k)
    <2>4. file'[j].record = {r} /\ r.hash # NoHash /\ r.prev = HashTo(file, k - 1)
      BY <1>3, <2>2 DEF Line
    <2> HIDE DEF r
    <2>5. HashTo(file, j - 1) # HashTo(file, k - 1)
      BY <1>4, <2>2
    <2>6. HashBefore(file', j) = HashTo(file, j - 1)
      BY <1>3, <2>3
    <2> QED
      BY <1>5, <2>2, <2>4, <2>5, <2>6
  <1>8. CASE ChangeLine
    <2>1. PICK k \in DOMAIN file, body \in Bodies :
            \E r \in file[k].record : \E n \in Changes(r, body) :
              /\ file' = [file EXCEPT ![k].record = {n}]
              /\ damage' = KindOfChange(k, r, n)
      BY <1>8 DEF ChangeLine, Damaged
    <2>10. PICK r \in file[k].record : \E n \in Changes(r, body) :
              /\ file' = [file EXCEPT ![k].record = {n}]
              /\ damage' = KindOfChange(k, r, n)
      BY <2>1
    <2>2. r = RecordAt(file, k) /\ file[k] = Line({r}, TRUE) /\ IsRecord(r)
      <3>1. file[k] = Line({RecordAt(file, k)}, TRUE) /\ IsRecord(RecordAt(file, k))
        BY <1>3
      <3>2. file[k].record = {RecordAt(file, k)}
        BY <3>1 DEF Line
      <3> QED
        BY <3>1, <3>2
    <2>3. PICK n \in Changes(r, body) :
            /\ file' = [file EXCEPT ![k].record = {n}]
            /\ damage' = KindOfChange(k, r, n)
      BY <2>10
    <2>4. n.id = r.id /\ n.prev = r.prev
      <3>1. ASSUME NEW i, NEW b, NEW p, NEW h, r = [id |-> i, body |-> b, prev |-> p, hash |-> h]
            PROVE  n.id = r.id /\ n.prev = r.prev
        BY <2>3, <3>1 DEF Changes, Unhashed, Rehashed
      <3> QED
        BY <2>2, <3>1 DEF IsRecord
    <2>5. /\ DOMAIN file' = DOMAIN file
          /\ \A i \in DOMAIN file : i # k => file'[i] = file[i]
          /\ file'[k] = [file[k] EXCEPT !.record = {n}]
      BY <1>1, <2>3
    <2>6. file'[k].record = {n}
      <3>1. file[k] = [record |-> {r}, ended |-> TRUE]
        BY <2>2 DEF Line
      <3>2. ASSUME NEW line, NEW old, NEW new, line = [record |-> old, ended |-> TRUE]
            PROVE  [line EXCEPT !.record = new].record = new
        BY <3>2
      <3> QED
        BY <2>5, <3>1, <3>2, Zenon
    <2>7. \/ n.hash # r.hash /\ k < Len(file)
          \/ n.hash = r.hash /\ r = Rehashed(r) /\ Text[n.body] # Text[r.body]
      BY <2>3 DEF KindOfChange, Place
    <2>8. CASE n.hash = r.hash /\ r = Rehashed(r) /\ Text[n.body] # Text[r.body]
      <3>1. r.hash = HashOf(r.id, r.body, r.prev)
        <4>1. ASSUME NEW i, NEW b, NEW p, NEW h, NEW x,
                     r = [id |-> i, body |-> b, prev |-> p, hash |-> h], r = [r EXCEPT !.hash = x]
              PROVE  r.hash = x
          BY <4>1
        <4> QED
          BY <2>2, <2>8, <4>1, Zenon DEF IsRecord, Rehashed
      <3>2. n.hash # NoHash /\ n.hash # HashOf(n.id, n.body, n.prev)
        BY <2>4, <2>8, <3>1, HashOfDiffers
      <3> QED
        BY <1>5, <2>5, <2>6, <3>2
    <2>9. CASE n.hash # r.hash /\ k < Len(file)
      <3>1. k + 1 \in DOMAIN file /\ k \in 0 .. Len(file) /\ k - 1 \in 0 .. Len(file)
            /\ k \in Nat /\ k # 0 /\ k - 1 < k /\ (k + 1) - 1 = k /\ k + 1 # k
        BY <1>1, <2>9
      <3> DEFINE s == RecordAt(file, k + 1)
      <3>2. file'[k + 1].record = {s} /\ s.hash # NoHash /\ s.prev = r.hash
        <4>1. file'[k + 1] = file[k + 1]
          BY <2>5, <3>1
        <4>2. file[k + 1] = Line({s}, TRUE) /\ s.hash # NoHash /\ s.prev = HashTo(file, (k + 1) - 1)
          BY <1>3, <3>1
        <4>3. HashTo(file, k) = r.hash
          BY <2>2, <3>1 DEF HashTo
        <4> QED
          BY <3>1, <4>1, <4>2, <4>3 DEF Line
      <3> HIDE DEF s
      <3>3. HashBefore(file', k) = HashBefore(file, k)
        <4>1. /\ \A j \in DOMAIN file : j < k => j \in DOMAIN file' /\ file'[j] = file[j]
              /\ \A j \in DOMAIN file' : j < k => j \in DOMAIN file
          BY <1>1, <2>5, <3>1
        <4> QED
          BY <1>1, <1>2, <3>1, <4>1, HashBeforeSame
      <3>4. HashBefore(file', k) # r.hash
        <4>1. HashBefore(file, k) = HashTo(file, k - 1) /\ HashTo(file, k) = r.hash
          BY <1>3, <2>2, <3>1 DEF HashTo
        <4> QED
          BY <1>4, <3>1, <3>3, <4>1
      <3>5. HashBefore(file', k + 1) = IF n.hash # NoHash THEN n.hash ELSE HashBefore(file', k)
        <4>1. k \in DOMAIN file'
          BY <2>5
        <4>2. RecordAt(file', k) = n /\ (k \in Hashed(file') <=> n.hash # NoHash)
          BY <1>5, <2>6, <4>1
        <4> QED
          BY <1>2, <4>1, <4>2, HashAfter
      <3>6. s.prev # HashBefore(file', k + 1)
        BY <2>9, <3>2, <3>4, <3>5
      <3> QED
        BY <1>5, <2>5, <3>1, <3>2, <3>6
    <2> QED
      BY <2>7, <2>8, <2>9
  <1>9. CASE AddLine
    <2>1. PICK k \in 1 .. Len(file) + 1, body \in Bodies :
            LET added == [id |-> k, body |-> body, prev |-> HashBefore(file, k), hash |-> NoHash]
            IN  \E n \in {added, Rehashed(added)} :
                  /\ file' = [j \in 1 .. Len(file) + 1 |-> IF j < k THEN file[j]
                                                           ELSE IF j = k THEN Line({n}, TRUE)
                                                           ELSE file[j-1]]
                  /\ damage' = (IF n.hash = NoHash THEN "unseen" ELSE Place(k - 1))
      BY <1>9 DEF AddLine, Damaged
    <2> DEFINE added == [id |-> k, body |-> body, prev |-> HashBefore(file, k), hash |-> NoHash]
    <2>2. PICK n \in {added, Rehashed(added)} :
            /\ file' = [j \in 1 .. Len(file) + 1 |-> IF j < k THEN file[j]
                                                     ELSE IF j = k THEN Line({n}, TRUE)
                                                     ELSE file[j-1]]
            /\ damage' = (IF n.hash = NoHash THEN "unseen" ELSE Place(k - 1))
      BY <2>1
    <2>3. n.hash # NoHash /\ k - 1 < Len(file)
      BY <2>2 DEF Place
    <2>4. n.hash = HashOf(k, body, HashBefore(file, k))
      BY <2>2, <2>3 DEF Rehashed
    <2> HIDE DEF added
    <2>5. /\ k \in DOMAIN file /\ k \in DOMAIN file' /\ k + 1 \in DOMAIN file'
          /\ file'[k] = Line({n}, TRUE) /\ file'[k + 1] = file[k]
      <3>1. /\ k \in DOMAIN file /\ k \in 1 .. Len(file) + 1 /\ k + 1 \in 1 .. Len(file) + 1
            /\ ~(k < k) /\ ~(k + 1 < k) /\ k + 1 # k /\ (k + 1) - 1 = k
        BY <1>1, <2>3
      <3> HIDE DEF added
      <3> QED
        BY <2>2, <3>1
    <2> DEFINE s == RecordAt(file, k)
    <2>6. file'[k + 1].record = {s} /\ s.hash # NoHash /\ s.prev = HashTo(file, k - 1)
      BY <1>3, <2>5 DEF Line
    <2> HIDE DEF s
    <2>7. HashBefore(file', k + 1) = n.hash
      <3>1. file'[k].record = {n}
        BY <2>5 DEF Line
      <3> QED
        BY <1>2, <1>5, <2>3, <2>5, <3>1, HashAfter
    <2>8. n.hash = HashOf(k, body, HashTo(file, k - 1))
      BY <1>3, <2>4, <2>5
    <2>9. HashTo(file, k - 1) # n.hash
      <3>1. CASE k = 1
        BY <2>3, <3>1 DEF HashTo
      <3>2. CASE k # 1
        <4>1. k - 1 \in DOMAIN file /\ k - 1 # 0 /\ (k - 1) - 1 \in 0 .. Len(file)
              /\ k - 1 \in 0 .. Len(file) /\ (k - 1) - 1 < k - 1
          BY <1>1, <2>5, <3>2
        <4>2. \E b : HashTo(file, k - 1) =
                       HashOf(RecordAt(file, k - 1).id, b, HashTo(file, (k - 1) - 1))
          BY <4>1 DEF Chain, HashTo
        <4>3. HashTo(file, (k - 1) - 1) # HashTo(file, k - 1)
          BY <1>4, <4>1
        <4> QED
          BY <2>8, <4>2, <4>3, HashOfDiffers
      <3> QED
        BY <3>1, <3>2
    <2> QED
      BY <1>5, <2>5, <2>6, <2>7, <2>9
  <1> QED
    BY <1>6, <1>7, <1>8, <1>9

-----------------------------------------------------------------------------
(* The invariant *)

LEMMA EndedStep ==
  ASSUME TypeInv, Ended(file), LoseLine \/ MoveLine \/ ChangeLine \/ AddLine
  PROVE  Ended(file')
  <1>1. /\ DOMAIN file = 1 .. Len(file) /\ Len(file) \in Nat
        /\ file = [k \in 1 .. Len(file) |-> file[k]]
    BY LenProperties DEF TypeInv
  <1>2. \A k \in DOMAIN file : file[k].ended
    BY DEF Ended
  <1>3. CASE LoseLine
    <2>1. PICK k \in DOMAIN file :
            file' = [j \in 1 .. Len(file) - 1 |-> IF j < k THEN file[j] ELSE file[j+1]]
      BY <1>3 DEF LoseLine
    <2>2. /\ DOMAIN file' = 1 .. Len(file) - 1
          /\ \A j \in DOMAIN file' : file'[j] = IF j < k THEN file[j] ELSE file[j+1]
      BY <2>1
    <2>3. \A j \in DOMAIN file' : j \in DOMAIN file /\ j + 1 \in DOMAIN file
      BY <1>1, <2>2
    <2> QED
      BY <1>2, <2>2, <2>3 DEF Ended
  <1>4. CASE MoveLine
    <2>1. PICK j \in DOMAIN file, k \in DOMAIN file : file' = [file EXCEPT ![j] = file[k], ![k] = file[j]]
      BY <1>4 DEF MoveLine
    <2>2. /\ DOMAIN file' = DOMAIN file
          /\ \A i \in DOMAIN file : file'[i] = IF i = k THEN file[j] ELSE IF i = j THEN file[k] ELSE file[i]
      BY <1>1, <2>1
    <2> QED
      BY <1>2, <2>2 DEF Ended
  <1>5. CASE ChangeLine
    <2>0. PICK k \in DOMAIN file : \E n : file' = [file EXCEPT ![k].record = {n}]
      BY <1>5 DEF ChangeLine
    <2>1. PICK n : file' = [file EXCEPT ![k].record = {n}]
      BY <2>0
    <2>2. /\ DOMAIN file' = DOMAIN file
          /\ \A i \in DOMAIN file : file'[i] = IF i = k THEN [file[k] EXCEPT !.record = {n}] ELSE file[i]
      BY <1>1, <2>1
    <2>3. [file[k] EXCEPT !.record = {n}].ended = file[k].ended
      OBVIOUS
    <2> QED
      BY <1>2, <2>2, <2>3 DEF Ended
  <1>6. CASE AddLine
    <2>0. PICK k \in 1 .. Len(file) + 1 : \E n :
            file' = [j \in 1 .. Len(file) + 1 |-> IF j < k THEN file[j]
                                                  ELSE IF j = k THEN Line({n}, TRUE)
                                                  ELSE file[j-1]]
      BY <1>6 DEF AddLine
    <2>1. PICK n :
            file' = [j \in 1 .. Len(file) + 1 |-> IF j < k THEN file[j]
                                                  ELSE IF j = k THEN Line({n}, TRUE)
                                                  ELSE file[j-1]]
      BY <2>0
    <2>2. /\ DOMAIN file' = 1 .. Len(file) + 1
          /\ \A j \in DOMAIN file' :
               file'[j] = IF j < k THEN file[j] ELSE IF j = k THEN Line({n}, TRUE) ELSE file[j-1]
      BY <2>1
    <2>3. \A j \in DOMAIN file' : (j < k => j \in DOMAIN file) /\ (j > k => j - 1 \in DOMAIN file)
      BY <1>1, <2>2
    <2>4. Line({n}, TRUE).ended
      BY DEF Line
    <2>5. ASSUME NEW j \in DOMAIN file'
          PROVE  file'[j].ended
      <3>1. CASE j < k
        BY <1>2, <2>2, <2>3, <3>1
      <3>2. CASE j = k
        <4>1. ~(k < k)
          BY <2>0
        <4> QED
          BY <2>2, <2>4, <3>2, <4>1
      <3>3. CASE j > k
        BY <1>2, <2>2, <2>3, <3>3
      <3> QED
        BY <2>2, <3>1, <3>2, <3>3
    <2> QED
      BY <2>5 DEF Ended
  <1> QED
    BY <1>3, <1>4, <1>5, <1>6

LEMMA ChainStep ==
  ASSUME TypeInv, ChainInv, [Next]_vars
  PROVE  ChainInv'
  <1>1. /\ file \in Seq(LinesOf(file))
        /\ DOMAIN file = 1 .. Len(file) /\ Len(file) \in Nat
    BY LenProperties DEF TypeInv
  <1>2. CASE UNCHANGED vars
    BY <1>2 DEF ChainInv, vars, InnerDamageIsFound, Undisturbed
  <1>3. ASSUME NEW p \in Processes, Open(p)
        PROVE  ChainInv'
    <2>1. /\ file' = file /\ torn' = torn /\ damage' = damage /\ mangled' = mangled
          /\ running' = running \cup {p} /\ shared' = (shared \/ running # {})
          /\ lastHash' = [lastHash EXCEPT ![p] = HashBefore(file, Len(file) + 1)]
      BY <1>3 DEF Open
    <2>2. ASSUME ~shared'
          PROVE  ~shared /\ running' = {p}
      BY <2>1, <2>2
    <2>3. ASSUME Undisturbed', damage = "none"
          PROVE  lastHash'[p] = HashTo(file, Len(file))
      <3>1. Whole(file)
        BY <2>1, <2>2, <2>3 DEF ChainInv, Undisturbed
      <3>2. HashBefore(file, Len(file) + 1) = HashTo(file, Len(file) + 1 - 1)
        BY <1>1, <3>1, HashBeforeWhole
      <3> QED
        BY <1>1, <2>1, <3>2 DEF TypeInv
    <2> QED
      BY <2>1, <2>2, <2>3 DEF ChainInv, Undisturbed, InnerDamageIsFound
  <1>4. ASSUME NEW p \in Processes, Stop(p)
        PROVE  ChainInv'
    BY <1>4 DEF Stop, ChainInv, Undisturbed, InnerDamageIsFound
  <1>5. ASSUME NEW p \in Processes, NEW body \in Bodies, AppendWritten(p, body)
        PROVE  ChainInv'
    <2> DEFINE r == Record(p, body)
    <2>1. /\ p \in running /\ file' = Written(file, RecordLine(r))
          /\ lastHash' = [lastHash EXCEPT ![p] = r.hash]
          /\ mangled' = (mangled \/ Text[r.body] # Text[body])
          /\ UNCHANGED <<running, shared, damage, torn>>
      BY <1>5 DEF AppendWritten, BeginAppend, RecordLine, Survives, Record
    <2>2. IsRecord(r) /\ r.prev = lastHash[p] /\ r.hash = HashOf(r.id, body, r.prev)
      BY DEF IsRecord, Record
    <2> HIDE DEF r
    <2>3. ASSUME torn = 0
          PROVE  Ended(file') /\ file' = Append(file, RecordLine(r))
      <3>1. Ended(file)
        BY <2>3 DEF ChainInv
      <3>2. ~Unended(file)
        BY <1>1, <3>1, EmptySeq DEF Ended, Unended
      <3>3. file' = Append(file, RecordLine(r))
        BY <1>1, <2>1, <3>2, WrittenIsFile
      <3>4. /\ DOMAIN file' = 1 .. Len(file) + 1
            /\ \A k \in 1 .. Len(file) : file'[k] = file[k]
            /\ file'[Len(file) + 1] = RecordLine(r)
        BY <1>1, <3>3, AppendsOne
      <3>5. RecordLine(r).ended
        BY DEF RecordLine, Line
      <3>6. \A k \in DOMAIN file' : k \in 1 .. Len(file) \/ k = Len(file) + 1
        BY <1>1, <3>4
      <3> QED
        BY <1>1, <3>1, <3>3, <3>4, <3>5, <3>6 DEF Ended
    <2>4. ASSUME Undisturbed, damage = "none"
          PROVE  /\ Whole(file') /\ Chain(file')
                 /\ Kept(file') <=> ~mangled'
                 /\ \A q \in running' : lastHash'[q] = HashTo(file', Len(file'))
      <3>1. /\ Whole(file) /\ Chain(file) /\ (Kept(file) <=> ~mangled)
            /\ running = {p} /\ r.prev = HashTo(file, Len(file))
        BY <2>1, <2>2, <2>4 DEF ChainInv, Undisturbed
      <3>2. /\ Whole(file') /\ Chain(file') /\ HashTo(file', Len(file')) = r.hash
            /\ Kept(file') <=> Kept(file) /\ Text[r.body] = Text[body]
        BY <1>1, <2>1, <2>2, <3>1, ChainGrows
      <3>3. lastHash'[p] = r.hash
        BY <2>1 DEF TypeInv
      <3> QED
        BY <2>1, <3>1, <3>2, <3>3
    <2>5. ASSUME Undisturbed, damage = "inner"
          PROVE  ~Verifies(file')
      <3>1. ~Verifies(file)
        BY <2>5 DEF ChainInv, InnerDamageIsFound
      <3> QED
        BY <1>1, <2>3, <2>5, <3>1, StaysBroken DEF Undisturbed
    <2> QED
      BY <2>1, <2>3, <2>4, <2>5 DEF ChainInv, Undisturbed, InnerDamageIsFound
  <1>6. ASSUME NEW p \in Processes, NEW body \in Bodies, AppendUnopened(p, body)
        PROVE  ChainInv'
    BY <1>6 DEF AppendUnopened, ChainInv, Undisturbed, InnerDamageIsFound
  <1>7. ASSUME NEW p \in Processes, NEW body \in Bodies, AppendTorn(p, body)
        PROVE  ChainInv'
    <2>1. torn' = torn + 1 /\ torn' # 0 /\ running' \subseteq running /\ shared' = shared
      BY <1>7 DEF AppendTorn, TypeInv
    <2> QED
      BY <2>1 DEF ChainInv, Undisturbed, InnerDamageIsFound
  <1>8. CASE LoseLine \/ MoveLine \/ ChangeLine \/ AddLine
    <2>1. /\ damage = "none" /\ damage' # "none"
          /\ UNCHANGED <<running, lastHash, shared, torn>>
      BY <1>8 DEF LoseLine, MoveLine, ChangeLine, AddLine, Damaged, Place, KindOfChange
    <2>2. torn = 0 => Ended(file')
      BY <1>8, EndedStep DEF ChainInv
    <2>3. Undisturbed' /\ damage' = "inner" => ~Verifies(file')
      BY <1>8, <2>1, DamageShows DEF ChainInv, Undisturbed
    <2> QED
      BY <2>1, <2>2, <2>3 DEF ChainInv, Undisturbed, InnerDamageIsFound
  <1> QED
    BY <1>2, <1>3, <1>4, <1>5, <1>6, <1>7, <1>8 DEF Next

\* The invariant holds in every reachable state.
THEOREM Invariance == Spec => [](TypeInv /\ ChainInv /\ TornInv)
  <1>1. ASSUME Init
        PROVE  TypeInv /\ ChainInv /\ TornInv
    <2>1. file = <<>> /\ DOMAIN file = {} /\ Len(file) = 0
      BY <1>1 DEF Init
    <2>2. file \in Seq(LinesOf(file))
      BY <2>1, EmptySeq
    <2>3. TypeInv
      BY <1>1, <2>2 DEF Init, TypeInv
    <2>4. Whole(file) /\ Chain(file) /\ Kept(file) /\ Ended(file)
      BY <2>1 DEF Whole, Chain, Kept, Ended
    <2>5. ChainInv
      BY <1>1, <2>4 DEF Init, ChainInv, Undisturbed, InnerDamageIsFound
    <2>6. written \ Settled(file) = {} /\ ~Unended(file) /\ IsFiniteSet(written)
      BY <1>1, FS_EmptySet DEF Init, Unended
    <2>7. TornInv
      BY <1>1, <2>1, <2>6, FS_EmptySet DEF Init, TornInv
    <2> QED
      BY <2>3, <2>5, <2>7
  <1>2. TypeInv /\ ChainInv /\ TornInv /\ [Next]_vars => (TypeInv /\ ChainInv /\ TornInv)'
    BY TypeStep, ChainStep, TornStep
  <1> QED
    BY <1>1, <1>2, PTL DEF Spec

\* What VerifyIntegrity accepts of a file that only one process at a time has
\* written, across restarts and records that could not be written: the file in
\* which every record reads back with the text it was hashed with, and no other.
THEOREM OriginalsPass == Spec => []OriginalVerifies
  <1>1. TypeInv /\ ChainInv => OriginalVerifies
    <2> SUFFICES ASSUME TypeInv, ChainInv, Undisturbed, damage = "none"
                 PROVE  Verifies(file) <=> ~mangled
      BY DEF OriginalVerifies
    <2>1. file \in Seq(LinesOf(file)) /\ Whole(file) /\ Chain(file) /\ (Kept(file) <=> ~mangled)
      BY DEF TypeInv, ChainInv
    <2>2. Verifies(file) <=>
            \A k \in DOMAIN file :
              LET r == RecordAt(file, k)
              IN  r.prev = HashTo(file, k - 1) /\ r.hash = HashOf(r.id, r.body, r.prev)
      BY <2>1, VerifiesWhole
    <2> QED
      BY <2>1, <2>2 DEF Chain, Kept
  <1> QED
    BY <1>1, Invariance, PTL

\* A line of the chain lost from the middle, moved, put in, or changed in its hash,
\* and a text changed under its hash anywhere, stays visible to VerifyIntegrity,
\* whatever Append adds after it.
THEOREM DamageStaysVisible == Spec => []InnerDamageIsFound
  <1>1. ChainInv => InnerDamageIsFound
    BY DEF ChainInv
  <1> QED
    BY <1>1, Invariance, PTL

\* Of the records Append wrote without an error, writes cut short cost at most
\* one each.
THEOREM TornWritesCostOneEach == Spec => []TornWriteCostsOneRecord
  <1>1. TypeInv /\ TornInv => TornWriteCostsOneRecord
    <2> SUFFICES ASSUME TypeInv, TornInv, damage = "none"
                 PROVE  Cardinality(written \ Records(file)) =< torn
      BY DEF TornWriteCostsOneRecord
    <2> DEFINE owed == written \ Settled(file)
               lost == written \ Records(file)
    <2>1. lost \subseteq owed
      BY DEF Settled, Records
    <2>2. IsFiniteSet(owed)
      BY FS_Difference DEF TornInv
    <2>3. IsFiniteSet(lost) /\ Cardinality(lost) =< Cardinality(owed)
      BY <2>1, <2>2, FS_Subset
    <2>4. Cardinality(lost) \in Nat /\ Cardinality(owed) \in Nat
      BY <2>2, <2>3, FS_CardinalityType
    <2>5. Cardinality(owed) =< (IF Unended(file) THEN torn - 1 ELSE torn)
      BY DEF TornInv
    <2> HIDE DEF owed, lost
    <2>6. Cardinality(lost) =< torn
      BY <2>3, <2>4, <2>5 DEF TypeInv
    <2> QED
      BY <2>6 DEF lost
  <1> QED
    BY <1>1, Invariance, PTL

-----------------------------------------------------------------------------
(* An export that reads the peers' logs to their ends *)

(***************************************************************************)
(* The inductive invariant: of the records wanted from the peer at work no *)
(* more are left than lie beyond the cursor, and a peer the export is done *)
(* with is in one of its two lists.                                        *)
(***************************************************************************)
ExportTypes ==
  /\ at \in [Exports -> SUBSET Nodes]
  /\ todo \in [Exports -> SUBSET Nodes]
  /\ beyond \in [Exports -> Int] /\ wanted \in [Exports -> Int]
  /\ whole \in [Exports -> SUBSET Nodes] /\ failed \in [Exports -> SUBSET Nodes]
  /\ missed \in [Exports -> SUBSET Nodes]
  /\ step \in [Exports -> {"idle", "running", "answered"}]

Progress(x) ==
  /\ wanted[x] =< beyond[x]
  /\ missed[x] = {}
  /\ \A m \in Nodes \ {Home[x]} :
       m \in todo[x] \/ at[x] = {m} \/ m \in failed[x] \/ m \in whole[x]
  /\ step[x] = "answered" => at[x] = {} /\ todo[x] = {}

ExportInv == ExportTypes /\ \A x \in Exports : Progress(x)

LEMMA ExportsBegin == ExportInit => ExportInv
  BY HomeAssumption DEF ExportInit, ExportInv, ExportTypes, Progress

\* The logs only grow.
LEMMA LogsGrow ==
  ASSUME ExportTypes, NEW m
  PROVE  /\ Grown(m) \in [Exports -> Int] /\ GrownBySelf(m) \in [Exports -> Int]
         /\ \A x \in Exports : beyond[x] =< Grown(m)[x] /\ beyond[x] =< GrownBySelf(m)[x]
  BY DEF ExportTypes, Grown, GrownBySelf

\* What happens to the other exports while one works: their logs grow.
LEMMA OthersProgress ==
  ASSUME ExportInv, NEW x, NEW y \in Exports, y # x,
         beyond[y] =< beyond'[y], beyond'[y] \in Int,
         at'[y] = at[y], todo'[y] = todo[y], wanted'[y] = wanted[y], whole'[y] = whole[y],
         failed'[y] = failed[y], missed'[y] = missed[y], step'[y] = step[y]
  PROVE  Progress(y)'
  BY DEF ExportInv, ExportTypes, Progress

LEMMA HandleKeepsExports ==
  ASSUME ExportInv, NEW x \in Exports, Handle(x)
  PROVE  ExportInv'
  <1>1. ASSUME NEW m \in Nodes, NEW size \in Sizes, ReachPeer(x, m, size)
        PROVE  ExportInv'
    <2>1. size \in Nat
      BY SizesAssumption
    <2>2. ExportTypes'
      BY <1>1, <2>1 DEF ExportInv, ExportTypes, ReachPeer
    <2>3. /\ step[x] = "running" /\ at[x] = {} /\ m \in todo[x]
          /\ at' = [at EXCEPT ![x] = {m}] /\ todo' = [todo EXCEPT ![x] = @ \ {m}]
          /\ beyond' = [beyond EXCEPT ![x] = size] /\ wanted' = [wanted EXCEPT ![x] = size]
          /\ UNCHANGED <<step, whole, failed, missed>>
      BY <1>1 DEF ReachPeer
    <2>4. Progress(x)'
      <3>1. /\ at'[x] = {m} /\ todo'[x] = todo[x] \ {m} /\ beyond'[x] = size
            /\ wanted'[x] = size /\ missed'[x] = {}
        BY <2>3 DEF ExportInv, ExportTypes, Progress
      <3>2. \A k \in Nodes \ {Home[x]} :
               k \in todo[x] \/ k \in failed[x] \/ k \in whole[x]
        BY <2>3 DEF ExportInv, Progress
      <3> QED
        BY <2>1, <2>3, <3>1, <3>2 DEF Progress
    <2>5. \A y \in Exports : y # x => Progress(y)'
      <3>1. \A y \in Exports : y # x =>
              /\ beyond'[y] = beyond[y] /\ beyond[y] \in Int /\ at'[y] = at[y]
              /\ todo'[y] = todo[y] /\ wanted'[y] = wanted[y]
        BY <2>3 DEF ExportInv, ExportTypes
      <3> QED
        BY <2>3, <3>1 DEF ExportInv, Progress
    <2> QED
      BY <2>2, <2>4, <2>5 DEF ExportInv
  <1>2. ASSUME NEW m \in Nodes, FetchPage(x, m)
        PROVE  ExportInv'
    <2>1. PageLimit \in Nat
      BY PageLimitAssumption
    <2>2. /\ at[x] = {m} /\ beyond[x] > PageLimit
          /\ beyond' = [GrownBySelf(m) EXCEPT ![x] = @ - PageLimit]
          /\ wanted' = [wanted EXCEPT ![x] = AtLeastZero(@ - PageLimit)]
          /\ UNCHANGED <<step, at, todo, whole, failed, missed>>
      BY <1>2 DEF FetchPage, HasNext
    <2>3. /\ GrownBySelf(m) \in [Exports -> Int]
          /\ \A y \in Exports : beyond[y] =< GrownBySelf(m)[y]
      BY LogsGrow DEF ExportInv
    <2>4. ExportTypes'
      BY <2>1, <2>2, <2>3 DEF ExportInv, ExportTypes, AtLeastZero
    <2>5. Progress(x)'
      <3>1. /\ beyond'[x] = GrownBySelf(m)[x] - PageLimit
            /\ wanted'[x] = AtLeastZero(wanted[x] - PageLimit)
        BY <2>2, <2>3 DEF ExportInv, ExportTypes
      <3>2. wanted'[x] =< beyond'[x]
        BY <2>1, <2>2, <2>3, <3>1 DEF ExportInv, ExportTypes, Progress, AtLeastZero
      <3> QED
        BY <2>2, <3>2 DEF ExportInv, Progress
    <2>6. \A y \in Exports : y # x => Progress(y)'
      BY <2>2, <2>3, OthersProgress DEF ExportInv, ExportTypes
    <2> QED
      BY <2>4, <2>5, <2>6 DEF ExportInv
  <1>3. ASSUME NEW m \in Nodes, FetchLastPage(x, m)
        PROVE  ExportInv'
    <2>1. /\ at[x] = {m} /\ beyond[x] =< PageLimit
          /\ beyond' = [GrownBySelf(m) EXCEPT ![x] = 0]
          /\ wanted' = [wanted EXCEPT ![x] = 0]
          /\ whole' = [whole EXCEPT ![x] = @ \cup {m}]
          /\ missed' = [missed EXCEPT ![x] = IF wanted[x] > PageLimit THEN @ \cup {m} ELSE @]
          /\ at' = [at EXCEPT ![x] = {}]
          /\ UNCHANGED <<step, todo, failed>>
      BY <1>3, PageLimitAssumption DEF FetchLastPage, HasNext, Leave, ExportInv, ExportTypes
    <2>2. /\ GrownBySelf(m) \in [Exports -> Int]
          /\ \A y \in Exports : beyond[y] =< GrownBySelf(m)[y]
      BY LogsGrow DEF ExportInv
    <2>3. ExportTypes'
      BY <2>1, <2>2 DEF ExportInv, ExportTypes
    <2>4. ~(wanted[x] > PageLimit)
      BY <2>1, PageLimitAssumption DEF ExportInv, ExportTypes, Progress
    <2>5. Progress(x)'
      <3>1. /\ at'[x] = {} /\ beyond'[x] = 0 /\ wanted'[x] = 0
            /\ whole'[x] = whole[x] \cup {m} /\ missed'[x] = {}
        BY <2>1, <2>2, <2>4 DEF ExportInv, ExportTypes, Progress
      <3>2. step[x] # "answered"
        BY <2>1 DEF ExportInv, Progress
      <3> QED
        BY <2>1, <3>1, <3>2 DEF ExportInv, Progress
    <2>6. \A y \in Exports : y # x => Progress(y)'
      BY <2>1, <2>2, OthersProgress DEF ExportInv, ExportTypes
    <2> QED
      BY <2>3, <2>5, <2>6 DEF ExportInv
  <1>4. ASSUME NEW m \in Nodes, FailPage(x, m)
        PROVE  ExportInv'
    <2>1. PICK b \in {beyond, GrownBySelf(m)} : beyond' = [b EXCEPT ![x] = 0]
      BY <1>4 DEF FailPage
    <2>2. b \in [Exports -> Int] /\ \A y \in Exports : beyond[y] =< b[y]
      BY LogsGrow DEF ExportInv, ExportTypes
    <2>3. /\ at[x] = {m} /\ at' = [at EXCEPT ![x] = {}] /\ wanted' = [wanted EXCEPT ![x] = 0]
          /\ failed' = [failed EXCEPT ![x] = @ \cup {m}]
          /\ UNCHANGED <<step, todo, whole, missed>>
      BY <1>4 DEF FailPage, Leave
    <2>4. ExportTypes'
      BY <2>1, <2>2, <2>3 DEF ExportInv, ExportTypes
    <2>5. Progress(x)'
      BY <2>1, <2>2, <2>3 DEF ExportInv, ExportTypes, Progress
    <2>6. \A y \in Exports : y # x => Progress(y)'
      BY <2>1, <2>2, <2>3, OthersProgress DEF ExportInv, ExportTypes
    <2> QED
      BY <2>4, <2>5, <2>6 DEF ExportInv
  <1>5. ASSUME Answer(x)
        PROVE  ExportInv'
    <2>1. /\ at[x] = {} /\ todo[x] = {} /\ beyond' = GrownBySelf(Home[x])
          /\ step' = [step EXCEPT ![x] = "answered"]
          /\ UNCHANGED <<at, todo, wanted, whole, failed, missed>>
      BY <1>5 DEF Answer
    <2>2. beyond' \in [Exports -> Int] /\ \A y \in Exports : beyond[y] =< beyond'[y]
      BY <2>1, LogsGrow DEF ExportInv
    <2>3. ExportTypes'
      BY <2>1, <2>2 DEF ExportInv, ExportTypes
    <2>4. Progress(x)'
      BY <2>1, <2>2 DEF ExportInv, ExportTypes, Progress
    <2>5. \A y \in Exports : y # x => Progress(y)'
      BY <2>1, <2>2, OthersProgress DEF ExportInv, ExportTypes
    <2> QED
      BY <2>3, <2>4, <2>5 DEF ExportInv
  <1> QED
    BY <1>1, <1>2, <1>3, <1>4, <1>5 DEF Handle

LEMMA ExportsStep == ExportInv /\ [ExportNext]_clusterVars => ExportInv'
  <1> SUFFICES ASSUME ExportInv, [ExportNext]_clusterVars
               PROVE  ExportInv'
    OBVIOUS
  <1>1. ASSUME NEW x \in Exports, Start(x)
        PROVE  ExportInv'
    BY <1>1 DEF Start, ExportInv, ExportTypes, Progress
  <1>2. ASSUME NEW m \in Nodes, OtherRecord(m)
        PROVE  ExportInv'
    <2>1. beyond' \in [Exports -> Int] /\ \A y \in Exports : beyond[y] =< beyond'[y]
      BY <1>2, LogsGrow DEF OtherRecord, ExportInv
    <2> QED
      BY <1>2, <2>1 DEF OtherRecord, ExportInv, ExportTypes, Progress
  <1>3. ASSUME UNCHANGED exportVars
        PROVE  ExportInv'
    BY <1>3 DEF exportVars, ExportInv, ExportTypes, Progress
  <1> QED
    BY <1>1, <1>2, <1>3, HandleKeepsExports DEF ExportNext, clusterVars

-----------------------------------------------------------------------------
(* A client that asks for the pages of the merged logs *)

Below(S, q) == Cardinality({r \in S : r < q})

LEMMA PlacesFinite == IsFiniteSet(Places)
  BY LimitAssumption, FS_Interval DEF Places

LEMMA BelowGrows ==
  ASSUME NEW T \in SUBSET Places, NEW S \in SUBSET T, NEW q
  PROVE  Below(S, q) \in Nat /\ Below(T, q) \in Nat /\ Below(S, q) =< Below(T, q)
  <1>1. IsFiniteSet(Places)
    BY PlacesFinite
  <1>2. IsFiniteSet({r \in T : r < q}) /\ {r \in S : r < q} \subseteq {r \in T : r < q}
    BY <1>1, FS_Subset
  <1> QED
    BY <1>2, FS_Subset, FS_CardinalityType DEF Below

\* Among the records of a result the place of one is less than their number.
LEMMA BelowIsAPlace ==
  ASSUME NEW T \in SUBSET Places, NEW q \in T
  PROVE  Below(T, q) < Cardinality(T) /\ Cardinality(T) \in Nat
  <1>1. IsFiniteSet(T)
    BY PlacesFinite, FS_Subset
  <1>2. {r \in T : r < q} \subseteq T \ {q}
    BY LimitAssumption DEF Places
  <1>3. IsFiniteSet(T \ {q}) /\ Cardinality(T \ {q}) = Cardinality(T) - 1
    BY <1>1, FS_RemoveElement
  <1>4. Cardinality({r \in T : r < q}) =< Cardinality(T \ {q})
    BY <1>2, <1>3, FS_Subset
  <1> QED
    BY <1>1, <1>2, <1>3, <1>4, FS_Subset, FS_CardinalityType DEF Below

(***************************************************************************)
(* The inductive invariant: what the next page will be cut out of holds    *)
(* every record of the first result, and those that were not delivered yet *)
(* lie at the offset or beyond: records that come in between only move     *)
(* them further.                                                           *)
(***************************************************************************)
Coming == IF page = "reading" THEN merged \cup UNION {logs[n] : n \in unread} ELSE Taken

PagesInv ==
  /\ logs \in [Nodes -> SUBSET Places]
  /\ page \in {"idle", "reading", "done"}
  /\ unread \subseteq Nodes /\ (page # "reading" => unread = {})
  /\ merged \subseteq Taken /\ offered \subseteq Places
  /\ offset \in Nat /\ asked \in BOOLEAN /\ pageErrors \in Nat
  /\ ~asked => offset = 0 /\ offered = {} /\ page # "done"
  /\ page # "done" /\ pageErrors = 0 =>
       /\ offered \subseteq Coming
       /\ \A q \in offered \ delivered : offset =< Below(Coming, q)
  /\ PagesMissNothing

LEMMA PagesStart == ExportInit => PagesInv
  <1> SUFFICES ASSUME ExportInit
               PROVE  PagesInv
    OBVIOUS
  <1>1. /\ page = "idle" /\ unread = {} /\ merged = {} /\ offset = 0 /\ asked = FALSE
        /\ offered = {} /\ pageErrors = 0
    BY DEF ExportInit, PagesInit
  <1>2. logs \in [Nodes -> SUBSET Places]
    BY DEF ExportInit, PagesInit
  <1> QED
    BY <1>1, <1>2 DEF PagesInv, PagesMissNothing

LEMMA RecordedGrows ==
  ASSUME PagesInv, NEW n \in Nodes, Recorded(n)
  PROVE  /\ logs' \in [Nodes -> SUBSET Places]
         /\ \A m \in Nodes : logs[m] \subseteq logs'[m] /\ (m # n => logs'[m] = logs[m])
         /\ Taken \subseteq Taken'
  <1>1. /\ logs' \in [Nodes -> SUBSET Places]
        /\ \A m \in Nodes : logs[m] \subseteq logs'[m] /\ (m # n => logs'[m] = logs[m])
    BY DEF PagesInv, Recorded
  <1> QED
    BY <1>1 DEF Taken

\* When what is coming only grows, the invariant stays.
LEMMA MoreComing ==
  ASSUME PagesInv, page # "done", page' \in {"idle", "reading"},
         logs' \in [Nodes -> SUBSET Places],
         unread' \subseteq Nodes, page' # "reading" => unread' = {},
         merged' \subseteq Taken',
         UNCHANGED <<offset, asked, offered, delivered>>, pageErrors' \in Nat,
         pageErrors' = 0 => pageErrors = 0 /\ Coming \subseteq Coming'
  PROVE  PagesInv'
  <1>1. Coming' \subseteq Places
    BY DEF Coming, Taken
  <1>2. ASSUME pageErrors' = 0
        PROVE  /\ offered \subseteq Coming'
               /\ \A q \in offered \ delivered : offset =< Below(Coming', q)
    <2>1. /\ offered \subseteq Coming /\ Coming \subseteq Coming' /\ offset \in Nat
          /\ \A q \in offered \ delivered : offset =< Below(Coming, q)
      BY <1>2 DEF PagesInv
    <2>2. \A q : /\ Below(Coming, q) \in Nat /\ Below(Coming', q) \in Nat
                 /\ Below(Coming, q) =< Below(Coming', q)
      BY <1>1, <2>1, BelowGrows
    <2> QED
      BY <2>1, <2>2
  <1>3. \A q : Below(Coming, q)' = Below(Coming', q)
    BY DEF Below
  <1> QED
    BY <1>2, <1>3 DEF PagesInv, PagesMissNothing

LEMMA ServeKeepsPages ==
  ASSUME PagesInv, ServePage
  PROVE  PagesInv'
  <1>1. /\ page = "reading" /\ unread = {} /\ unread' = {} /\ merged' = {} /\ pageErrors' = pageErrors
        /\ delivered' = delivered \cup Paged /\ asked' = TRUE
        /\ offered' = IF asked THEN offered ELSE merged
        /\ page' = IF HasMore THEN "idle" ELSE "done"
        /\ offset' = IF HasMore THEN offset + Limit ELSE offset
        /\ logs' \in [Nodes -> SUBSET Places]
        /\ \A m \in Nodes : logs[m] \subseteq logs'[m]
    BY RecordedGrows, ReaderAssumption DEF ServePage
  <1>2. /\ Coming = merged /\ merged \subseteq Places /\ offset \in Nat /\ Limit \in Nat
    <2>1. Coming = merged
      BY <1>1 DEF Coming
    <2>2. merged \subseteq Places
      BY DEF PagesInv, Taken
    <2> QED
      BY <2>1, <2>2, LimitAssumption DEF PagesInv
  <1>3. offered' \subseteq Places /\ offset' \in Nat /\ page' \in {"idle", "done"}
    BY <1>1, <1>2 DEF PagesInv
  <1>4. ASSUME pageErrors = 0
        PROVE  /\ offered' \subseteq merged
               /\ \A q \in offered' \ delivered' : offset + Limit =< Below(merged, q)
    <2>1. offered' \subseteq merged
      BY <1>1, <1>2, <1>4 DEF PagesInv
    <2>2. \A q \in merged : Below(merged, q) \in Nat /\ (q \notin Paged =>
                            Below(merged, q) < offset \/ Below(merged, q) >= offset + Limit)
      <3>1. \A q \in merged : Below(merged, q) \in Nat
        BY <1>2, BelowGrows
      <3>2. \A q \in merged : q \notin Paged => Below(merged, q) \notin offset .. offset + Limit - 1
        BY DEF Paged, IndexOf, Below
      <3> QED
        BY <1>2, <3>1, <3>2
    <2>3. \A q \in offered' \ delivered' : offset =< Below(merged, q)
      <3>1. CASE asked
        BY <1>1, <1>2, <1>4, <3>1 DEF PagesInv
      <3>2. CASE ~asked
        BY <1>1, <1>2, <2>1, <2>2, <3>2 DEF PagesInv
      <3> QED
        BY <3>1, <3>2
    <2> QED
      BY <1>1, <1>2, <2>1, <2>2, <2>3
  <1>5. ASSUME HasMore, pageErrors = 0
        PROVE  /\ offered' \subseteq Taken'
               /\ \A q \in offered' \ delivered' : offset' =< Below(Taken', q)
    <2>1. merged \subseteq Taken' /\ Taken' \subseteq Places
      BY <1>1, RecordedGrows, ReaderAssumption DEF ServePage, PagesInv, Taken
    <2>2. \A q : /\ Below(merged, q) \in Nat /\ Below(Taken', q) \in Nat
                 /\ Below(merged, q) =< Below(Taken', q)
      BY <2>1, BelowGrows
    <2> QED
      BY <1>1, <1>2, <1>4, <1>5, <2>1, <2>2
  <1>6. ASSUME ~HasMore, pageErrors = 0
        PROVE  offered' \subseteq delivered'
    <2>1. \A q \in merged : Below(merged, q) < Cardinality(merged) /\ Cardinality(merged) \in Nat
                           /\ Below(merged, q) \in Nat
      BY <1>2, BelowIsAPlace, BelowGrows
    <2>2. \A q \in merged : ~(offset + Limit =< Below(merged, q))
      BY <1>2, <1>6, <2>1 DEF HasMore
    <2> QED
      BY <1>4, <1>6, <2>2
  <1>7. Coming' = Taken' /\ \A q : Below(Taken, q)' = Below(Taken', q)
    BY <1>1 DEF Coming, Below
  <1>8. CASE HasMore
    BY <1>1, <1>3, <1>5, <1>7, <1>8 DEF PagesInv, PagesMissNothing, Below
  <1>9. CASE ~HasMore
    BY <1>1, <1>3, <1>6, <1>9 DEF PagesInv, PagesMissNothing
  <1> QED
    BY <1>8, <1>9

LEMMA PagesStep == PagesInv /\ [ExportNext]_clusterVars => PagesInv'
  <1> SUFFICES ASSUME PagesInv, [ExportNext]_clusterVars
               PROVE  PagesInv'
    OBVIOUS
  <1>1. CASE AskPage
    <2>1. /\ page = "idle" /\ page' = "reading" /\ merged' = logs[Reader]
          /\ unread' = Nodes \ {Reader} /\ logs' = logs
          /\ UNCHANGED <<offset, asked, offered, delivered, pageErrors>>
      BY <1>1 DEF AskPage
    <2>2. Coming = Taken /\ Coming' = Taken /\ merged' \subseteq Taken'
      BY <2>1, ReaderAssumption DEF Coming, Taken
    <2> QED
      BY <2>1, <2>2, MoreComing DEF PagesInv
  <1>2. ASSUME NEW m \in Nodes, ReadPeer(m)
        PROVE  PagesInv'
    <2>1. /\ page = "reading" /\ page' = "reading" /\ m \in unread
          /\ unread' = unread \ {m} /\ merged' = merged \cup logs[m] /\ Recorded(m)
          /\ UNCHANGED <<offset, asked, offered, delivered, pageErrors>>
      BY <1>2 DEF ReadPeer, PagesInv
    <2>2. /\ logs' \in [Nodes -> SUBSET Places]
          /\ \A k \in Nodes : k # m => logs'[k] = logs[k]
          /\ Taken \subseteq Taken'
      BY <2>1, RecordedGrows
    <2>3. merged' \subseteq Taken' /\ unread' \subseteq Nodes
      BY <2>1, <2>2 DEF PagesInv, Taken
    <2>4. Coming \subseteq Coming'
      BY <2>1, <2>2, <2>3 DEF Coming, PagesInv
    <2> QED
      BY <2>1, <2>2, <2>3, <2>4, MoreComing DEF PagesInv
  <1>3. ASSUME NEW m \in Nodes, MissPeer(m)
        PROVE  PagesInv'
    <2>1. /\ page = "reading" /\ page' = "reading" /\ unread' = unread \ {m}
          /\ merged' = merged /\ Recorded(m) /\ pageErrors' = pageErrors + 1
          /\ UNCHANGED <<offset, asked, offered, delivered>>
      BY <1>3 DEF MissPeer, PagesInv
    <2>2. /\ logs' \in [Nodes -> SUBSET Places] /\ merged' \subseteq Taken'
          /\ unread' \subseteq Nodes
      BY <2>1, RecordedGrows DEF PagesInv
    <2>3. pageErrors' \in Nat /\ pageErrors' # 0
      BY <2>1 DEF PagesInv
    <2> QED
      BY <2>1, <2>2, <2>3, MoreComing
  <1>4. ASSUME NEW n \in Nodes, RecordOther(n)
        PROVE  PagesInv'
    <2>1. /\ page # "done" /\ Recorded(n)
          /\ UNCHANGED <<page, unread, merged, offset, asked, offered, delivered, pageErrors>>
      BY <1>4 DEF RecordOther
    <2>2. /\ logs' \in [Nodes -> SUBSET Places] /\ \A k \in Nodes : logs[k] \subseteq logs'[k]
          /\ Taken \subseteq Taken'
      BY <2>1, RecordedGrows
    <2>3. Coming \subseteq Coming'
      BY <2>1, <2>2 DEF Coming, PagesInv
    <2> QED
      BY <2>1, <2>2, <2>3, MoreComing DEF PagesInv
  <1>5. CASE UNCHANGED pageVars
    BY <1>5 DEF pageVars, PagesInv, PagesMissNothing, Coming, Taken, Below
  <1> QED
    BY <1>1, <1>2, <1>3, <1>4, <1>5, ServeKeepsPages DEF ExportNext, PagesNext, Handle, clusterVars

-----------------------------------------------------------------------------
(* Theorems *)

\* The two inductive invariants hold in every reachable state.
THEOREM ExportInvariance == ExportSpec => [](ExportInv /\ PagesInv)
  <1>1. ExportInv /\ PagesInv /\ [ExportNext]_clusterVars => (ExportInv /\ PagesInv)'
    BY ExportsStep, PagesStep
  <1> QED
    BY ExportsBegin, PagesStart, <1>1, PTL DEF ExportSpec

\* When an export is answered, each peer is listed as an error or is there with
\* every record its log held when the export reached it, for logs of every length
\* that grow at any moment (fetchPeerAuditEvents, paginateAuditEvents).
THEOREM ExportsAreComplete == ExportSpec => []ExportIsComplete
  <1>1. ExportInv => ExportIsComplete
    BY DEF ExportInv, Progress, ExportIsComplete
  <1> QED
    BY ExportInvariance, <1>1, PTL

\* A client that followed the cursors to the end was given every record there was
\* for the first page, as long as every peer answered for every page, for pages of
\* every length (masterAuditClusterExport, paginateClusterAuditRecords).
THEOREM PagesAreComplete == ExportSpec => []PagesMissNothing
  <1>1. PagesInv => PagesMissNothing
    BY DEF PagesInv
  <1> QED
    BY ExportInvariance, <1>1, PTL

=============================================================================
