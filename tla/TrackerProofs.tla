----------------------------- MODULE TrackerProofs -----------------------------
(***************************************************************************)
(* The safety of Tracker for every set of nodes, issues and users, clocks  *)
(* set apart in any way and set anew, back as well, at any moment, and any *)
(* number of events and offboardings: what handlers in flight may have     *)
(* signed, and that the replay of a board is the same wherever the same    *)
(* events arrived.                                                         *)
(***************************************************************************)
EXTENDS Tracker, FiniteSetTheorems, TLAPS

Handlers == [step : {"idle", "read", "choose", "sign", "append"},
             next : Users \cup {Nobody}, seen : SUBSET Events,
             issues : SUBSET Issues, left : SUBSET Issues, event : SUBSET Events]

TypeInv ==
  /\ log \in [Nodes -> Seq(Events)]
  /\ now \in Nat
  /\ ahead \in [Nodes -> Int]
  /\ active \in [Nodes -> SUBSET Users]
  /\ checked \in [Nodes -> SUBSET (Issues \X (Users \cup {Nobody}))]
  /\ signed \in [Nodes -> SUBSET Events]
  /\ off \in [Nodes -> [Users -> Handlers]]
  /\ done \subseteq [node : Nodes, user : Users, seen : SUBSET Events, issues : SUBSET Issues]

\* What the clock of a node reads.
Clock(n) == now + ahead[n]

\* Each file ascends, and each row is one its signer holds; the rows of a signer
\* whose clock was never set back are in the order of their times.
LogInv ==
  \A n \in Nodes :
    /\ Ascends(log[n]) /\ InTime(Rows(log[n]), stepped)
    /\ \A e \in Rows(log[n]) :
         /\ e \in Rows(log[e.signer])
         /\ e.signer \notin stepped => e.time =< Clock(e.signer)

\* An event that was signed and not appended yet has at most the next number of
\* its node, and was signed no earlier than the rows that come before it, unless
\* the clock was set back.
Follows(n, e) ==
  /\ e.signer = n /\ e.seq =< NextSeq(n)
  /\ n \notin stepped =>
       /\ e.time =< Clock(n)
       /\ \A f \in Rows(log[n]) : f.signer = n /\ f.seq < e.seq => f.time =< e.time

PendingInv ==
  \A n \in Nodes :
    /\ \A e \in signed[n] : Follows(n, e)
    /\ \A u \in Users : \A e \in off[n][u].event : Follows(n, e)

\* Every task of an offboarding is left, or has its event.
HandedOn(rows, n, seen, i) ==
  \E e \in rows \ seen : e.signer = n /\ e.issue = i /\ e.type = "reassign"

OffInv ==
  \A n \in Nodes, u \in Users :
    /\ off[n][u].seen \subseteq Rows(log[n])
    /\ \A i \in off[n][u].issues \ off[n][u].left :
         HandedOn(Rows(log[n]), n, off[n][u].seen, i)
    /\ \A e \in off[n][u].event : e.type = "reassign"

IInv == TypeInv /\ LogInv /\ PendingInv /\ OffInv /\ OffboardIsComplete

-----------------------------------------------------------------------------
(* Files of events *)

LEMMA FileTypes ==
  ASSUME NEW file \in Seq(Events)
  PROVE  /\ Len(file) \in Nat /\ DOMAIN file = 1 .. Len(file)
         /\ IsFiniteSet(DOMAIN file) /\ Cardinality(DOMAIN file) = Len(file)
         /\ \A k \in DOMAIN file : file[k] \in Events
         /\ \A s : /\ IsFiniteSet({k \in DOMAIN file : file[k].signer = s})
                   /\ Count(file, s) \in Nat
  <1>1. /\ Len(file) \in Nat /\ DOMAIN file = 1 .. Len(file)
        /\ \A k \in DOMAIN file : file[k] \in Events
    OBVIOUS
  <1>2. IsFiniteSet(DOMAIN file) /\ Cardinality(DOMAIN file) = Len(file)
    BY <1>1, FS_Interval
  <1>3. ASSUME NEW s
        PROVE  /\ IsFiniteSet({k \in DOMAIN file : file[k].signer = s})
               /\ Count(file, s) \in Nat
    <2>1. {k \in DOMAIN file : file[k].signer = s} \in SUBSET DOMAIN file
      OBVIOUS
    <2>2. IsFiniteSet({k \in DOMAIN file : file[k].signer = s})
      BY <1>2, <2>1, FS_Subset
    <2> QED
      BY <2>2, FS_CardinalityType DEF Count
  <1> QED
    BY <1>1, <1>2, <1>3

LEMMA AppendRows ==
  ASSUME NEW file \in Seq(Events), NEW e \in Events
  PROVE  /\ Append(file, e) \in Seq(Events)
         /\ Rows(Append(file, e)) = Rows(file) \cup {e}
         /\ \A s : Count(Append(file, e), s)
                     = Count(file, s) + (IF e.signer = s THEN 1 ELSE 0)
  <1> DEFINE longer == Append(file, e)
             K(s) == {k \in DOMAIN file : file[k].signer = s}
             top == Len(file) + 1
  <1>1. /\ longer \in Seq(Events) /\ Len(file) \in Nat /\ DOMAIN file = 1 .. Len(file)
        /\ DOMAIN longer = DOMAIN file \cup {top} /\ top \notin DOMAIN file
        /\ \A k \in DOMAIN file : longer[k] = file[k]
        /\ longer[top] = e
    OBVIOUS
  <1> HIDE DEF longer, top
  <1>2. Rows(longer) = Rows(file) \cup {e}
    BY <1>1 DEF Rows
  <1>3. ASSUME NEW s
        PROVE  Count(longer, s) = Count(file, s) + (IF e.signer = s THEN 1 ELSE 0)
    <2>1. IsFiniteSet(K(s)) /\ top \notin K(s) /\ Count(file, s) = Cardinality(K(s))
          /\ Count(file, s) \in Nat
      BY <1>1, FileTypes DEF Count
    <2>2. {k \in DOMAIN longer : longer[k].signer = s}
            = IF e.signer = s THEN K(s) \cup {top} ELSE K(s)
      BY <1>1
    <2>3. Cardinality(K(s) \cup {top}) = Cardinality(K(s)) + 1
      BY <2>1, FS_AddElement
    <2>4. Count(longer, s) = Cardinality(IF e.signer = s THEN K(s) \cup {top} ELSE K(s))
      BY <2>2 DEF Count
    <2> HIDE DEF K
    <2>5. CASE e.signer = s
      BY <2>1, <2>3, <2>4, <2>5
    <2>6. CASE e.signer # s
      BY <2>1, <2>4, <2>6
    <2> QED
      BY <2>5, <2>6
  <1> QED
    BY <1>1, <1>2, <1>3 DEF longer

\* A row that carries the next number of its signer keeps the order.
LEMMA AppendAscends ==
  ASSUME NEW file \in Seq(Events), Ascends(file), NEW e \in Events,
         e.seq = Count(file, e.signer) + 1
  PROVE  /\ Ascends(Append(file, e))
         /\ e \notin Rows(file)
         /\ \A f \in Rows(file) : f.signer = e.signer => f.seq < e.seq
  <1> DEFINE longer == Append(file, e)
             top == Len(file) + 1
  <1>1. /\ Len(file) \in Nat /\ DOMAIN file = 1 .. Len(file)
        /\ DOMAIN longer = DOMAIN file \cup {top}
        /\ \A k \in DOMAIN file : longer[k] = file[k] /\ k < top /\ k \in Nat
        /\ longer[top] = e /\ top \in Nat
    OBVIOUS
  <1> HIDE DEF longer, top
  <1>2. \A s : /\ Count(longer, s) = Count(file, s) + (IF e.signer = s THEN 1 ELSE 0)
               /\ Count(file, s) \in Nat
    BY AppendRows, FileTypes DEF longer
  <1>3. \A k \in DOMAIN file : /\ file[k] \in Events /\ file[k] \in Rows(file)
                               /\ file[k].seq =< Count(file, file[k].signer)
    BY FileTypes DEF Ascends, Rows
  <1>4. \A k \in DOMAIN file : file[k].signer = e.signer => file[k].seq < e.seq
    BY <1>2, <1>3 DEF Events
  <1>5. \A k \in DOMAIN longer : longer[k].seq =< Count(longer, longer[k].signer)
    <2>1. ASSUME NEW k \in DOMAIN file
          PROVE  longer[k].seq =< Count(longer, longer[k].signer)
      <3>1. longer[k].signer = file[k].signer /\ longer[k].seq = file[k].seq
        BY <1>1
      <3>2. file[k].seq \in Nat /\ file[k].seq =< Count(file, file[k].signer)
        BY <1>3 DEF Events
      <3> QED
        BY <1>2, <3>1, <3>2
    <2>2. longer[top].seq =< Count(longer, longer[top].signer)
      BY <1>1, <1>2 DEF Events
    <2> QED
      BY <1>1, <2>1, <2>2
  <1>6. \A j, k \in DOMAIN longer :
          longer[j].signer = longer[k].signer /\ j < k => longer[j].seq < longer[k].seq
    BY <1>1, <1>4 DEF Ascends
  <1>7. Ascends(longer)
    BY <1>5, <1>6 DEF Ascends
  <1>8. \A f \in Rows(file) : f.signer = e.signer => f.seq < e.seq
    BY <1>4 DEF Rows
  <1> QED
    BY <1>7, <1>8 DEF longer, Events

\* No row is there twice: the rows of a signer are as many as their places.
LEMMA RowsOnce ==
  ASSUME NEW file \in Seq(Events), Ascends(file)
  PROVE  /\ \A j, k \in DOMAIN file :
              file[j].signer = file[k].signer /\ file[j].seq = file[k].seq => j = k
         /\ \A s : Cardinality({f \in Rows(file) : f.signer = s}) = Count(file, s)
  <1>1. \A j, k \in DOMAIN file :
          file[j].signer = file[k].signer /\ file[j].seq = file[k].seq => j = k
    <2>1. \A k \in DOMAIN file : k \in Nat /\ file[k].seq \in Nat
      <3>1. \A k \in DOMAIN file : file[k] \in Events /\ k \in Nat
        OBVIOUS
      <3> QED
        BY <3>1 DEF Events
    <2>2. \A j, k \in DOMAIN file :
            file[j].signer = file[k].signer /\ j < k => file[j].seq < file[k].seq
      BY DEF Ascends
    <2> QED
      BY <2>1, <2>2
  <1>2. ASSUME NEW s
        PROVE  Cardinality({f \in Rows(file) : f.signer = s}) = Count(file, s)
    <2> DEFINE K == {k \in DOMAIN file : file[k].signer = s}
               R == {f \in Rows(file) : f.signer = s}
               at == [k \in K |-> file[k]]
    <2>1. at \in Injection(K, R)
      BY <1>1 DEF Rows, Injection, IsInjective
    <2>2. at \in Surjection(K, R)
      BY DEF Rows, Surjection
    <2>3. ExistsBijection(K, R)
      BY <2>1, <2>2 DEF Bijection, ExistsBijection
    <2>4. IsFiniteSet(K)
      BY FileTypes
    <2>5. Cardinality(R) = Cardinality(K)
      BY <2>3, <2>4, FS_Bijection
    <2> QED
      BY <2>5 DEF Count
  <1> QED
    BY <1>1, <1>2

-----------------------------------------------------------------------------
(* The sort of the replay *)

\* Before is a strict order, total on events that differ in signer or number.
LEMMA BeforeIsAnOrder ==
  ASSUME NEW a \in Events, NEW b \in Events, NEW c \in Events
  PROVE  /\ ~Before(a, a)
         /\ Before(a, b) => ~Before(b, a)
         /\ Before(a, b) /\ Before(b, c) => Before(a, c)
         /\ a.signer # b.signer \/ a.seq # b.seq => Before(a, b) \/ Before(b, a)
  <1>1. /\ a.time \in Int /\ b.time \in Int /\ c.time \in Int
        /\ a.signer \in Nat /\ b.signer \in Nat /\ c.signer \in Nat
        /\ a.seq \in Nat /\ b.seq \in Nat /\ c.seq \in Nat
    BY NodesAssumption DEF Events
  <1> QED
    BY <1>1 DEF Before

\* No two rows are equal to the sort, so the rows in front are those before.
LEMMA InFrontIsBefore ==
  ASSUME NEW file \in Seq(Events), Ascends(file)
  PROVE  /\ \A j, k \in DOMAIN file :
              j # k => Before(file[j], file[k]) \/ Before(file[k], file[j])
         /\ \A j, k \in DOMAIN file : InFront(file, j, k) <=> Before(file[j], file[k])
  <1>1. \A k \in DOMAIN file : file[k] \in Events /\ k \in Nat
    OBVIOUS
  <1>2. \A j, k \in DOMAIN file :
          j # k => Before(file[j], file[k]) \/ Before(file[k], file[j])
    BY <1>1, RowsOnce, BeforeIsAnOrder
  <1>3. \A j, k \in DOMAIN file : j < k => j # k
    BY <1>1
  <1> QED
    BY <1>2, <1>3 DEF InFront

\* Each row has a place of its own, and each place its row.
LEMMA Places ==
  ASSUME NEW file \in Seq(Events), Ascends(file)
  PROVE  /\ \A k \in DOMAIN file : Place(file, k) \in DOMAIN file
         /\ \A j, k \in DOMAIN file :
              Before(file[j], file[k]) <=> Place(file, j) < Place(file, k)
         /\ \A j, k \in DOMAIN file : Place(file, j) = Place(file, k) => j = k
         /\ \A p \in DOMAIN file : \E k \in DOMAIN file : Place(file, k) = p
  <1> DEFINE front(k) == {j \in DOMAIN file : InFront(file, j, k)}
             place == [k \in DOMAIN file |-> Place(file, k)]
  <1>1. /\ \A k \in DOMAIN file : file[k] \in Events
        /\ Len(file) \in Nat /\ DOMAIN file = 1 .. Len(file)
        /\ IsFiniteSet(DOMAIN file) /\ Cardinality(DOMAIN file) = Len(file)
    BY FileTypes
  <1>2. ASSUME NEW k \in DOMAIN file
        PROVE  /\ IsFiniteSet(front(k)) /\ Cardinality(front(k)) \in Nat
               /\ k \notin front(k) /\ Place(file, k) = Cardinality(front(k)) + 1
    <2>1. front(k) \in SUBSET DOMAIN file
      OBVIOUS
    <2>2. k \notin front(k)
      BY <1>1, InFrontIsBefore, BeforeIsAnOrder
    <2>3. IsFiniteSet(front(k))
      BY <1>1, <2>1, FS_Subset
    <2> QED
      BY <2>2, <2>3, FS_CardinalityType DEF Place
  <1>3. ASSUME NEW k \in DOMAIN file
        PROVE  Place(file, k) \in DOMAIN file
    <2>1. /\ front(k) \in SUBSET DOMAIN file /\ front(k) # DOMAIN file
      BY <1>2
    <2>2. /\ Cardinality(front(k)) =< Cardinality(DOMAIN file)
          /\ Cardinality(front(k)) # Cardinality(DOMAIN file)
      BY <1>1, <2>1, FS_Subset
    <2>3. Cardinality(front(k)) \in Nat /\ Place(file, k) = Cardinality(front(k)) + 1
      BY <1>2
    <2> HIDE DEF front
    <2>4. Cardinality(front(k)) < Len(file)
      BY <1>1, <2>2, <2>3
    <2> QED
      BY <1>1, <2>3, <2>4
  <1>4. ASSUME NEW j \in DOMAIN file, NEW k \in DOMAIN file, Before(file[j], file[k])
        PROVE  Place(file, j) < Place(file, k)
    <2>1. \A i \in DOMAIN file :
            Before(file[i], file[j]) => Before(file[i], file[k])
      BY <1>1, <1>4, BeforeIsAnOrder
    <2>2. front(j) \in SUBSET front(k) /\ j \in front(k) /\ j \notin front(j)
      BY <1>2, <1>4, <2>1, InFrontIsBefore
    <2>3. front(j) # front(k) /\ IsFiniteSet(front(k))
      BY <1>2, <2>2
    <2>4. /\ Cardinality(front(j)) =< Cardinality(front(k))
          /\ Cardinality(front(j)) # Cardinality(front(k))
      BY <2>2, <2>3, FS_Subset
    <2>5. /\ Cardinality(front(j)) \in Nat /\ Place(file, j) = Cardinality(front(j)) + 1
          /\ Cardinality(front(k)) \in Nat /\ Place(file, k) = Cardinality(front(k)) + 1
      BY <1>2
    <2> HIDE DEF front
    <2> QED
      BY <2>4, <2>5
  <1>5. ASSUME NEW j \in DOMAIN file, NEW k \in DOMAIN file, j # k
        PROVE  Place(file, j) # Place(file, k)
    <2>1. Before(file[j], file[k]) \/ Before(file[k], file[j])
      BY <1>5, InFrontIsBefore
    <2>2. Place(file, j) \in Nat /\ Place(file, k) \in Nat
      BY <1>1, <1>3
    <2> QED
      BY <1>4, <2>1, <2>2
  <1>6. ASSUME NEW j \in DOMAIN file, NEW k \in DOMAIN file, Place(file, j) < Place(file, k)
        PROVE  Before(file[j], file[k])
    <2>1. Place(file, j) \in Nat /\ Place(file, k) \in Nat
      BY <1>1, <1>3
    <2>2. j # k
      BY <1>6, <2>1
    <2>3. ~Before(file[k], file[j])
      BY <1>4, <1>6, <2>1
    <2> QED
      BY <2>2, <2>3, InFrontIsBefore
  <1>7. place \in Injection(DOMAIN file, DOMAIN file)
    BY <1>3, <1>5 DEF Injection, IsInjective
  <1>8. place \in Surjection(DOMAIN file, DOMAIN file)
    BY <1>1, <1>7, FS_Injection
  <1>9. \A p \in DOMAIN file : \E k \in DOMAIN file : Place(file, k) = p
    BY <1>8 DEF Surjection
  <1> QED
    BY <1>3, <1>4, <1>5, <1>6, <1>9

LEMMA ReplayedRows ==
  ASSUME NEW file \in Seq(Events), Ascends(file)
  PROVE  /\ DOMAIN Replayed(file) = DOMAIN file
         /\ \A p \in DOMAIN file : \E k \in DOMAIN file :
              Replayed(file)[p] = file[k] /\ Place(file, k) = p
  <1> DEFINE at(p) == CHOOSE k \in DOMAIN file : Place(file, k) = p
  <1>1. \A p \in DOMAIN file : at(p) \in DOMAIN file /\ Place(file, at(p)) = p
    BY Places
  <1>2. Replayed(file) = [p \in DOMAIN file |-> file[at(p)]]
    BY DEF Replayed
  <1> HIDE DEF at
  <1> QED
    BY <1>1, <1>2

\* The replay keeps the order of each signer whose times never go back.
LEMMA ReplayKeepsSigners ==
  ASSUME NEW file \in Seq(Events), Ascends(file), NEW signers, InTime(Rows(file), signers),
         NEW p \in DOMAIN file, NEW q \in DOMAIN file, p < q,
         Replayed(file)[p].signer = Replayed(file)[q].signer,
         Replayed(file)[p].signer \notin signers
  PROVE  Replayed(file)[p].seq < Replayed(file)[q].seq
  <1>1. PICK j \in DOMAIN file : Replayed(file)[p] = file[j] /\ Place(file, j) = p
    BY ReplayedRows
  <1>2. PICK k \in DOMAIN file : Replayed(file)[q] = file[k] /\ Place(file, k) = q
    BY ReplayedRows
  <1>3. Before(file[j], file[k]) /\ file[j].signer = file[k].signer
    BY <1>1, <1>2, Places
  <1>4. file[j] \in Events /\ file[k] \in Events /\ j \in Nat /\ k \in Nat
    OBVIOUS
  <1>5. ~Before(file[k], file[j]) /\ ~Before(file[j], file[j])
    BY <1>3, <1>4, BeforeIsAnOrder
  <1>6. /\ j < k => file[j].seq < file[k].seq
        /\ k < j => file[k].seq < file[j].seq /\ file[k].time =< file[j].time
    <2>1. file[j] \in Rows(file) /\ file[k] \in Rows(file) /\ file[k].signer \notin signers
      BY <1>1, <1>3 DEF Rows
    <2>2. file[k].seq < file[j].seq => file[k].time =< file[j].time
      BY <1>3, <2>1 DEF InTime
    <2> QED
      BY <1>3, <2>2 DEF Ascends
  <1>7. ~(k < j)
    <2>1. /\ file[j].time \in Int /\ file[k].time \in Int
          /\ file[j].seq \in Nat /\ file[k].seq \in Nat
      BY <1>4 DEF Events
    <2>2. \/ file[j].time < file[k].time
          \/ file[j].time = file[k].time /\ file[j].signer < file[k].signer
          \/ file[j].time = file[k].time /\ file[j].seq < file[k].seq
      BY <1>3 DEF Before
    <2>3. file[j].signer \in Nat /\ file[j].signer = file[k].signer
      BY <1>3, <1>4, NodesAssumption DEF Events
    <2> QED
      BY <1>6, <2>1, <2>2, <2>3
  <1>8. j # k
    BY <1>3, <1>5
  <1> QED
    BY <1>1, <1>2, <1>4, <1>6, <1>7, <1>8

\* The place of a row depends on the rows alone, not on their order in the file.
LEMMA PlaceOfRow ==
  ASSUME NEW file \in Seq(Events), Ascends(file), NEW k \in DOMAIN file
  PROVE  Place(file, k) = Cardinality({f \in Rows(file) : Before(f, file[k])}) + 1
  <1> DEFINE J == {j \in DOMAIN file : InFront(file, j, k)}
             R == {f \in Rows(file) : Before(f, file[k])}
             at == [j \in J |-> file[j]]
  <1>1. J = {j \in DOMAIN file : Before(file[j], file[k])}
    BY InFrontIsBefore
  <1>2. IsFiniteSet(J)
    <2>1. J \in SUBSET DOMAIN file /\ IsFiniteSet(DOMAIN file)
      BY FileTypes
    <2> QED
      BY <2>1, FS_Subset
  <1>3. \A i, j \in DOMAIN file : file[i] = file[j] => i = j
    BY RowsOnce
  <1> HIDE DEF J
  <1>4. at \in Bijection(J, R)
    BY <1>1, <1>3 DEF Rows, Bijection, Injection, Surjection, IsInjective
  <1>5. Cardinality(R) = Cardinality(J)
    BY <1>2, <1>4, FS_Bijection DEF ExistsBijection
  <1> QED
    BY <1>5 DEF Place, J

\* Files with the same rows are replayed alike.
LEMMA ReplayConverges ==
  ASSUME NEW a \in Seq(Events), Ascends(a), NEW b \in Seq(Events), Ascends(b),
         Rows(a) = Rows(b)
  PROVE  Replayed(a) = Replayed(b)
  <1>1. ASSUME NEW file \in Seq(Events), Ascends(file)
        PROVE  Len(file) = Cardinality(Rows(file))
    <2> DEFINE at == [k \in DOMAIN file |-> file[k]]
    <2>1. IsFiniteSet(DOMAIN file) /\ Cardinality(DOMAIN file) = Len(file)
      BY FileTypes
    <2>2. \A j, k \in DOMAIN file : file[j] = file[k] => j = k
      BY <1>1, RowsOnce
    <2>3. at \in Bijection(DOMAIN file, Rows(file))
      BY <2>2 DEF Rows, Bijection, Injection, Surjection, IsInjective
    <2> QED
      BY <2>1, <2>3, FS_Bijection DEF ExistsBijection
  <1>2. DOMAIN a = DOMAIN b
    <2>1. Len(a) = Len(b) /\ DOMAIN a = 1 .. Len(a) /\ DOMAIN b = 1 .. Len(b)
      BY <1>1
    <2> QED
      BY <2>1
  <1>3. ASSUME NEW p \in DOMAIN a
        PROVE  Replayed(a)[p] = Replayed(b)[p]
    <2>1. PICK j \in DOMAIN a : Replayed(a)[p] = a[j] /\ Place(a, j) = p
      BY ReplayedRows
    <2>2. PICK k \in DOMAIN b : Replayed(b)[p] = b[k] /\ Place(b, k) = p
      BY <1>2, ReplayedRows
    <2>3. PICK i \in DOMAIN a : a[i] = b[k]
      <3>1. b[k] \in Rows(a)
        BY DEF Rows
      <3> QED
        BY <3>1 DEF Rows
    <2>4. Place(a, i) = Place(b, k)
      BY <2>3, PlaceOfRow
    <2>5. i = j
      BY <2>1, <2>2, <2>4, Places
    <2> QED
      BY <2>1, <2>2, <2>3, <2>5
  <1>4. /\ Replayed(a) = [p \in DOMAIN a |-> Replayed(a)[p]]
        /\ Replayed(b) = [p \in DOMAIN b |-> Replayed(b)[p]]
    BY DEF Replayed
  <1> QED
    BY <1>2, <1>3, <1>4

LEMMA SameBoard ==
  ASSUME NEW a, NEW b, Replayed(a) = Replayed(b)
  PROVE  Board(a) = Board(b)
  BY DEF Board

-----------------------------------------------------------------------------
(* What a write preserves *)

LEMMA RowOrder ==
  ASSUME NEW file \in Seq(Events), Ascends(file)
  PROVE  /\ Rows(file) \subseteq Events
         /\ \A f \in Rows(file) : f.seq =< Count(file, f.signer)
  <1>1. \A k \in DOMAIN file : file[k] \in Events
    OBVIOUS
  <1> QED
    BY <1>1 DEF Rows, Ascends

\* What a clock that was never set back reads does not grow less.
Onward ==
  /\ stepped \subseteq stepped'
  /\ \A n \in Nodes \ stepped' : Clock(n)' \in Int /\ Clock(n) =< Clock(n)'

LEMMA TimePasses ==
  ASSUME TypeInv, UNCHANGED clocks, now' \in {now, now + 1}
  PROVE  Onward
  <1>1. /\ ahead' = ahead /\ stepped' = stepped /\ now \in Nat
        /\ \A n \in Nodes : ahead[n] \in Int
    BY DEF clocks, TypeInv
  <1> QED
    BY <1>1 DEF Onward, Clock

\* What was signed and not appended still follows when time has passed.
LEMMA FollowsLater ==
  ASSUME TypeInv, NEW n \in Nodes, NEW e \in Events, Follows(n, e), Onward, log'[n] = log[n]
  PROVE  Follows(n, e)'
  <1>1. /\ Rows(log'[n]) = Rows(log[n]) /\ Count(log'[n], n) = Count(log[n], n)
        /\ e.time \in Int /\ Clock(n) \in Int
    BY DEF TypeInv, Events, Clock
  <1>2. n \notin stepped' => n \notin stepped /\ e.time =< Clock(n)'
    BY <1>1 DEF Follows, Onward
  <1> QED
    BY <1>1, <1>2 DEF Follows, NextSeq

LEMMA WriteKeeps ==
  ASSUME TypeInv, LogInv, UNCHANGED <<now, clocks>>, NEW n \in Nodes, NEW e \in Events,
         log' = [log EXCEPT ![n] = Append(@, e)],
         e.seq = Count(log[n], e.signer) + 1,
         e.signer \notin stepped =>
           /\ e.time =< Clock(e.signer)
           /\ \A f \in Rows(log[n]) : f.signer = e.signer => f.time =< e.time,
         e.signer = n \/ e \in Rows(log[e.signer])
  PROVE  /\ log' \in [Nodes -> Seq(Events)]
         /\ LogInv'
         /\ e \in Rows(log'[n]) /\ e \notin Rows(log[n])
         /\ \A m \in Nodes : Rows(log[m]) \subseteq Rows(log'[m])
         /\ \A m \in Nodes, p \in Events : Follows(m, p) => Follows(m, p)'
  <1>0. stepped' = stepped /\ \A m \in Nodes : Clock(m)' = Clock(m)
    BY DEF clocks, Clock
  <1>1. /\ log \in [Nodes -> Seq(Events)]
        /\ e.signer \in Nodes /\ e.seq \in Nat
    BY DEF TypeInv, Events
  <1>2. log[n] \in Seq(Events) /\ Ascends(log[n]) /\ InTime(Rows(log[n]), stepped)
    BY <1>1 DEF LogInv
  <1>3. /\ Append(log[n], e) \in Seq(Events) /\ Ascends(Append(log[n], e))
        /\ Rows(Append(log[n], e)) = Rows(log[n]) \cup {e}
        /\ e \notin Rows(log[n])
        /\ \A f \in Rows(log[n]) : f.signer = e.signer => f.seq < e.seq
        /\ \A s : /\ Count(Append(log[n], e), s)
                       = Count(log[n], s) + (IF e.signer = s THEN 1 ELSE 0)
                  /\ Count(log[n], s) \in Nat
    BY <1>2, AppendRows, AppendAscends, FileTypes
  <1>4. /\ log' \in [Nodes -> Seq(Events)]
        /\ \A m \in Nodes : log'[m] = IF m = n THEN Append(log[n], e) ELSE log[m]
    BY <1>1, <1>3
  <1>5. \A m \in Nodes : Rows(log'[m]) = Rows(log[m]) \cup (IF m = n THEN {e} ELSE {})
    BY <1>3, <1>4
  <1>6. LogInv'
    <2> SUFFICES ASSUME NEW m \in Nodes
                 PROVE  /\ Ascends(log'[m]) /\ InTime(Rows(log'[m]), stepped)
                        /\ \A f \in Rows(log'[m]) :
                             /\ f \in Rows(log'[f.signer])
                             /\ f.signer \notin stepped => f.time =< Clock(f.signer)'
      BY <1>0 DEF LogInv
    <2>1. Ascends(log'[m])
      BY <1>3, <1>4 DEF LogInv
    <2>3. InTime(Rows(log'[m]), stepped)
      <3>1. CASE m # n
        BY <1>5, <3>1 DEF LogInv
      <3>2. CASE m = n
        <4>1. \A f \in Rows(log[n]) : f \in Events
          BY <1>2, RowOrder
        <4>2. \A f \in Rows(log[n]) : f.seq \in Nat
          BY <4>1 DEF Events
        <4>3. \A f \in Rows(log[n]) : f.signer = e.signer => ~(e.seq < f.seq)
          BY <1>1, <1>3, <4>2
        <4>4. ~(e.seq < e.seq)
          BY <1>1
        <4>5. Rows(log'[m]) = Rows(log[n]) \cup {e}
          BY <1>5, <3>2
        <4> QED
          BY <1>2, <4>3, <4>4, <4>5 DEF InTime
      <3> QED
        BY <3>1, <3>2
    <2>2. ASSUME NEW f \in Rows(log'[m])
          PROVE  /\ f \in Rows(log'[f.signer])
                 /\ f.signer \notin stepped => f.time =< Clock(f.signer)'
      <3>1. CASE f = e
        BY <1>0, <1>1, <1>5, <3>1
      <3>2. CASE f \in Rows(log[m])
        <4>1. f \in Events
          BY <1>1, <3>2, RowOrder DEF LogInv
        <4>2. f.signer \in Nodes
          BY <4>1 DEF Events
        <4> QED
          BY <1>0, <1>5, <3>2, <4>2 DEF LogInv
      <3> QED
        BY <1>5, <2>2, <3>1, <3>2
    <2> QED
      BY <2>1, <2>2, <2>3
  <1>7. ASSUME NEW m \in Nodes, NEW p \in Events, Follows(m, p)
        PROVE  Follows(m, p)'
    <2>1. CASE m # n
      <3>1. Onward /\ log'[m] = log[m]
        BY <1>4, <2>1, TimePasses
      <3> QED
        BY <1>7, <3>1, FollowsLater
    <2>2. CASE m = n
      <3>1. p.seq \in Nat
        BY DEF Events
      <3>2. /\ p.signer = n /\ p.seq =< Count(log[n], n) + 1
            /\ n \notin stepped => p.time =< Clock(n)
        BY <1>7, <2>2 DEF Follows, NextSeq
      <3>3. n \notin stepped =>
              \A f \in Rows(log[n]) : f.signer = n /\ f.seq < p.seq => f.time =< p.time
        BY <1>7, <2>2 DEF Follows
      <3>4. Count(log'[n], n) = Count(log[n], n) + (IF e.signer = n THEN 1 ELSE 0)
        BY <1>3, <1>4
      <3>5. p.seq =< Count(log'[n], n) + 1
        BY <1>3, <3>1, <3>2, <3>4
      <3>6. e.signer = n => ~(e.seq < p.seq)
        BY <1>1, <1>3, <3>1, <3>2
      <3>7. n \notin stepped =>
              \A f \in Rows(log'[n]) : f.signer = n /\ f.seq < p.seq => f.time =< p.time
        BY <1>5, <3>3, <3>6
      <3> QED
        BY <1>0, <2>2, <3>2, <3>5, <3>7 DEF Follows, NextSeq
    <2> QED
      BY <2>1, <2>2
  <1> QED
    BY <1>3, <1>4, <1>5, <1>6, <1>7

\* An event of the node's own that Append accepts.
LEMMA OwnWrite ==
  ASSUME TypeInv, LogInv, UNCHANGED <<now, clocks>>, NEW n \in Nodes, NEW e \in Events,
         Follows(n, e), Accepts(n, e), log' = [log EXCEPT ![n] = Append(@, e)]
  PROVE  /\ log' \in [Nodes -> Seq(Events)]
         /\ LogInv'
         /\ e \in Rows(log'[n]) /\ e \notin Rows(log[n])
         /\ \A m \in Nodes : Rows(log[m]) \subseteq Rows(log'[m])
         /\ \A m \in Nodes, p \in Events : Follows(m, p) => Follows(m, p)'
  <1>1. log[n] \in Seq(Events) /\ Ascends(log[n])
    BY DEF TypeInv, LogInv
  <1>2. /\ e.seq = Count(log[n], n) + 1 /\ e.signer = n
        /\ n \notin stepped => e.time =< Clock(n)
        /\ Count(log[n], n) \in Nat
    BY <1>1, FileTypes DEF Accepts, NextSeq, Follows
  <1>3. ASSUME NEW f \in Rows(log[n]), f.signer = n, n \notin stepped
        PROVE  f.time =< e.time
    <2>1. f.seq =< Count(log[n], n) /\ f.seq \in Nat
      BY <1>1, <1>3, RowOrder DEF Events
    <2> QED
      BY <1>2, <1>3, <2>1 DEF Follows
  <1> QED
    BY <1>2, <1>3, WriteKeeps

\* An event of any signer that is pulled from node m.
LEMMA LearnWrite ==
  ASSUME TypeInv, LogInv, NEW n \in Nodes, NEW m \in Nodes, NEW e \in Rows(log[m]),
         Learn(n, e)
  PROVE  /\ e \in Events
         /\ log' \in [Nodes -> Seq(Events)]
         /\ LogInv'
         /\ \A k \in Nodes : Rows(log[k]) \subseteq Rows(log'[k])
         /\ \A k \in Nodes, p \in Events : Follows(k, p) => Follows(k, p)'
  <1>1. \A k \in Nodes : log[k] \in Seq(Events) /\ Ascends(log[k]) /\ InTime(Rows(log[k]), stepped)
    BY DEF TypeInv, LogInv
  <1>2. e \in Events /\ e.signer \in Nodes /\ e.seq \in Nat
    BY <1>1, RowOrder DEF Events
  <1>3. e \in Rows(log[e.signer]) /\ (e.signer \notin stepped => e.time =< Clock(e.signer))
    BY DEF LogInv
  <1>4. /\ e.seq = Count(log[n], e.signer) + 1 /\ UNCHANGED <<now, clocks>>
        /\ log' = [log EXCEPT ![n] = Append(@, e)] /\ Count(log[n], e.signer) \in Nat
    BY <1>1, RowsOnce, FileTypes DEF Learn
  <1>5. ASSUME NEW f \in Rows(log[n]), f.signer = e.signer, e.signer \notin stepped
        PROVE  f.time =< e.time
    <2>1. f.seq =< Count(log[n], e.signer) /\ f.seq \in Nat
      BY <1>1, <1>5, RowOrder DEF Events
    <2>2. f \in Rows(log[e.signer])
      BY <1>5 DEF LogInv
    <2>3. f.seq < e.seq
      BY <1>4, <2>1
    <2> QED
      BY <1>1, <1>2, <1>3, <1>5, <2>2, <2>3 DEF InTime
  <1> QED
    BY <1>2, <1>3, <1>4, <1>5, WriteKeeps

-----------------------------------------------------------------------------
(* The steps *)

\* The logs lose nothing, and what was pending goes on following.
Keeps ==
  /\ \A m \in Nodes : Rows(log[m]) \subseteq Rows(log'[m])
  /\ \A m \in Nodes, p \in Events : Follows(m, p) => Follows(m, p)'

LEMMA SameLog ==
  ASSUME TypeInv, LogInv, UNCHANGED log, Onward
  PROVE  Keeps /\ LogInv'
  <1>1. Keeps
    BY FollowsLater DEF Keeps
  <1>2. ASSUME NEW n \in Nodes, NEW e \in Rows(log[n]), e.signer \notin stepped'
        PROVE  e.time =< Clock(e.signer)'
    <2>1. e \in Events /\ e.signer \notin stepped /\ e.time =< Clock(e.signer)
      BY <1>2, RowOrder DEF TypeInv, LogInv, Onward
    <2>2. e.time \in Int /\ e.signer \in Nodes /\ Clock(e.signer) \in Int
      BY <2>1 DEF TypeInv, Events, Clock
    <2> QED
      BY <1>2, <2>1, <2>2 DEF Onward
  <1>3. \A n \in Nodes : InTime(Rows(log[n]), stepped')
    BY DEF LogInv, Onward, InTime
  <1> QED
    BY <1>1, <1>2, <1>3 DEF LogInv

LEMMA SignKeeps ==
  ASSUME TypeInv, LogInv, Sign, UNCHANGED <<log, clocks>>
  PROVE  Keeps /\ LogInv' /\ now' \in Nat
  <1>1. now' = now + 1 /\ now' \in Nat
    BY DEF TypeInv, Sign
  <1> QED
    BY <1>1, SameLog, TimePasses

LEMMA SignedEvent ==
  ASSUME TypeInv, LogInv, Sign, UNCHANGED <<log, clocks>>, NEW n \in Nodes, NEW issue \in Issues,
         NEW type \in {"create", "transition", "comment", "archive", "unarchive", "reassign"},
         NEW arg \in Users \cup {Nobody} \cup Statuses, NEW e, e = Signed(n, issue, type, arg)
  PROVE  e \in Events /\ e.type = type /\ Follows(n, e)'
  <1>1. /\ log[n] \in Seq(Events) /\ Ascends(log[n]) /\ Count(log[n], n) \in Nat
        /\ now \in Nat /\ now' = now + 1 /\ ahead[n] \in Int
        /\ ahead' = ahead /\ stepped' = stepped
    BY FileTypes DEF TypeInv, LogInv, Sign, clocks
  <1>2. /\ e.signer = n /\ e.seq = Count(log[n], n) + 1 /\ e.time = Clock(n)
        /\ e.type = type /\ e \in Events
    BY <1>1 DEF Signed, NextSeq, Events, Clock
  <1>3. n \notin stepped => \A f \in Rows(log'[n]) : f.signer = n => f.time =< e.time
    BY <1>1, <1>2 DEF LogInv
  <1>4. Follows(n, e)'
    <2>1. Count(log'[n], n) = Count(log[n], n) /\ e.seq =< Count(log'[n], n) + 1
      BY <1>1, <1>2
    <2>2. e.time =< Clock(n)'
      BY <1>1, <1>2 DEF Clock
    <2> QED
      BY <1>1, <1>2, <1>3, <2>1, <2>2 DEF Follows, NextSeq
  <1> QED
    BY <1>2, <1>4

\* What offboardings hold and have answered stays true while the logs grow.
LEMMA OffboardsKeep ==
  ASSUME TypeInv, OffInv, OffboardIsComplete, Keeps
  PROVE  /\ \A n \in Nodes, u \in Users :
              /\ off[n][u].seen \subseteq Rows(log'[n])
              /\ \A i \in off[n][u].issues \ off[n][u].left :
                   HandedOn(Rows(log'[n]), n, off[n][u].seen, i)
         /\ UNCHANGED off => OffInv'
         /\ UNCHANGED done => OffboardIsComplete'
  <1>1. \A n \in Nodes, u \in Users :
          /\ off[n][u].seen \subseteq Rows(log'[n])
          /\ \A i \in off[n][u].issues \ off[n][u].left :
               HandedOn(Rows(log'[n]), n, off[n][u].seen, i)
    BY DEF OffInv, HandedOn, Keeps
  <1>2. UNCHANGED done => OffboardIsComplete'
    <2> SUFFICES ASSUME UNCHANGED done, NEW d \in done, NEW i \in d.issues
                 PROVE  \E e \in Rows(log'[d.node]) \ d.seen :
                          e.signer = d.node /\ e.issue = i /\ e.type = "reassign"
      BY DEF OffboardIsComplete
    <2>1. d.node \in Nodes
      BY DEF TypeInv
    <2> QED
      BY <2>1 DEF OffboardIsComplete, Keeps
  <1> QED
    BY <1>1, <1>2 DEF OffInv

\* A step of the issue handlers or of replication.
LEMMA IssueStep ==
  ASSUME IInv, UNCHANGED <<active, off, done>>, LogInv', Keeps,
         log' \in [Nodes -> Seq(Events)], now' \in Nat, ahead' \in [Nodes -> Int],
         checked' \in [Nodes -> SUBSET (Issues \X (Users \cup {Nobody}))],
         signed' \in [Nodes -> SUBSET Events],
         \A n \in Nodes : \A e \in signed'[n] : e \in signed[n] \/ Follows(n, e)'
  PROVE  IInv'
  <1>1. TypeInv'
    BY DEF IInv, TypeInv
  <1>2. \A n \in Nodes, u \in Users : signed[n] \subseteq Events /\ off[n][u].event \subseteq Events
    BY DEF IInv, TypeInv, Handlers
  <1>3. PendingInv'
    BY <1>2 DEF IInv, PendingInv, Keeps
  <1>4. OffInv' /\ OffboardIsComplete'
    BY OffboardsKeep DEF IInv
  <1> QED
    BY <1>1, <1>3, <1>4 DEF IInv

\* The answer of the handler of team.offboard at node n for user u.
Answer(n, u) ==
  [node |-> n, user |-> u, seen |-> off[n][u].seen, issues |-> off[n][u].issues]

\* A step of that handler, which leaves it at r, and may answer once nothing is left.
LEMMA HandlerStep ==
  ASSUME IInv, LogInv', Keeps, NEW n \in Nodes, NEW u \in Users, NEW r \in Handlers,
         off' = [off EXCEPT ![n][u] = r], UNCHANGED <<checked, signed>>,
         \/ UNCHANGED done
         \/ done' = done \cup {Answer(n, u)} /\ off[n][u].left = {},
         log' \in [Nodes -> Seq(Events)], now' \in Nat, UNCHANGED clocks,
         active' \in [Nodes -> SUBSET Users],
         r.seen \subseteq Rows(log'[n]),
         \A i \in r.issues \ r.left : HandedOn(Rows(log'[n]), n, r.seen, i),
         \A e \in r.event : e.type = "reassign" /\ Follows(n, e)'
  PROVE  IInv'
  <1>1. /\ off' \in [Nodes -> [Users -> Handlers]]
        /\ \A m \in Nodes, v \in Users :
             off'[m][v] = IF m = n /\ v = u THEN r ELSE off[m][v]
    BY DEF IInv, TypeInv
  <1>2. TypeInv'
    <2>1. Answer(n, u) \in [node : Nodes, user : Users, seen : SUBSET Events,
                            issues : SUBSET Issues]
      BY DEF IInv, TypeInv, Handlers, Answer
    <2>2. ahead' \in [Nodes -> Int]
      BY DEF IInv, TypeInv, clocks
    <2> QED
      BY <1>1, <2>1, <2>2 DEF IInv, TypeInv
  <1>3. \A m \in Nodes, v \in Users : signed[m] \subseteq Events /\ off[m][v].event \subseteq Events
    BY DEF IInv, TypeInv, Handlers
  <1>4. PendingInv'
    <2>1. \A m \in Nodes : \A e \in signed'[m] : Follows(m, e)'
      BY <1>3 DEF IInv, PendingInv, Keeps
    <2>2. ASSUME NEW m \in Nodes, NEW v \in Users, NEW e \in off'[m][v].event
          PROVE  Follows(m, e)'
      <3>1. CASE m = n /\ v = u
        BY <1>1, <2>2, <3>1
      <3>2. CASE ~(m = n /\ v = u)
        BY <1>1, <1>3, <2>2, <3>2 DEF IInv, PendingInv, Keeps
      <3> QED
        BY <3>1, <3>2
    <2> QED
      BY <2>1, <2>2 DEF PendingInv
  <1>5. OffboardIsComplete'
    <2>1. CASE UNCHANGED done
      BY <2>1, OffboardsKeep DEF IInv
    <2>2. CASE done' = done \cup {Answer(n, u)} /\ off[n][u].left = {}
      <3>1. \A i \in off[n][u].issues : HandedOn(Rows(log'[n]), n, off[n][u].seen, i)
        BY <2>2, OffboardsKeep DEF IInv
      <3>2. ASSUME NEW d \in done', NEW i \in d.issues
            PROVE  HandedOn(Rows(log'[d.node]), d.node, d.seen, i)
        <4>1. CASE d = Answer(n, u)
          BY <3>1, <3>2, <4>1 DEF Answer
        <4>2. CASE d \in done
          <5>1. d.node \in Nodes
            BY <4>2 DEF IInv, TypeInv
          <5>2. HandedOn(Rows(log[d.node]), d.node, d.seen, i)
            BY <3>2, <4>2 DEF IInv, OffboardIsComplete, HandedOn
          <5> QED
            BY <5>1, <5>2 DEF HandedOn, Keeps
        <4> QED
          BY <2>2, <4>1, <4>2
      <3> QED
        BY <3>2 DEF OffboardIsComplete, HandedOn
    <2> QED
      BY <2>1, <2>2
  <1>6. OffInv'
    <2> SUFFICES ASSUME NEW m \in Nodes, NEW v \in Users
                 PROVE  /\ off'[m][v].seen \subseteq Rows(log'[m])
                        /\ \A i \in off'[m][v].issues \ off'[m][v].left :
                             HandedOn(Rows(log'[m]), m, off'[m][v].seen, i)
                        /\ \A e \in off'[m][v].event : e.type = "reassign"
      BY DEF OffInv
    <2>1. CASE m = n /\ v = u
      BY <1>1, <2>1
    <2>2. CASE ~(m = n /\ v = u)
      <3>1. off'[m][v] = off[m][v]
        BY <1>1, <2>2
      <3>2. /\ off[m][v].seen \subseteq Rows(log'[m])
            /\ \A i \in off[m][v].issues \ off[m][v].left :
                 HandedOn(Rows(log'[m]), m, off[m][v].seen, i)
        BY OffboardsKeep DEF IInv
      <3>3. \A e \in off[m][v].event : e.type = "reassign"
        BY DEF IInv, OffInv
      <3> QED
        BY <3>1, <3>2, <3>3
    <2> QED
      BY <2>1, <2>2
  <1> QED
    BY <1>2, <1>4, <1>5, <1>6 DEF IInv

LEMMA SetClockStep ==
  ASSUME IInv, NEW n \in Nodes, NEW t \in Settings[n], SetClock(n, t)
  PROVE  IInv'
  <1>1. /\ UNCHANGED <<log, now, active, checked, signed, off, done>>
        /\ ahead' = [ahead EXCEPT ![n] = t]
        /\ stepped' = IF t < ahead[n] THEN stepped \cup {n} ELSE stepped
    BY DEF SetClock
  <1>2. /\ t \in Int /\ ahead \in [Nodes -> Int] /\ now \in Nat
    BY OffsetAssumption DEF IInv, TypeInv
  <1>3. ahead' \in [Nodes -> Int] /\ \A m \in Nodes : ahead'[m] = IF m = n THEN t ELSE ahead[m]
    BY <1>1, <1>2
  <1>4. Onward
    BY <1>1, <1>2, <1>3 DEF Onward, Clock
  <1>5. Keeps /\ LogInv'
    BY <1>1, <1>4, SameLog DEF IInv
  <1>6. /\ checked' \in [Nodes -> SUBSET (Issues \X (Users \cup {Nobody}))]
        /\ log' \in [Nodes -> Seq(Events)] /\ now' \in Nat
        /\ signed' \in [Nodes -> SUBSET Events]
    BY <1>1 DEF IInv, TypeInv
  <1> QED
    BY <1>1, <1>3, <1>5, <1>6, IssueStep

LEMMA CheckCreateStep ==
  ASSUME IInv, NEW n \in Nodes, NEW i \in Issues, NEW u \in Users \cup {Nobody},
         CheckCreate(n, i, u)
  PROVE  IInv'
  <1>1. /\ UNCHANGED <<clocks, log, now, active, signed, off, done>>
        /\ checked' = [checked EXCEPT ![n] = @ \cup {<<i, u>>}]
    BY DEF CheckCreate
  <1>2. Keeps /\ LogInv'
    BY <1>1, SameLog, TimePasses DEF IInv
  <1>3. /\ ahead' \in [Nodes -> Int]
        /\ checked' \in [Nodes -> SUBSET (Issues \X (Users \cup {Nobody}))]
        /\ log' \in [Nodes -> Seq(Events)] /\ now' \in Nat
        /\ signed' \in [Nodes -> SUBSET Events]
    BY <1>1 DEF IInv, TypeInv, clocks
  <1> QED
    BY <1>1, <1>2, <1>3, IssueStep

\* An issue handler signs event e.
LEMMA SigningStep ==
  ASSUME IInv, NEW n \in Nodes, NEW issue \in Issues, Sign,
         NEW type \in {"create", "transition", "comment", "archive", "unarchive"},
         NEW arg \in Users \cup {Nobody} \cup Statuses,
         signed' = [signed EXCEPT ![n] = @ \cup {Signed(n, issue, type, arg)}],
         checked' \in [Nodes -> SUBSET (Issues \X (Users \cup {Nobody}))],
         UNCHANGED <<clocks, log, active, off, done>>
  PROVE  IInv'
  <1>1. PICK e : e = Signed(n, issue, type, arg)
    OBVIOUS
  <1>2. e \in Events /\ Follows(n, e)'
    BY <1>1, SignedEvent DEF IInv
  <1>3. Keeps /\ LogInv' /\ now' \in Nat
    BY SignKeeps DEF IInv
  <1>4. /\ signed' \in [Nodes -> SUBSET Events]
        /\ \A m \in Nodes : signed'[m] \subseteq signed[m] \cup (IF m = n THEN {e} ELSE {})
    BY <1>1, <1>2 DEF IInv, TypeInv
  <1>5. \A m \in Nodes : \A p \in signed'[m] : p \in signed[m] \/ Follows(m, p)'
    BY <1>2, <1>4
  <1>6. log' \in [Nodes -> Seq(Events)] /\ ahead' \in [Nodes -> Int]
    BY DEF IInv, TypeInv, clocks
  <1> QED
    BY <1>3, <1>4, <1>5, <1>6, IssueStep

LEMMA SignStep ==
  ASSUME IInv, NEW n \in Nodes,
         \/ \E c \in checked[n] : SignCreate(n, c)
         \/ \E i \in Issues, to \in Targets, from \in Statuses \cup {Unstated} :
              SignTransition(n, i, from, to)
         \/ \E i \in Issues, type \in {"comment", "archive", "unarchive"} :
              SignOther(n, i, type)
  PROVE  IInv'
  <1>1. checked \in [Nodes -> SUBSET (Issues \X (Users \cup {Nobody}))]
    BY DEF IInv, TypeInv
  <1>2. ASSUME NEW c \in checked[n], SignCreate(n, c)
        PROVE  IInv'
    <2>1. c[1] \in Issues /\ c[2] \in Users \cup {Nobody}
      BY <1>1
    <2>2. checked' \in [Nodes -> SUBSET (Issues \X (Users \cup {Nobody}))]
      BY <1>1, <1>2 DEF SignCreate
    <2> QED
      BY <1>2, <2>1, <2>2, SigningStep DEF SignCreate
  <1>3. ASSUME NEW i \in Issues, NEW to \in Targets, NEW from \in Statuses \cup {Unstated},
               SignTransition(n, i, from, to)
        PROVE  IInv'
    BY <1>1, <1>3, SigningStep, TargetsAssumption DEF SignTransition
  <1>4. ASSUME NEW i \in Issues, NEW type \in {"comment", "archive", "unarchive"},
               SignOther(n, i, type)
        PROVE  IInv'
    BY <1>1, <1>4, SigningStep DEF SignOther
  <1> QED
    BY <1>2, <1>3, <1>4

LEMMA AppendStep ==
  ASSUME IInv, NEW n \in Nodes, NEW e \in signed[n], AppendEvent(n, e)
  PROVE  IInv'
  <1>1. /\ UNCHANGED <<clocks, now, active, checked, off, done>>
        /\ signed' = [signed EXCEPT ![n] = @ \ {e}]
    BY DEF AppendEvent
  <1>2. e \in Events /\ Follows(n, e)
    BY DEF IInv, TypeInv, PendingInv
  <1>3. LogInv' /\ Keeps /\ log' \in [Nodes -> Seq(Events)]
    <2>1. CASE Accepts(n, e)
      <3>1. log' = [log EXCEPT ![n] = Append(@, e)]
        BY <2>1 DEF AppendEvent
      <3> QED
        BY <1>1, <1>2, <2>1, <3>1, OwnWrite DEF IInv, Keeps
    <2>2. CASE ~Accepts(n, e)
      <3>1. UNCHANGED log
        BY <2>2 DEF AppendEvent
      <3> QED
        BY <1>1, <3>1, SameLog, TimePasses DEF IInv, TypeInv
    <2> QED
      BY <2>1, <2>2
  <1>4. /\ signed' \in [Nodes -> SUBSET Events]
        /\ \A m \in Nodes : signed'[m] \subseteq signed[m]
    BY <1>1 DEF IInv, TypeInv
  <1>5. /\ checked' \in [Nodes -> SUBSET (Issues \X (Users \cup {Nobody}))]
        /\ now' \in Nat /\ ahead' \in [Nodes -> Int]
    BY <1>1 DEF IInv, TypeInv, clocks
  <1> QED
    BY <1>1, <1>3, <1>4, <1>5, IssueStep

LEMMA LearnStep ==
  ASSUME IInv, NEW n \in Nodes, NEW m \in Nodes, NEW e \in Rows(log[m]), Learn(n, e)
  PROVE  IInv'
  <1>1. UNCHANGED <<clocks, now, active, checked, signed, off, done>>
    BY DEF Learn
  <1>2. LogInv' /\ Keeps /\ log' \in [Nodes -> Seq(Events)]
    BY LearnWrite DEF IInv, Keeps
  <1>3. /\ checked' \in [Nodes -> SUBSET (Issues \X (Users \cup {Nobody}))]
        /\ now' \in Nat /\ ahead' \in [Nodes -> Int] /\ signed' \in [Nodes -> SUBSET Events]
    BY <1>1 DEF IInv, TypeInv, clocks
  <1> QED
    BY <1>1, <1>2, <1>3, IssueStep

\* The steps of the handler that read, choose and answer.
LEMMA QuietHandlerStep ==
  ASSUME IInv, NEW n \in Nodes, NEW u \in Users,
         \/ Offboard(n, u) \/ ReadForReassign(n, u) \/ ChooseAssignee(n, u)
         \/ AnswerOffboarded(n, u)
  PROVE  IInv'
  <1> DEFINE old == off[n][u]
  <1>1. /\ old \in Handlers /\ old.seen \subseteq Rows(log[n])
        /\ \A i \in old.issues \ old.left : HandedOn(Rows(log[n]), n, old.seen, i)
        /\ \A e \in old.event : e \in Events /\ e.type = "reassign" /\ Follows(n, e)
    BY DEF IInv, TypeInv, OffInv, PendingInv, Handlers
  <1>2. /\ UNCHANGED <<clocks, log, now, checked, signed>> /\ Rows(log[n]) \in SUBSET Events
        /\ log \in [Nodes -> Seq(Events)] /\ now \in Nat
        /\ active \in [Nodes -> SUBSET Users]
    BY RowOrder DEF IInv, TypeInv, LogInv, Offboard, ReadForReassign, ChooseAssignee,
                    AnswerOffboarded
  <1>3. Keeps /\ LogInv'
    BY <1>2, SameLog, TimePasses DEF IInv
  <1>4. \A e \in old.event : Follows(n, e)'
    BY <1>1, <1>3 DEF Keeps
  <1> HIDE DEF old
  <1>5. CASE Offboard(n, u)
    <2> DEFINE r == [old EXCEPT !.step = "read"]
    <2>1. /\ off' = [off EXCEPT ![n][u] = r] /\ UNCHANGED done
          /\ active' \in [Nodes -> SUBSET Users]
      BY <1>2, <1>5 DEF Offboard, old, IInv, TypeInv
    <2>2. /\ r \in Handlers /\ r.seen = old.seen /\ r.issues = old.issues
          /\ r.left = old.left /\ r.event = old.event
      BY <1>1 DEF Handlers
    <2> HIDE DEF r
    <2> QED
      BY <1>1, <1>2, <1>3, <1>4, <2>1, <2>2, HandlerStep
  <1>6. CASE ReadForReassign(n, u)
    <2> DEFINE mine == OpenIssuesOf(Board(log[n]), u)
               r == [old EXCEPT !.step = "choose", !.seen = Rows(log[n]),
                                !.issues = mine, !.left = mine]
    <2>1. off' = [off EXCEPT ![n][u] = r] /\ UNCHANGED <<active, done>>
      BY <1>6 DEF ReadForReassign, old
    <2>2. mine \in SUBSET Issues
      BY DEF OpenIssuesOf
    <2> HIDE DEF mine
    <2>3. /\ r \in Handlers /\ r.seen = Rows(log[n]) /\ r.issues = mine
          /\ r.left = mine /\ r.event = old.event
      BY <1>1, <1>2, <2>2 DEF Handlers
    <2> HIDE DEF r
    <2>4. \A i \in r.issues \ r.left : HandedOn(Rows(log'[n]), n, r.seen, i)
      BY <2>3
    <2> QED
      BY <1>1, <1>2, <1>3, <1>4, <2>1, <2>3, <2>4, HandlerStep
  <1>7. CASE ChooseAssignee(n, u)
    <2>1. PICK next \in NextAssignee(n, u) :
            off' = [off EXCEPT ![n][u] = [old EXCEPT !.step = "sign", !.next = next]]
      BY <1>7 DEF ChooseAssignee, old
    <2> DEFINE r == [old EXCEPT !.step = "sign", !.next = next]
    <2>2. next \in Users \cup {Nobody}
      <3>1. active[n] \in SUBSET Users
        BY <1>2
      <3> QED
        BY <2>1, <3>1 DEF NextAssignee, AnyOf
    <2>3. /\ r \in Handlers /\ r.seen = old.seen /\ r.issues = old.issues
          /\ r.left = old.left /\ r.event = old.event
      BY <1>1, <2>2 DEF Handlers
    <2>4. UNCHANGED <<active, done>> /\ off' = [off EXCEPT ![n][u] = r]
      BY <1>7, <2>1 DEF ChooseAssignee
    <2> HIDE DEF r
    <2> QED
      BY <1>1, <1>2, <1>3, <1>4, <2>3, <2>4, HandlerStep
  <1>8. CASE AnswerOffboarded(n, u)
    <2>1. /\ off' = [off EXCEPT ![n][u] = Idle] /\ UNCHANGED active
          /\ done' = done \cup {Answer(n, u)} /\ off[n][u].left = {}
      BY <1>8 DEF AnswerOffboarded, Answer
    <2>2. /\ Idle \in Handlers /\ Idle.seen = {} /\ Idle.issues = {} /\ Idle.event = {}
      BY DEF Idle, Handlers
    <2> QED
      BY <1>2, <1>3, <2>1, <2>2, HandlerStep
  <1> QED
    BY <1>5, <1>6, <1>7, <1>8

LEMMA SignReassignStep ==
  ASSUME IInv, NEW n \in Nodes, NEW u \in Users, NEW i \in Issues, SignReassign(n, u, i)
  PROVE  IInv'
  <1> DEFINE old == off[n][u]
  <1>1. /\ old \in Handlers /\ old.seen \subseteq Rows(log[n])
        /\ \A j \in old.issues \ old.left : HandedOn(Rows(log[n]), n, old.seen, j)
    BY DEF IInv, TypeInv, OffInv
  <1>2. PICK e : e = Signed(n, i, "reassign", old.next)
    OBVIOUS
  <1>3. /\ Sign /\ UNCHANGED <<clocks, log, active, checked, signed, done>>
        /\ off' = [off EXCEPT ![n][u] = [old EXCEPT !.step = "append", !.event = {e}]]
    BY <1>2 DEF SignReassign
  <1>4. old.next \in Users \cup {Nobody}
    BY <1>1 DEF Handlers
  <1> HIDE DEF old
  <1>5. e \in Events /\ e.type = "reassign" /\ Follows(n, e)'
    BY <1>2, <1>3, <1>4, SignedEvent DEF IInv
  <1>6. Keeps /\ LogInv' /\ now' \in Nat
    BY <1>3, SignKeeps DEF IInv
  <1> DEFINE r == [old EXCEPT !.step = "append", !.event = {e}]
  <1>7. /\ r \in Handlers /\ r.seen = old.seen /\ r.issues = old.issues
        /\ r.left = old.left /\ r.event = {e}
    BY <1>1, <1>5 DEF Handlers
  <1>8. off' = [off EXCEPT ![n][u] = r]
    BY <1>3
  <1> HIDE DEF r
  <1>9. log' \in [Nodes -> Seq(Events)] /\ active' \in [Nodes -> SUBSET Users]
    BY <1>3 DEF IInv, TypeInv
  <1>10. /\ r.seen \subseteq Rows(log'[n])
         /\ \A j \in r.issues \ r.left : HandedOn(Rows(log'[n]), n, r.seen, j)
         /\ \A d \in r.event : d.type = "reassign" /\ Follows(n, d)'
    BY <1>1, <1>3, <1>5, <1>7
  <1> QED
    BY <1>3, <1>6, <1>7, <1>8, <1>9, <1>10, HandlerStep

LEMMA AppendReassignStep ==
  ASSUME IInv, NEW n \in Nodes, NEW u \in Users, AppendReassign(n, u)
  PROVE  IInv'
  <1> DEFINE old == off[n][u]
  <1>1. /\ old \in Handlers /\ old.seen \subseteq Rows(log[n])
        /\ \A i \in old.issues \ old.left : HandedOn(Rows(log[n]), n, old.seen, i)
        /\ \A e \in old.event : e \in Events /\ e.type = "reassign" /\ Follows(n, e)
    BY DEF IInv, TypeInv, OffInv, PendingInv, Handlers
  <1>2. UNCHANGED <<clocks, now, active, checked, signed, done>>
    BY DEF AppendReassign
  <1>3. now' \in Nat /\ active' \in [Nodes -> SUBSET Users]
    BY <1>2 DEF IInv, TypeInv
  <1>4. PICK e \in old.event :
          IF Accepts(n, e)
            THEN log' = [log EXCEPT ![n] = Append(@, e)] /\ Reassigned(n, u, e)
            ELSE off' = [off EXCEPT ![n][u] = Idle] /\ UNCHANGED log
    BY DEF AppendReassign
  <1>5. CASE Accepts(n, e)
    <2>1. /\ log' \in [Nodes -> Seq(Events)] /\ LogInv' /\ Keeps
          /\ e \in Rows(log'[n]) \ Rows(log[n])
      BY <1>1, <1>2, <1>4, <1>5, OwnWrite DEF IInv, Keeps
    <2> DEFINE r == [old EXCEPT !.step = "sign", !.event = {}, !.left = old.left \ {e.issue}]
    <2>2. off' = [off EXCEPT ![n][u] = r]
      <3>1. Reassigned(n, u, e)
        BY <1>4, <1>5
      <3> QED
        BY <3>1 DEF Reassigned
    <2> HIDE DEF old
    <2>3. /\ r \in Handlers /\ r.seen = old.seen /\ r.issues = old.issues
          /\ r.left = old.left \ {e.issue} /\ r.event = {}
      BY <1>1 DEF Handlers
    <2> HIDE DEF r
    <2>4. r.seen \subseteq Rows(log'[n])
      BY <1>1, <2>1, <2>3 DEF Keeps
    <2>5. ASSUME NEW i \in r.issues \ r.left
          PROVE  HandedOn(Rows(log'[n]), n, r.seen, i)
      <3>1. CASE i \notin old.left
        BY <1>1, <2>1, <2>3, <3>1 DEF HandedOn, Keeps
      <3>2. CASE i = e.issue
        BY <1>1, <2>1, <2>3, <3>2 DEF HandedOn, Follows
      <3> QED
        BY <2>3, <3>1, <3>2
    <2> QED
      BY <1>2, <1>3, <2>1, <2>2, <2>3, <2>4, <2>5, HandlerStep
  <1>6. CASE ~Accepts(n, e)
    <2>1. off' = [off EXCEPT ![n][u] = Idle] /\ UNCHANGED log
      BY <1>4, <1>6
    <2>2. Keeps /\ LogInv' /\ log' \in [Nodes -> Seq(Events)]
      BY <1>2, <2>1, SameLog, TimePasses DEF IInv, TypeInv
    <2>3. /\ Idle \in Handlers /\ Idle.seen = {} /\ Idle.issues = {} /\ Idle.event = {}
      BY DEF Idle, Handlers
    <2> QED
      BY <1>2, <1>3, <2>1, <2>2, <2>3, HandlerStep
  <1> QED
    BY <1>5, <1>6

LEMMA Step ==
  ASSUME IInv, [Next]_vars
  PROVE  IInv'
  <1>1. CASE UNCHANGED vars
    <2>1. UNCHANGED <<clocks, log, now, active, checked, signed, off, done>>
      BY <1>1 DEF vars, clocks
    <2>2. Keeps /\ LogInv'
      BY <2>1, SameLog, TimePasses DEF IInv
    <2>3. /\ ahead' \in [Nodes -> Int]
          /\ log' \in [Nodes -> Seq(Events)] /\ now' \in Nat
          /\ checked' \in [Nodes -> SUBSET (Issues \X (Users \cup {Nobody}))]
          /\ signed' \in [Nodes -> SUBSET Events]
      BY <2>1 DEF IInv, TypeInv, clocks
    <2> QED
      BY <2>1, <2>2, <2>3, IssueStep
  <1>2. CASE Next
    BY <1>2, SetClockStep, CheckCreateStep, SignStep, AppendStep, LearnStep, QuietHandlerStep,
       SignReassignStep, AppendReassignStep DEF Next
  <1> QED
    BY <1>1, <1>2

-----------------------------------------------------------------------------
(* The theorems *)

\* The inductive invariant.
THEOREM Invariance == Spec => []IInv
  <1>1. Init => IInv
    <2> SUFFICES ASSUME Init
                 PROVE  IInv
      OBVIOUS
    <2>1. PICK past \in Pasts : log = [n \in Nodes |-> past]
      BY DEF Init
    <2>2. /\ past \in Seq(Events) /\ Ascends(past) /\ Rows(past) \subseteq Events
          /\ InTime(Rows(past), {})
          /\ \A e \in Rows(past) : e.time =< Offset[e.signer]
      BY PastsAssumption, RowOrder
    <2>3. Idle \in Handlers /\ Idle.seen = {} /\ Idle.issues = {} /\ Idle.event = {}
      BY DEF Idle, Handlers
    <2>4. TypeInv
      BY <2>1, <2>2, <2>3, OffsetAssumption DEF Init, TypeInv
    <2>5. LogInv
      <3>1. \A e \in Rows(past) : e.signer \in Nodes /\ e.time =< 0 + Offset[e.signer]
        <4>1. \A e \in Rows(past) : /\ e.signer \in Nodes /\ e.time \in Int
                                    /\ Offset[e.signer] \in Nat
          BY <2>2, OffsetAssumption DEF Events
        <4> QED
          BY <2>2, <4>1
      <3> QED
        BY <2>1, <2>2, <3>1 DEF Init, LogInv, Clock
    <2>6. PendingInv /\ OffInv /\ OffboardIsComplete
      BY <2>3 DEF Init, PendingInv, OffInv, OffboardIsComplete
    <2> QED
      BY <2>4, <2>5, <2>6 DEF IInv
  <1>2. IInv /\ [Next]_vars => IInv'
    BY Step
  <1> QED
    BY <1>1, <1>2, PTL DEF Spec

\* Nodes that hold the same events show the same board, in whatever order the
\* events arrived, however the clocks are set and whenever they step back
\* (projectBoardFromEvents).
THEOREM BoardsAgree == Spec => []BoardsConverge
  <1>1. IInv => BoardsConverge
    <2> SUFFICES ASSUME IInv, NEW m \in Nodes, NEW n \in Nodes, Rows(log[m]) = Rows(log[n])
                 PROVE  Board(log[m]) = Board(log[n])
      BY DEF BoardsConverge
    <2> QED
      BY ReplayConverges, SameBoard DEF IInv, TypeInv, LogInv
  <1> QED
    BY <1>1, Invariance, PTL

\* The replay reverses two events of one signer only if the clock of that node was
\* set back at some time, although the number and the timestamp are taken outside
\* the lock of the log (appendIssueEventWithLog).
THEOREM SignersStayInOrder == Spec => []SignerOrderKept
  <1>1. IInv => SignerOrderKept
    <2> SUFFICES ASSUME IInv, NEW n \in Nodes,
                        NEW j \in DOMAIN Replayed(log[n]), NEW k \in DOMAIN Replayed(log[n]),
                        Replayed(log[n])[j].signer = Replayed(log[n])[k].signer, j < k,
                        Replayed(log[n])[j].signer \notin stepped
                 PROVE  Replayed(log[n])[j].seq < Replayed(log[n])[k].seq
      BY DEF SignerOrderKept
    <2>1. log[n] \in Seq(Events) /\ Ascends(log[n]) /\ InTime(Rows(log[n]), stepped)
      BY DEF IInv, TypeInv, LogInv
    <2>2. j \in DOMAIN log[n] /\ k \in DOMAIN log[n]
      BY <2>1, ReplayedRows
    <2> QED
      BY <2>1, <2>2, ReplayKeepsSigners
  <1> QED
    BY <1>1, Invariance, PTL

\* An offboarding that is answered has an event of its node for every task it found,
\* however many handlers raced it for the numbers (reassignFromEvents).
THEOREM OffboardsAreComplete == Spec => []OffboardIsComplete
  <1>1. IInv => OffboardIsComplete
    BY DEF IInv
  <1> QED
    BY <1>1, Invariance, PTL

=============================================================================
