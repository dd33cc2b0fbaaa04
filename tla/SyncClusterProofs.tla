-------------------------- MODULE SyncClusterProofs --------------------------
(***************************************************************************)
(* The safety of SyncCluster for every number of nodes, every topology,    *)
(* every trust relation and every bound.                                   *)
(***************************************************************************)
EXTENDS SyncCluster, TLAPS

(***************************************************************************)
(* The inductive invariant.  Agreement is not inductive: that a node may   *)
(* copy an event needs to know that the copy it is offered, if it carries  *)
(* its signer's key, is the one its signer holds, so the genuine part of   *)
(* each file and of each batch on its way is in its signer's file.  That   *)
(* an accepted event continues its signer's numbering needs each file to   *)
(* have a top number for every signer, with every smaller number present   *)
(* and in order, and the index of a running server to be that top number.  *)
(***************************************************************************)

\* A signer's rows are in ascending order of their numbers.
Ascending(file) ==
  \A i, j \in DOMAIN file :
    i < j /\ file[i].signer = file[j].signer => file[i].seq < file[j].seq

\* Every signer has a highest number in the file.
HasTop(file) == \A s \in Nodes : \E seq \in Nat : IsTop(file, s, seq)

\* Below a number that is present, every number is present.
NoGap(file) ==
  \A e \in Rows(file) : \A k \in 1 .. e.seq :
    \E f \in Rows(file) : f.signer = e.signer /\ f.seq = k

AllValid(file) == \A e \in Rows(file) : VerifyByEventKey(e)

FileInv == \A n \in Nodes : /\ Ascending(log[n])
                            /\ HasTop(log[n])
                            /\ NoGap(log[n])
                            /\ AllValid(log[n])
                            /\ VerifyIntegrity(log[n])

\* The event carries a key other than its signer's, or its signer holds it.
AtOrigin(e) == Genuine(e) => e \in Rows(log[e.signer])

\* What a node holds, or is about to apply, signed by its signer's key, its
\* signer holds too.
OriginInv ==
  /\ \A n \in Nodes : \A e \in Rows(log[n]) : AtOrigin(e)
  /\ \A n \in Nodes : \A e \in items[n] : AtOrigin(e)

IndexInv ==
  \A n \in up : /\ \A s \in Nodes : IsTop(log[n], s, lastSeq[n][s])
                /\ replayIx[n] = ReplayKeys(log[n])

InflightInv ==
  \A n \in Nodes : \A e \in inflight[n] :
    e.signer = n /\ Genuine(e) /\ VerifyByEventKey(e)

IInv == /\ TypeOK
        /\ FileInv
        /\ OriginInv
        /\ IndexInv
        /\ InflightInv
        /\ AckedIsDurable

-----------------------------------------------------------------------------
(* Facts about files *)

\* The events of a file are those of its positions, and appending adds one.
LEMMA RowsAppend ==
  ASSUME NEW file \in Seq(Event), NEW e \in Event
  PROVE  /\ Append(file, e) \in Seq(Event)
         /\ Rows(Append(file, e)) = Rows(file) \cup {e}
         /\ Rows(file) \subseteq Event
  <1>1. /\ Append(file, e) \in Seq(Event)
        /\ DOMAIN file = 1 .. Len(file)
        /\ DOMAIN Append(file, e) = 1 .. Len(file) + 1
        /\ Append(file, e)[Len(file) + 1] = e
        /\ \A i \in 1 .. Len(file) : Append(file, e)[i] = file[i]
        /\ \A i \in 1 .. Len(file) : file[i] \in Event
        /\ Len(file) \in Nat
    OBVIOUS
  <1>2. 1 .. Len(file) + 1 = (1 .. Len(file)) \cup {Len(file) + 1}
    BY <1>1
  <1> QED
    BY <1>1, <1>2 DEF Rows

\* The clock computed from a file is its top number.
LEMMA ClockIsTop ==
  ASSUME NEW file \in Seq(Event), HasTop(file)
  PROVE  /\ Clock(file) \in [Nodes -> Nat]
         /\ \A s \in Nodes : IsTop(file, s, Clock(file)[s])
  <1> SUFFICES ASSUME NEW s \in Nodes
               PROVE  /\ Clock(file)[s] \in Nat
                      /\ IsTop(file, s, Clock(file)[s])
    BY DEF Clock
  <1> DEFINE Seqs == {0} \cup {e.seq : e \in Rows(file)}
  <1>1. PICK seq \in Nat : IsTop(file, s, seq)
    BY DEF HasTop
  <1>2. seq \in Seqs
    BY <1>1 DEF IsTop
  <1>3. Clock(file)[s] = CHOOSE k \in Seqs : IsTop(file, s, k)
    BY DEF Clock
  <1>4. Clock(file)[s] \in Seqs /\ IsTop(file, s, Clock(file)[s])
    BY <1>1, <1>2, <1>3
  <1>5. Seqs \subseteq Nat
    <2>1. \A e \in Rows(file) : e \in Event
      BY DEF Rows
    <2> QED
      BY <2>1 DEF Event
  <1> QED
    BY <1>4, <1>5

\* A signer has one top number in a file.
LEMMA TopUnique ==
  ASSUME NEW file \in Seq(Event), NEW s \in Nodes, NEW a \in Nat, NEW b \in Nat,
         IsTop(file, s, a), IsTop(file, s, b)
  PROVE  a = b
  <1>1. a # 0 => a =< b
    BY DEF IsTop
  <1>2. b # 0 => b =< a
    BY DEF IsTop
  <1> QED
    BY <1>1, <1>2

\* Appending the event after the top number of its signer keeps a file in
\* order and complete, and moves the top of that signer alone.
LEMMA AppendKeepsFile ==
  ASSUME NEW file \in Seq(Event), NEW e \in Event, NEW top \in Nat,
         IsTop(file, e.signer, top), e.seq = top + 1, VerifyByEventKey(e),
         Ascending(file), HasTop(file), NoGap(file), AllValid(file),
         VerifyIntegrity(file)
  PROVE  LET new == Append(file, e) IN
         /\ Ascending(new) /\ HasTop(new) /\ NoGap(new) /\ AllValid(new)
         /\ VerifyIntegrity(new)
         /\ IsTop(new, e.signer, e.seq)
         /\ \A s \in Nodes, k \in Nat :
              s # e.signer /\ IsTop(file, s, k) => IsTop(new, s, k)
         /\ ReplayKeys(new) = ReplayKeys(file) \cup {<<e.signer, e.seq>>}
  <1> DEFINE new == Append(file, e)
             N == Len(file)
  <1>1. /\ N \in Nat
        /\ DOMAIN file = 1 .. N
        /\ DOMAIN new = 1 .. N + 1
        /\ new[N + 1] = e
        /\ \A i \in 1 .. N : new[i] = file[i] /\ file[i] \in Event
    OBVIOUS
  <1>2. Rows(new) = Rows(file) \cup {e} /\ Rows(file) \subseteq Event
    BY RowsAppend
  <1>3. \A f \in Rows(file) : f.seq \in Nat \ {0} /\ f.signer \in Nodes
    BY <1>2 DEF Event
  <1>4. e.seq \in Nat \ {0} /\ e.signer \in Nodes
    BY DEF Event
  <1>5. \A f \in Rows(file) : f.signer = e.signer => f.seq < e.seq
    BY <1>3 DEF IsTop
  <1> HIDE DEF new, N
  <1>6. IsTop(new, e.signer, e.seq)
    BY <1>2, <1>3, <1>4, <1>5 DEF IsTop
  <1>7. \A s \in Nodes, k \in Nat :
          s # e.signer /\ IsTop(file, s, k) => IsTop(new, s, k)
    BY <1>2 DEF IsTop
  <1>8. Ascending(new)
    <2> SUFFICES ASSUME NEW i \in 1 .. N + 1, NEW j \in 1 .. N + 1, i < j,
                        new[i].signer = new[j].signer
                 PROVE  new[i].seq < new[j].seq
      BY <1>1 DEF Ascending
    <2>1. i \in 1 .. N
      BY <1>1
    <2>2. CASE j = N + 1
      <3>1. file[i] \in Rows(file)
        BY <1>1, <2>1 DEF Rows
      <3> QED
        BY <1>1, <1>5, <2>1, <2>2, <3>1
    <2>3. CASE j # N + 1
      BY <1>1, <2>1, <2>3 DEF Ascending
    <2> QED
      BY <2>2, <2>3
  <1>9. HasTop(new)
    BY <1>4, <1>6, <1>7 DEF HasTop
  <1>10. NoGap(new)
    <2> SUFFICES ASSUME NEW f \in Rows(new), NEW k \in 1 .. f.seq
                 PROVE  \E g \in Rows(new) : g.signer = f.signer /\ g.seq = k
      BY DEF NoGap
    <2>1. CASE f \in Rows(file)
      BY <1>2, <2>1 DEF NoGap
    <2>2. CASE f = e
      <3>1. CASE k = e.seq
        BY <1>2, <2>2, <3>1
      <3>2. CASE k # e.seq
        <4>1. k \in 1 .. top /\ top # 0
          BY <2>2, <3>2
        <4>2. PICK t \in Rows(file) : t.signer = e.signer /\ t.seq = top
          BY <4>1 DEF IsTop
        <4> QED
          BY <1>2, <2>2, <4>1, <4>2 DEF NoGap
      <3> QED
        BY <3>1, <3>2
    <2> QED
      BY <1>2, <2>1, <2>2
  <1>11. AllValid(new)
    BY <1>2 DEF AllValid
  <1>12. VerifyIntegrity(new)
    <2> DEFINE Earlier(file_, i) ==
          {j \in 1 .. i - 1 : file_[j].signer = file_[i].signer}
    <2> SUFFICES ASSUME NEW i \in 1 .. N + 1
                 PROVE  /\ VerifyByEventKey(new[i])
                        /\ IF Earlier(new, i) = {}
                             THEN new[i].seq = 1
                             ELSE \E j \in Earlier(new, i) :
                                    /\ \A h \in Earlier(new, i) : h =< j
                                    /\ new[i].seq = new[j].seq + 1
      BY <1>1 DEF VerifyIntegrity
    <2>1. CASE i # N + 1
      <3>1. i \in 1 .. N
        BY <1>1, <2>1
      <3>2. Earlier(new, i) = Earlier(file, i)
        BY <1>1, <3>1
      <3>3. \A j \in Earlier(file, i) : new[j] = file[j]
        BY <1>1, <3>1
      <3> QED
        BY <1>1, <3>1, <3>2, <3>3 DEF VerifyIntegrity
    <2>2. CASE i = N + 1
      <3>1. VerifyByEventKey(new[i])
        BY <1>1, <2>2
      <3>2. \A j \in 1 .. N : file[j] \in Rows(file)
        BY <1>1 DEF Rows
      <3>3. Earlier(new, i) = {j \in 1 .. N : file[j].signer = e.signer}
        BY <1>1, <2>2
      <3>4. CASE Earlier(new, i) = {}
        <4>1. top = 0
          <5> SUFFICES ASSUME top # 0 PROVE FALSE
            OBVIOUS
          <5>1. PICK t \in Rows(file) : t.signer = e.signer
            BY DEF IsTop
          <5>2. PICK j \in 1 .. N : file[j] = t
            BY <1>1 DEF Rows
          <5> QED
            BY <3>3, <3>4, <5>1, <5>2
        <4> QED
          BY <1>1, <2>2, <3>1, <3>4, <4>1
      <3>5. CASE Earlier(new, i) # {}
        <4>1. PICK h \in 1 .. N : file[h].signer = e.signer
          BY <3>3, <3>5
        <4>2. top # 0
          BY <1>3, <3>2, <4>1 DEF IsTop
        <4>3. PICK j \in 1 .. N : file[j].signer = e.signer /\ file[j].seq = top
          BY <1>1, <4>2 DEF IsTop, Rows
        <4>4. \A l \in Earlier(new, i) : l =< j
          <5> SUFFICES ASSUME NEW l \in 1 .. N, file[l].signer = e.signer, l > j
                       PROVE  FALSE
            BY <3>3
          <5>1. file[j].seq < file[l].seq
            BY <1>1, <4>3 DEF Ascending
          <5>2. file[l].seq =< top
            BY <3>2 DEF IsTop
          <5> QED
            BY <1>3, <3>2, <4>3, <5>1, <5>2
        <4>5. j \in Earlier(new, i) /\ new[i].seq = new[j].seq + 1
          BY <1>1, <2>2, <3>3, <4>3
        <4> QED
          BY <3>1, <3>5, <4>4, <4>5
      <3> QED
        BY <3>4, <3>5
    <2> QED
      BY <2>1, <2>2
  <1>13. ReplayKeys(new) = ReplayKeys(file) \cup {<<e.signer, e.seq>>}
    BY <1>2 DEF ReplayKeys
  <1> QED
    BY <1>6, <1>7, <1>8, <1>9, <1>10, <1>11, <1>12, <1>13 DEF new

-----------------------------------------------------------------------------
(* Facts about steps *)

\* Appending an accepted event that is the node's own, or that its signer
\* holds, preserves the parts of the invariant about files and indexes.
LEMMA WriteKeepsInv ==
  ASSUME TypeOK, FileInv, OriginInv, IndexInv,
         NEW n \in up, NEW e \in Event, VerifyByEventKey(e), Accepts(n, e),
         e.signer = n \/ AtOrigin(e),
         Write(n, e), up' = up,
         \A m \in Nodes : items'[m] \subseteq items[m]
  PROVE  /\ log' \in [Nodes -> Seq(Event)]
         /\ lastSeq' \in [Nodes -> [Nodes -> Nat]]
         /\ replayIx' \in [Nodes -> SUBSET (Nodes \X (Nat \ {0}))]
         /\ FileInv' /\ OriginInv' /\ IndexInv'
         /\ \A m \in Nodes : Rows(log[m]) \subseteq Rows(log'[m])
         /\ Rows(log'[n]) = Rows(log[n]) \cup {e}
  <1> DEFINE top == lastSeq[n][e.signer]
  <1>1. /\ n \in Nodes /\ log[n] \in Seq(Event)
        /\ e.signer \in Nodes /\ e.seq \in Nat \ {0}
        /\ lastSeq[n] \in [Nodes -> Nat] /\ top \in Nat
    <2>1. n \in Nodes /\ e.signer \in Nodes /\ e.seq \in Nat \ {0}
      BY DEF TypeOK, Event
    <2>2. log[n] \in Seq(Event) /\ lastSeq[n] \in [Nodes -> Nat]
      BY <2>1 DEF TypeOK
    <2> QED
      BY <2>1, <2>2
  <1>2. e.seq = top + 1 /\ IsTop(log[n], e.signer, top)
    BY <1>1 DEF Accepts, IndexInv
  <1>3. /\ log'[n] = Append(log[n], e)
        /\ replayIx'[n] = replayIx[n] \cup {<<e.signer, e.seq>>}
        /\ lastSeq'[n] = [lastSeq[n] EXCEPT ![e.signer] = e.seq]
        /\ \A m \in Nodes : m # n => /\ log'[m] = log[m]
                                     /\ replayIx'[m] = replayIx[m]
                                     /\ lastSeq'[m] = lastSeq[m]
    BY <1>1 DEF Write, TypeOK
  <1>4. /\ Ascending(log'[n]) /\ HasTop(log'[n]) /\ NoGap(log'[n])
        /\ AllValid(log'[n]) /\ VerifyIntegrity(log'[n])
        /\ IsTop(log'[n], e.signer, e.seq)
        /\ \A s \in Nodes, k \in Nat :
             s # e.signer /\ IsTop(log[n], s, k) => IsTop(log'[n], s, k)
        /\ ReplayKeys(log'[n]) = ReplayKeys(log[n]) \cup {<<e.signer, e.seq>>}
    <2>1. /\ Ascending(log[n]) /\ HasTop(log[n]) /\ NoGap(log[n])
          /\ AllValid(log[n]) /\ VerifyIntegrity(log[n])
      BY <1>1 DEF FileInv
    <2> HIDE DEF top
    <2> QED
      BY <1>1, <1>2, <1>3, <2>1, AppendKeepsFile
  <1>5. /\ Rows(log'[n]) = Rows(log[n]) \cup {e}
        /\ log'[n] \in Seq(Event)
    BY <1>1, <1>3, RowsAppend
  <1>6. \A m \in Nodes : Rows(log[m]) \subseteq Rows(log'[m])
    BY <1>3, <1>5
  <1>7. /\ log' \in [Nodes -> Seq(Event)]
        /\ lastSeq' \in [Nodes -> [Nodes -> Nat]]
        /\ replayIx' \in [Nodes -> SUBSET (Nodes \X (Nat \ {0}))]
    <2>1. log' \in [Nodes -> Seq(Event)]
      BY <1>1, <1>3, <1>5 DEF Write, TypeOK
    <2>2. lastSeq' \in [Nodes -> [Nodes -> Nat]]
      BY <1>1, <1>3 DEF Write, TypeOK
    <2>3. replayIx' \in [Nodes -> SUBSET (Nodes \X (Nat \ {0}))]
      <3>1. <<e.signer, e.seq>> \in Nodes \X (Nat \ {0})
        BY <1>1
      <3>2. replayIx \in [Nodes -> SUBSET (Nodes \X (Nat \ {0}))]
        BY DEF TypeOK
      <3> QED
        BY <1>1, <3>1, <3>2 DEF Write
    <2> QED
      BY <2>1, <2>2, <2>3
  <1>8. FileInv'
    BY <1>3, <1>4 DEF FileInv
  <1>9. OriginInv'
    <2>1. \A m \in Nodes : \A f \in Rows(log'[m]) :
            Genuine(f) => f \in Rows(log'[f.signer])
      <3> SUFFICES ASSUME NEW m \in Nodes, NEW f \in Rows(log'[m]), Genuine(f)
                   PROVE  f \in Rows(log'[f.signer])
        OBVIOUS
      <3>1. CASE f \in Rows(log[m])
        <4>1. f \in Event
          BY <3>1, RowsAppend DEF TypeOK, Rows
        <4> QED
          BY <1>6, <3>1, <4>1 DEF OriginInv, AtOrigin, Event
      <3>2. CASE f \notin Rows(log[m])
        <4>1. m = n /\ f = e
          BY <1>3, <1>5, <3>2
        <4> QED
          BY <1>1, <1>5, <1>6, <4>1 DEF AtOrigin
      <3> QED
        BY <3>1, <3>2
    <2>2. \A m \in Nodes : \A f \in items'[m] :
            Genuine(f) => f \in Rows(log'[f.signer])
      <3> SUFFICES ASSUME NEW m \in Nodes, NEW f \in items'[m], Genuine(f)
                   PROVE  f \in Rows(log'[f.signer])
        OBVIOUS
      <3>1. f \in items[m] /\ f \in Event
        BY DEF TypeOK
      <3> QED
        BY <1>6, <3>1 DEF OriginInv, AtOrigin, Event
    <2> QED
      BY <2>1, <2>2 DEF OriginInv, AtOrigin
  <1>10. IndexInv'
    <2> SUFFICES ASSUME NEW m \in up
                 PROVE  /\ \A s \in Nodes : IsTop(log'[m], s, lastSeq'[m][s])
                        /\ replayIx'[m] = ReplayKeys(log'[m])
      BY DEF IndexInv
    <2>1. m \in Nodes
      BY DEF TypeOK
    <2>2. CASE m # n
      BY <1>3, <2>1, <2>2 DEF IndexInv
    <2>3. CASE m = n
      <3>1. replayIx'[n] = ReplayKeys(log'[n])
        BY <1>3, <1>4 DEF IndexInv
      <3>2. ASSUME NEW s \in Nodes
            PROVE  IsTop(log'[n], s, lastSeq'[n][s])
        <4>1. CASE s = e.signer
          BY <1>1, <1>3, <1>4, <4>1
        <4>2. CASE s # e.signer
          <5>1. lastSeq'[n][s] = lastSeq[n][s] /\ lastSeq[n][s] \in Nat
            BY <1>1, <1>3, <4>2
          <5>2. IsTop(log[n], s, lastSeq[n][s])
            BY DEF IndexInv
          <5> QED
            BY <1>4, <4>2, <5>1, <5>2
        <4> QED
          BY <4>1, <4>2
      <3> QED
        BY <2>3, <3>1, <3>2
    <2> QED
      BY <2>2, <2>3
  <1> QED
    BY <1>5, <1>6, <1>7, <1>8, <1>9, <1>10

\* The initial state satisfies the invariant.
LEMMA InitInv == Init => IInv
  <1> SUFFICES ASSUME Init
               PROVE  IInv
    OBVIOUS
  <1> USE DEF Init, MemoryInit, ZeroClock
  <1>1. /\ log = [n \in Nodes |-> <<>>]
        /\ \A n \in Nodes : Rows(log[n]) = {} /\ DOMAIN log[n] = {}
    BY DEF Rows
  <1>2. TypeOK
    BY BoundAssumption, FaultsAssumption DEF TypeOK
  <1>3. \A n, s \in Nodes : IsTop(log[n], s, 0)
    BY <1>1 DEF IsTop
  <1>4. FileInv
    <2> SUFFICES ASSUME NEW n \in Nodes
                 PROVE  /\ Ascending(log[n]) /\ HasTop(log[n]) /\ NoGap(log[n])
                        /\ AllValid(log[n]) /\ VerifyIntegrity(log[n])
      BY DEF FileInv
    <2>1. HasTop(log[n])
      BY <1>3 DEF HasTop
    <2>2. Ascending(log[n]) /\ VerifyIntegrity(log[n])
      BY <1>1 DEF Ascending, VerifyIntegrity
    <2>3. NoGap(log[n]) /\ AllValid(log[n])
      BY <1>1 DEF NoGap, AllValid
    <2> QED
      BY <2>1, <2>2, <2>3
  <1>5. OriginInv
    BY <1>1 DEF OriginInv
  <1>6. IndexInv
    BY <1>1, <1>3 DEF IndexInv, ReplayKeys
  <1>7. InflightInv /\ AckedIsDurable
    BY DEF InflightInv, AckedIsDurable
  <1> QED
    BY <1>2, <1>4, <1>5, <1>6, <1>7 DEF IInv

\* A step that leaves the store of every node alone preserves what is said
\* about files and indexes, as long as it fetches nothing.
LEMMA StoreUnchanged ==
  ASSUME FileInv, OriginInv, IndexInv, AckedIsDurable, UNCHANGED storeVars,
         up' = up, acked' = acked,
         \A m \in Nodes : items'[m] \subseteq items[m]
  PROVE  FileInv' /\ OriginInv' /\ IndexInv' /\ AckedIsDurable'
  <1>1. FileInv'
    BY DEF FileInv, storeVars
  <1>2. OriginInv'
    BY DEF OriginInv, AtOrigin, storeVars
  <1>3. IndexInv'
    BY DEF IndexInv, storeVars
  <1>4. AckedIsDurable'
    BY DEF AckedIsDurable, storeVars
  <1> QED
    BY <1>1, <1>2, <1>3, <1>4

\* A posted event that verifies carries another key, or is one its signer holds.
LEMMA PostedIsHeld ==
  ASSUME TypeOK, OriginInv, NEW e \in Posted, VerifyByEventKey(e)
  PROVE  e \in Event /\ AtOrigin(e)
  <1> SUFFICES ASSUME e \notin Strays
               PROVE  e \in Event /\ AtOrigin(e)
    BY StraysAssumption DEF AtOrigin
  <1> DEFINE held == UNION {Rows(log[m]) : m \in Nodes}
  <1>1. PICK f \in held : e = f \/ e = [f EXCEPT !.body = Altered]
    BY DEF Posted
  <1>2. PICK m \in Nodes : f \in Rows(log[m])
    OBVIOUS
  <1>3. log[m] \in Seq(Event)
    BY DEF TypeOK
  <1>4. f \in Event
    BY <1>2, <1>3 DEF Rows
  <1>5. e = f
    BY <1>1, <1>4 DEF VerifyByEventKey, Event
  <1> QED
    BY <1>2, <1>4, <1>5 DEF OriginInv

\* Every step of a node preserves the invariant.
LEMMA NextInv == IInv /\ [Next]_vars => IInv'
  <1> SUFFICES ASSUME IInv, [Next]_vars
               PROVE  IInv'
    OBVIOUS
  <1>0. /\ TypeOK /\ FileInv /\ OriginInv /\ IndexInv /\ InflightInv
        /\ AckedIsDurable
    BY DEF IInv
  <1>1. ASSUME NEW n \in Nodes, SignEvent(n)
        PROVE  IInv'
    <2> DEFINE ev == [signer |-> n, seq |-> lastSeq[n][n] + 1, body |-> issued + 1,
                    key |-> n]
    <2>1. /\ issued \in 0 .. MaxEvents /\ issued < MaxEvents
          /\ lastSeq[n][n] \in Nat
      BY <1>0, <1>1 DEF SignEvent, TypeOK
    <2>2. issued + 1 \in Bodies /\ issued' \in 0 .. MaxEvents
      BY <1>1, <2>1, BoundAssumption DEF Bodies, SignEvent
    <2>3. ev \in Event /\ ev.signer = n /\ Genuine(ev) /\ VerifyByEventKey(ev)
      BY <2>1, <2>2, AlteredAssumption, KeysAssumption
         DEF Event, Genuine, VerifyByEventKey, Bodies
    <2>4. inflight' = [inflight EXCEPT ![n] = @ \cup {ev}]
      BY <1>1 DEF SignEvent
    <2> HIDE DEF ev
    <2>5. TypeOK'
      <3>1. inflight' \in [Nodes -> SUBSET Event]
        BY <1>0, <2>3, <2>4 DEF TypeOK
      <3> QED
        BY <1>0, <1>1, <2>2, <3>1 DEF TypeOK, SignEvent, storeVars, pullVars
    <2>6. InflightInv'
      BY <1>0, <2>3, <2>4 DEF InflightInv, TypeOK
    <2>7. /\ UNCHANGED storeVars /\ up' = up /\ acked' = acked
          /\ \A m \in Nodes : items'[m] \subseteq items[m]
      BY <1>1 DEF SignEvent, pullVars
    <2> QED
      BY <1>0, <2>5, <2>6, <2>7, StoreUnchanged DEF IInv
  <1>2. ASSUME NEW n \in Nodes, NEW e \in inflight[n], AppendEvent(n, e)
        PROVE  IInv'
    <2>1. n \in up /\ e \in Event /\ VerifyByEventKey(e) /\ e.signer = n
      BY <1>0, <1>2 DEF AppendEvent, InflightInv, TypeOK
    <2>2. /\ Accepts(n, e) /\ Write(n, e) /\ up' = up
          /\ \A m \in Nodes : items'[m] \subseteq items[m]
      BY <1>2 DEF AppendEvent, pullVars
    <2>3. /\ log' \in [Nodes -> Seq(Event)]
          /\ lastSeq' \in [Nodes -> [Nodes -> Nat]]
          /\ replayIx' \in [Nodes -> SUBSET (Nodes \X (Nat \ {0}))]
          /\ FileInv' /\ OriginInv' /\ IndexInv'
          /\ \A m \in Nodes : Rows(log[m]) \subseteq Rows(log'[m])
          /\ Rows(log'[n]) = Rows(log[n]) \cup {e}
      BY <1>0, <2>1, <2>2, WriteKeepsInv
    <2>4. TypeOK'
      BY <1>0, <1>2, <2>1, <2>3 DEF TypeOK, AppendEvent, pullVars
    <2>5. InflightInv'
      BY <1>0, <1>2 DEF InflightInv, AppendEvent, TypeOK
    <2>6. AckedIsDurable'
      <3> SUFFICES ASSUME NEW f \in acked'
                   PROVE  f \in Rows(log'[f.signer])
        BY DEF AckedIsDurable
      <3>1. CASE f \in acked
        <4>1. f.signer \in Nodes
          BY <1>0, <3>1 DEF TypeOK, Event
        <4> QED
          BY <1>0, <2>3, <3>1, <4>1 DEF AckedIsDurable
      <3>2. CASE f = e
        BY <2>1, <2>3, <3>2
      <3> QED
        BY <1>2, <3>1, <3>2 DEF AppendEvent
    <2> QED
      BY <2>3, <2>4, <2>5, <2>6 DEF IInv
  <1>3. ASSUME NEW n \in Nodes, NEW e \in inflight[n], RefuseEvent(n, e)
        PROVE  IInv'
    <2>1. TypeOK'
      BY <1>0, <1>3 DEF TypeOK, RefuseEvent, storeVars, pullVars
    <2>2. InflightInv'
      BY <1>0, <1>3 DEF InflightInv, RefuseEvent, pullVars, TypeOK
    <2>3. /\ UNCHANGED storeVars /\ up' = up /\ acked' = acked
          /\ \A m \in Nodes : items'[m] \subseteq items[m]
      BY <1>0, <1>3 DEF RefuseEvent, storeVars, pullVars, TypeOK
    <2> QED
      BY <1>0, <2>1, <2>2, <2>3, StoreUnchanged DEF IInv
  <1>4. ASSUME NEW n \in Nodes, NEW e \in Posted, Ingest(n, e)
        PROVE  IInv'
    <2>1. n \in up /\ VerifyByEventKey(e) /\ Accepts(n, e) /\ Write(n, e)
      BY <1>4 DEF Ingest
    <2>2. e \in Event /\ AtOrigin(e)
      BY <1>0, <2>1, PostedIsHeld
    <2>3. /\ up' = up /\ \A m \in Nodes : items'[m] \subseteq items[m]
      BY <1>4 DEF Ingest, pullVars
    <2>4. /\ log' \in [Nodes -> Seq(Event)]
          /\ lastSeq' \in [Nodes -> [Nodes -> Nat]]
          /\ replayIx' \in [Nodes -> SUBSET (Nodes \X (Nat \ {0}))]
          /\ FileInv' /\ OriginInv' /\ IndexInv'
          /\ \A m \in Nodes : Rows(log[m]) \subseteq Rows(log'[m])
      BY <1>0, <2>1, <2>2, <2>3, WriteKeepsInv
    <2>5. faults' \in 0 .. MaxFaults
      <3>1. faults \in 0 .. MaxFaults
        BY <1>0 DEF TypeOK
      <3>2. faults' = faults \/ (faults < MaxFaults /\ faults' = faults + 1)
        BY <1>4 DEF Ingest, Fault
      <3> QED
        BY <3>1, <3>2, FaultsAssumption
    <2>6. TypeOK'
      BY <1>0, <1>4, <2>4, <2>5 DEF TypeOK, Ingest, pullVars
    <2>7. InflightInv'
      BY <1>0, <1>4 DEF InflightInv, Ingest
    <2>8. AckedIsDurable'
      BY <1>0, <1>4, <2>4 DEF AckedIsDurable, Ingest, TypeOK, Event
    <2> QED
      BY <2>4, <2>6, <2>7, <2>8 DEF IInv
  <1>5. ASSUME NEW n \in Nodes, StartTick(n)
        PROVE  IInv'
    <2>1. TypeOK'
      BY <1>0, <1>5, PeersAssumption DEF TypeOK, StartTick, storeVars
    <2>2. InflightInv'
      BY <1>0, <1>5 DEF InflightInv, StartTick, pullVars
    <2>3. /\ UNCHANGED storeVars /\ up' = up /\ acked' = acked
          /\ \A m \in Nodes : items'[m] \subseteq items[m]
      BY <1>0, <1>5 DEF StartTick, storeVars, pullVars, TypeOK
    <2> QED
      BY <1>0, <2>1, <2>2, <2>3, StoreUnchanged DEF IInv
  <1>6. ASSUME NEW n \in Nodes, NEW m \in Nodes, FetchClock(n, m)
        PROVE  IInv'
    <2>1. Clock(log[m]) \in [Nodes -> Nat]
      BY <1>0, ClockIsTop DEF TypeOK, FileInv
    <2>2. TypeOK'
      BY <1>0, <1>6, <2>1 DEF TypeOK, FetchClock, storeVars
    <2>3. InflightInv'
      BY <1>0, <1>6 DEF InflightInv, FetchClock
    <2>4. /\ UNCHANGED storeVars /\ up' = up /\ acked' = acked
          /\ \A l \in Nodes : items'[l] \subseteq items[l]
      BY <1>6 DEF FetchClock
    <2> QED
      BY <1>0, <2>2, <2>3, <2>4, StoreUnchanged DEF IInv
  <1>7. ASSUME NEW n \in Nodes, NEW m \in Nodes, SkipPeer(n, m)
        PROVE  IInv'
    <2>1. faults' \in 0 .. MaxFaults
      <3>1. faults \in 0 .. MaxFaults
        BY <1>0 DEF TypeOK
      <3>2. faults' = faults \/ (faults < MaxFaults /\ faults' = faults + 1)
        BY <1>7 DEF SkipPeer, Fault
      <3> QED
        BY <3>1, <3>2, FaultsAssumption
    <2>2. TypeOK'
      BY <1>0, <1>7, <2>1 DEF TypeOK, SkipPeer, storeVars
    <2>3. InflightInv'
      BY <1>0, <1>7 DEF InflightInv, SkipPeer
    <2>4. /\ UNCHANGED storeVars /\ up' = up /\ acked' = acked
          /\ \A l \in Nodes : items'[l] \subseteq items[l]
      BY <1>7 DEF SkipPeer
    <2> QED
      BY <1>0, <2>2, <2>3, <2>4, StoreUnchanged DEF IInv
  <1>8. ASSUME NEW n \in Nodes, ReadLocalClock(n)
        PROVE  IInv'
    <2>1. Clock(log[n]) \in [Nodes -> Nat]
      BY <1>0, ClockIsTop DEF TypeOK, FileInv
    <2>2. TypeOK'
      BY <1>0, <1>8, <2>1 DEF TypeOK, ReadLocalClock, storeVars, ZeroClock
    <2>3. InflightInv'
      BY <1>0, <1>8 DEF InflightInv, ReadLocalClock
    <2>4. /\ UNCHANGED storeVars /\ up' = up /\ acked' = acked
          /\ \A l \in Nodes : items'[l] \subseteq items[l]
      BY <1>8 DEF ReadLocalClock
    <2> QED
      BY <1>0, <2>2, <2>3, <2>4, StoreUnchanged DEF IInv
  <1>9. ASSUME NEW n \in Nodes, NEW s \in Nodes, FetchEvents(n, s)
        PROVE  IInv'
    <2> DEFINE batch == EventsAfter(log[peer[n]], s, local[n][s])
    <2>1. peer[n] \in Nodes
      BY <1>0 DEF TypeOK
    <2>2. batch \subseteq Rows(log[peer[n]]) /\ Rows(log[peer[n]]) \subseteq Event
      <3>1. log[peer[n]] \in Seq(Event)
        BY <1>0, <2>1 DEF TypeOK
      <3> QED
        BY <3>1 DEF EventsAfter, Rows
    <2>3. items' = [items EXCEPT ![n] = batch] /\ UNCHANGED storeVars
      BY <1>9 DEF FetchEvents
    <2> HIDE DEF batch
    <2>4. TypeOK'
      BY <1>0, <1>9, <2>2, <2>3 DEF TypeOK, FetchEvents, storeVars
    <2>5. InflightInv'
      BY <1>0, <1>9 DEF InflightInv, FetchEvents
    <2>6. OriginInv'
      BY <1>0, <2>1, <2>2, <2>3 DEF OriginInv, AtOrigin, storeVars, TypeOK
    <2>7. FileInv' /\ IndexInv' /\ AckedIsDurable'
      BY <1>0, <1>9 DEF FileInv, IndexInv, AckedIsDurable, FetchEvents, storeVars
    <2> QED
      BY <2>4, <2>5, <2>6, <2>7 DEF IInv
  <1>10. ASSUME NEW n \in Nodes, NEW s \in Nodes, SkipSigner(n, s)
        PROVE  IInv'
    <2>1. faults' \in 0 .. MaxFaults
      <3>1. faults \in 0 .. MaxFaults
        BY <1>0 DEF TypeOK
      <3>2. faults' = faults \/ (faults < MaxFaults /\ faults' = faults + 1)
        BY <1>10 DEF SkipSigner, Fault
      <3> QED
        BY <3>1, <3>2, FaultsAssumption
    <2>2. TypeOK'
      BY <1>0, <1>10, <2>1 DEF TypeOK, SkipSigner, storeVars
    <2>3. InflightInv'
      BY <1>0, <1>10 DEF InflightInv, SkipSigner
    <2>4. /\ UNCHANGED storeVars /\ up' = up /\ acked' = acked
          /\ \A l \in Nodes : items'[l] \subseteq items[l]
      BY <1>10 DEF SkipSigner
    <2> QED
      BY <1>0, <2>2, <2>3, <2>4, StoreUnchanged DEF IInv
  <1>11. ASSUME NEW n \in Nodes, NEW e \in items[n], ApplyItem(n, e)
        PROVE  IInv'
    <2>1. n \in up /\ e \in Event /\ AtOrigin(e)
      BY <1>0, <1>11 DEF ApplyItem, OriginInv, TypeOK
    <2>2. /\ up' = up /\ acked' = acked /\ inflight' = inflight
          /\ items' \in [Nodes -> SUBSET Event]
          /\ \A m \in Nodes : items'[m] \subseteq items[m]
      BY <1>0, <1>11 DEF ApplyItem, TypeOK
    <2>3. InflightInv'
      BY <1>0, <2>2 DEF InflightInv
    <2>4. CASE VerifyByEventKey(e) /\ Accepts(n, e)
      <3>1. Write(n, e)
        BY <1>11, <2>4 DEF ApplyItem
      <3>2. /\ log' \in [Nodes -> Seq(Event)]
            /\ lastSeq' \in [Nodes -> [Nodes -> Nat]]
            /\ replayIx' \in [Nodes -> SUBSET (Nodes \X (Nat \ {0}))]
            /\ FileInv' /\ OriginInv' /\ IndexInv'
            /\ \A m \in Nodes : Rows(log[m]) \subseteq Rows(log'[m])
        BY <1>0, <2>1, <2>2, <2>4, <3>1, WriteKeepsInv
      <3>3. TypeOK'
        BY <1>0, <1>11, <2>2, <3>2 DEF TypeOK, ApplyItem
      <3>4. AckedIsDurable'
        BY <1>0, <2>2, <3>2 DEF AckedIsDurable, TypeOK, Event
      <3> QED
        BY <2>3, <3>2, <3>3, <3>4 DEF IInv
    <2>5. CASE ~(VerifyByEventKey(e) /\ Accepts(n, e))
      <3>1. UNCHANGED storeVars
        BY <1>11, <2>5 DEF ApplyItem
      <3>2. TypeOK'
        BY <1>0, <1>11, <2>2, <3>1 DEF TypeOK, ApplyItem, storeVars
      <3> QED
        BY <1>0, <2>2, <2>3, <3>1, <3>2, StoreUnchanged DEF IInv
    <2> QED
      BY <2>4, <2>5
  <1>12. ASSUME NEW n \in Nodes, NextSigner(n)
        PROVE  IInv'
    <2>1. TypeOK'
      BY <1>0, <1>12 DEF TypeOK, NextSigner, storeVars, pullVars
    <2>2. InflightInv'
      BY <1>0, <1>12 DEF InflightInv, NextSigner, pullVars
    <2>3. /\ UNCHANGED storeVars /\ up' = up /\ acked' = acked
          /\ \A m \in Nodes : items'[m] \subseteq items[m]
      BY <1>0, <1>12 DEF NextSigner, storeVars, pullVars, TypeOK
    <2> QED
      BY <1>0, <2>1, <2>2, <2>3, StoreUnchanged DEF IInv
  <1>13. ASSUME NEW n \in Nodes, EndPull(n)
        PROVE  IInv'
    <2>1. TypeOK'
      BY <1>0, <1>13 DEF TypeOK, EndPull, storeVars, pullVars, ZeroClock
    <2>2. InflightInv'
      BY <1>0, <1>13 DEF InflightInv, EndPull, pullVars
    <2>3. /\ UNCHANGED storeVars /\ up' = up /\ acked' = acked
          /\ \A m \in Nodes : items'[m] \subseteq items[m]
      BY <1>0, <1>13 DEF EndPull, storeVars, pullVars, TypeOK
    <2> QED
      BY <1>0, <2>1, <2>2, <2>3, StoreUnchanged DEF IInv
  <1>14. ASSUME NEW n \in Nodes, Crash(n)
        PROVE  IInv'
    <2>1. faults' \in 0 .. MaxFaults
      BY <1>0, <1>14, FaultsAssumption DEF TypeOK, Crash, Fault
    <2>2. TypeOK'
      BY <1>0, <1>14, <2>1 DEF TypeOK, Crash, ZeroClock
    <2>3. FileInv' /\ AckedIsDurable'
      BY <1>0, <1>14 DEF FileInv, AckedIsDurable, Crash
    <2>4. OriginInv'
      BY <1>0, <1>14 DEF OriginInv, AtOrigin, Crash, TypeOK
    <2>5. IndexInv'
      BY <1>0, <1>14 DEF IndexInv, Crash, TypeOK
    <2>6. InflightInv'
      BY <1>0, <1>14 DEF InflightInv, Crash, TypeOK
    <2> QED
      BY <2>2, <2>3, <2>4, <2>5, <2>6 DEF IInv
  <1>15. ASSUME NEW n \in Nodes, Restart(n)
        PROVE  IInv'
    <2>1. /\ log[n] \in Seq(Event) /\ HasTop(log[n])
          /\ Rows(log[n]) \subseteq Event
      BY <1>0 DEF TypeOK, FileInv, Rows
    <2>2. /\ Clock(log[n]) \in [Nodes -> Nat]
          /\ \A s \in Nodes : IsTop(log[n], s, Clock(log[n])[s])
      BY <2>1, ClockIsTop
    <2>3. ReplayKeys(log[n]) \subseteq Nodes \X (Nat \ {0})
      BY <2>1 DEF ReplayKeys, Event
    <2>4. TypeOK'
      BY <1>0, <1>15, <2>2, <2>3 DEF TypeOK, Restart, pullVars
    <2>5. FileInv' /\ AckedIsDurable' /\ OriginInv' /\ InflightInv'
      BY <1>0, <1>15 DEF FileInv, AckedIsDurable, OriginInv, AtOrigin, InflightInv,
                        Restart, pullVars
    <2>6. IndexInv'
      BY <1>0, <1>15, <2>2 DEF IndexInv, Restart, TypeOK
    <2> QED
      BY <2>4, <2>5, <2>6 DEF IInv
  <1>16. CASE UNCHANGED vars
    <2>1. TypeOK'
      BY <1>0, <1>16 DEF TypeOK, vars
    <2>2. InflightInv'
      BY <1>0, <1>16 DEF InflightInv, vars
    <2>3. /\ UNCHANGED storeVars /\ up' = up /\ acked' = acked
          /\ \A m \in Nodes : items'[m] \subseteq items[m]
      BY <1>16 DEF vars, storeVars
    <2> QED
      BY <1>0, <2>1, <2>2, <2>3, StoreUnchanged DEF IInv
  <1> QED
    BY <1>1, <1>2, <1>3, <1>4, <1>5, <1>6, <1>7, <1>8, <1>9, <1>10, <1>11, <1>12, <1>13, <1>14, <1>15, <1>16 DEF Next, Handlers, SyncLoop

-----------------------------------------------------------------------------
(* Theorems *)

\* Every reachable state satisfies the inductive invariant.
THEOREM Invariance == Spec => []IInv
  <1>1. Init => IInv
    BY InitInv
  <1>2. IInv /\ [Next]_vars => IInv'
    BY NextInv
  <1> QED
    BY <1>1, <1>2, PTL DEF Spec

\* Every variable keeps to its type.
THEOREM TypeCorrect == Spec => []TypeOK
  <1>1. IInv => TypeOK
    BY DEF IInv
  <1> QED
    BY <1>1, Invariance, PTL

\* The integrity check of the store passes on every node, in every state, for
\* any number of nodes and any topology.
THEOREM ChainAlwaysVerifies == Spec => []ChainVerifies
  <1>1. IInv => ChainVerifies
    BY DEF IInv, FileInv, ChainVerifies
  <1> QED
    BY <1>1, Invariance, PTL

\* In a file in order, a signer's number occurs once.
LEMMA NumberOccursOnce ==
  ASSUME NEW file \in Seq(Event), Ascending(file),
         NEW e \in Rows(file), NEW f \in Rows(file),
         e.signer = f.signer, e.seq = f.seq
  PROVE  e = f
  <1>1. PICK i \in DOMAIN file : file[i] = e
    BY DEF Rows
  <1>2. PICK j \in DOMAIN file : file[j] = f
    BY DEF Rows
  <1>3. /\ DOMAIN file = 1 .. Len(file) /\ Len(file) \in Nat
        /\ \A h \in DOMAIN file : file[h].seq \in Nat
    <2>1. \A h \in DOMAIN file : file[h] \in Event
      OBVIOUS
    <2> QED
      BY <2>1 DEF Event
  <1>4. i = j
    BY <1>1, <1>2, <1>3 DEF Ascending
  <1> QED
    BY <1>1, <1>2, <1>4

\* No two nodes ever hold different events under one signer and number that were
\* both signed with that signer's key.
THEOREM NodesAgree == Spec => []Agreement
  <1>1. IInv => Agreement
    <2> SUFFICES ASSUME IInv, NEW m \in Nodes, NEW n \in Nodes,
                        NEW e \in Rows(log[m]), NEW f \in Rows(log[n]),
                        e.signer = f.signer, e.seq = f.seq, Genuine(e), Genuine(f)
                 PROVE  e = f
      BY DEF Agreement
    <2>1. e \in Event /\ e.signer \in Nodes
      <3>1. log[m] \in Seq(Event)
        BY DEF IInv, TypeOK
      <3>2. e \in Event
        BY <3>1 DEF Rows
      <3> QED
        BY <3>2 DEF Event
    <2>2. e \in Rows(log[e.signer]) /\ f \in Rows(log[e.signer])
      BY DEF IInv, OriginInv, AtOrigin
    <2>3. log[e.signer] \in Seq(Event) /\ Ascending(log[e.signer])
      BY <2>1 DEF IInv, TypeOK, FileInv
    <2> QED
      BY <2>2, <2>3, NumberOccursOnce
  <1> QED
    BY <1>1, Invariance, PTL

\* An acknowledged event is never lost by its node.
THEOREM AckedStays == Spec => []AckedIsDurable
  <1>1. IInv => AckedIsDurable
    BY DEF IInv
  <1> QED
    BY <1>1, Invariance, PTL

\* What a step does to the files: nothing, or one node appends an event that it
\* accepts and that is valid: its own, held by its signer, or with another key.
LEMMA StepWritesOne ==
  ASSUME IInv, [Next]_vars
  PROVE  \/ UNCHANGED log
         \/ \E n \in up, e \in Event :
              /\ Accepts(n, e) /\ Write(n, e) /\ VerifyByEventKey(e)
              /\ (e.signer = n /\ Genuine(e)) \/ AtOrigin(e)
  <1>1. ASSUME NEW n \in Nodes, NEW e \in inflight[n], AppendEvent(n, e)
        PROVE  /\ n \in up /\ e \in Event /\ Accepts(n, e) /\ Write(n, e)
               /\ VerifyByEventKey(e) /\ e.signer = n /\ Genuine(e)
    BY <1>1 DEF AppendEvent, IInv, InflightInv, TypeOK
  <1>2. ASSUME NEW n \in Nodes, NEW e \in Posted, Ingest(n, e)
        PROVE  /\ n \in up /\ e \in Event /\ Accepts(n, e) /\ Write(n, e)
               /\ VerifyByEventKey(e) /\ AtOrigin(e)
    <2>1. n \in up /\ VerifyByEventKey(e) /\ Accepts(n, e) /\ Write(n, e)
      BY <1>2 DEF Ingest
    <2>2. e \in Event /\ AtOrigin(e)
      BY <2>1, PostedIsHeld DEF IInv
    <2> QED
      BY <2>1, <2>2
  <1>3. ASSUME NEW n \in Nodes, NEW e \in items[n], ApplyItem(n, e)
        PROVE  \/ UNCHANGED log
               \/ /\ n \in up /\ e \in Event /\ Accepts(n, e) /\ Write(n, e)
                  /\ VerifyByEventKey(e) /\ AtOrigin(e)
    <2>1. n \in up /\ e \in Event /\ AtOrigin(e)
      BY <1>3 DEF ApplyItem, IInv, OriginInv, TypeOK
    <2> QED
      BY <1>3, <2>1 DEF ApplyItem, storeVars
  <1>4. CASE UNCHANGED vars
    BY <1>4 DEF vars
  <1>5. ASSUME NEW n \in Nodes, SignEvent(n)
        PROVE  UNCHANGED log
    BY <1>5 DEF SignEvent, storeVars
  <1>6. ASSUME NEW n \in Nodes, NEW e \in inflight[n], RefuseEvent(n, e)
        PROVE  UNCHANGED log
    BY <1>6 DEF RefuseEvent, storeVars
  <1>7. ASSUME NEW n \in Nodes,
               \/ StartTick(n)
               \/ \E m \in Nodes : FetchClock(n, m) \/ SkipPeer(n, m)
               \/ ReadLocalClock(n)
               \/ \E s \in Nodes : FetchEvents(n, s) \/ SkipSigner(n, s)
               \/ NextSigner(n)
               \/ EndPull(n)
        PROVE  UNCHANGED log
    BY <1>7 DEF StartTick, FetchClock, SkipPeer, ReadLocalClock, FetchEvents,
                SkipSigner, NextSigner, EndPull, storeVars
  <1>8. ASSUME NEW n \in Nodes, Crash(n) \/ Restart(n)
        PROVE  UNCHANGED log
    BY <1>8 DEF Crash, Restart
  <1> QED
    BY <1>1, <1>2, <1>3, <1>4, <1>5, <1>6, <1>7, <1>8
       DEF Next, Handlers, SyncLoop

\* Nothing that is in a file is ever dropped, rewritten or reordered.
THEOREM FilesOnlyGrow == Spec => AppendOnly
  <1>1. IInv /\ [Next]_vars =>
          [\A n \in Nodes : /\ Len(log[n]) =< Len(log'[n])
                            /\ SubSeq(log'[n], 1, Len(log[n])) = log[n]]_log
    <2> SUFFICES ASSUME IInv, [Next]_vars, log' # log, NEW n \in Nodes
                 PROVE  /\ Len(log[n]) =< Len(log'[n])
                        /\ SubSeq(log'[n], 1, Len(log[n])) = log[n]
      OBVIOUS
    <2>1. PICK m \in up, e \in Event : Write(m, e)
      BY StepWritesOne
    <2>2. log \in [Nodes -> Seq(Event)] /\ log[n] \in Seq(Event)
      BY DEF IInv, TypeOK
    <2>3. log'[n] = log[n] \/ log'[n] = Append(log[n], e)
      BY <2>1, <2>2 DEF Write
    <2>4. SubSeq(log[n], 1, Len(log[n])) = log[n]
      BY <2>2
    <2>5. SubSeq(Append(log[n], e), 1, Len(log[n])) = log[n]
      BY <2>2
    <2>6. Len(log[n]) \in Nat /\ Len(Append(log[n], e)) = Len(log[n]) + 1
      BY <2>2
    <2> QED
      BY <2>3, <2>4, <2>5, <2>6
  <1> QED
    BY <1>1, Invariance, PTL DEF Spec, AppendOnly

\* Two nodes whose clocks agree, and that took up no event with another key, hold
\* the same events: the clock comparison of pullFromPeer misses nothing.
THEOREM ClockIsEnough == Spec => []ClockTellsAll
  <1>1. ASSUME IInv, NEW m \in Nodes, NEW n \in Nodes,
               Clock(log[m]) = Clock(log[n]), NEW e \in Rows(log[m]),
               \A g \in Rows(log[m]) \cup Rows(log[n]) : Genuine(g)
        PROVE  e \in Rows(log[n])
    <2>1. /\ log[m] \in Seq(Event) /\ log[n] \in Seq(Event)
          /\ HasTop(log[m]) /\ HasTop(log[n]) /\ NoGap(log[n])
      BY <1>1 DEF IInv, TypeOK, FileInv
    <2>2. e \in Event
      BY <2>1 DEF Rows
    <2>3. e.signer \in Nodes /\ e.seq \in Nat \ {0}
      BY <2>2 DEF Event
    <2> DEFINE top == Clock(log[n])[e.signer]
    <2>4. IsTop(log[m], e.signer, top) /\ IsTop(log[n], e.signer, top) /\ top \in Nat
      BY <1>1, <2>1, <2>3, ClockIsTop
    <2> HIDE DEF top
    <2>5. e.seq \in 1 .. top
      BY <2>3, <2>4 DEF IsTop
    <2>6. PICK t \in Rows(log[n]) : t.signer = e.signer /\ t.seq = top
      BY <2>4, <2>5 DEF IsTop
    <2>7. PICK f \in Rows(log[n]) : f.signer = e.signer /\ f.seq = e.seq
      BY <2>1, <2>5, <2>6 DEF NoGap
    <2>8. /\ e \in Rows(log[e.signer]) /\ f \in Rows(log[e.signer])
          /\ log[e.signer] \in Seq(Event) /\ Ascending(log[e.signer])
      BY <1>1, <2>3, <2>7 DEF IInv, OriginInv, AtOrigin, TypeOK, FileInv
    <2>9. e = f
      BY <2>7, <2>8, NumberOccursOnce
    <2> QED
      BY <2>7, <2>9
  <1>2. IInv => ClockTellsAll
    <2> SUFFICES ASSUME IInv, NEW m \in Nodes, NEW n \in Nodes,
                        Clock(log[m]) = Clock(log[n]),
                        \A g \in Rows(log[m]) \cup Rows(log[n]) : Genuine(g)
                 PROVE  Rows(log[m]) = Rows(log[n])
      BY DEF ClockTellsAll
    <2> QED
      BY <1>1
  <1> QED
    BY <1>2, Invariance, PTL

\* The index a running server keeps in memory is the one a restart would read
\* back from its file.
THEOREM IndexIsExact == Spec => []IndexMatchesFile
  <1>1. ASSUME IInv, NEW n \in up
        PROVE  lastSeq[n] = Clock(log[n]) /\ replayIx[n] = ReplayKeys(log[n])
    <2>1. /\ n \in Nodes /\ log[n] \in Seq(Event) /\ HasTop(log[n])
          /\ lastSeq[n] \in [Nodes -> Nat]
      <3>1. n \in Nodes
        BY <1>1 DEF IInv, TypeOK
      <3> QED
        BY <1>1, <3>1 DEF IInv, TypeOK, FileInv
    <2>2. /\ Clock(log[n]) \in [Nodes -> Nat]
          /\ \A s \in Nodes : IsTop(log[n], s, Clock(log[n])[s])
      BY <2>1, ClockIsTop
    <2>3. ASSUME NEW s \in Nodes
          PROVE  lastSeq[n][s] = Clock(log[n])[s]
      <3>1. IsTop(log[n], s, lastSeq[n][s]) /\ lastSeq[n][s] \in Nat
        BY <1>1, <2>1 DEF IInv, IndexInv
      <3>2. IsTop(log[n], s, Clock(log[n])[s]) /\ Clock(log[n])[s] \in Nat
        BY <2>2
      <3> QED
        BY <2>1, <3>1, <3>2, TopUnique
    <2> QED
      BY <1>1, <2>1, <2>2, <2>3 DEF IInv, IndexInv
  <1>2. IInv => IndexMatchesFile
    BY <1>1 DEF IndexMatchesFile
  <1> QED
    BY <1>2, Invariance, PTL

-----------------------------------------------------------------------------
(* Refinement *)

\* An appended event is published by its signer, learned by another node, or
\* taken up with another key.
LEMMA WriteRefines ==
  ASSUME IInv, NEW n \in up, NEW e \in Event, Accepts(n, e), Write(n, e),
         VerifyByEventKey(e), (e.signer = n /\ Genuine(e)) \/ AtOrigin(e)
  PROVE  RL!Next
  <1> DEFINE seen == [m \in Nodes |-> Rows(log[m])]
             seenNext == [m \in Nodes |-> Rows(log'[m])]
             top == lastSeq[n][e.signer]
  <1>1. /\ n \in Nodes /\ log \in [Nodes -> Seq(Event)] /\ log[n] \in Seq(Event)
        /\ e.signer \in Nodes /\ e.seq \in Nat \ {0}
    <2>1. n \in Nodes /\ log \in [Nodes -> Seq(Event)]
      BY DEF IInv, TypeOK
    <2> QED
      BY <2>1 DEF Event
  <1>2. top \in Nat /\ e.seq = top + 1 /\ IsTop(log[n], e.signer, top)
    <2>1. top \in Nat
      BY <1>1 DEF IInv, TypeOK
    <2> QED
      BY <1>1, <2>1 DEF IInv, IndexInv, Accepts
  <1> HIDE DEF top
  <1>3. seenNext = [seen EXCEPT ![n] = @ \cup {e}] /\ e \in seenNext[n]
    <2>1. Rows(log'[n]) = Rows(log[n]) \cup {e}
      BY <1>1, RowsAppend DEF Write
    <2>2. \A m \in Nodes : m # n => log'[m] = log[m]
      BY <1>1 DEF Write
    <2> QED
      BY <1>1, <2>1, <2>2
  <1>4. \A k \in 1 .. e.seq - 1 : \E f \in Rows(log[n]) : f.signer = e.signer /\ f.seq = k
    <2> SUFFICES ASSUME NEW k \in 1 .. top
                 PROVE  \E f \in Rows(log[n]) : f.signer = e.signer /\ f.seq = k
      BY <1>2
    <2>1. PICK t \in Rows(log[n]) : t.signer = e.signer /\ t.seq = top
      BY <1>2 DEF IsTop
    <2> QED
      BY <1>1, <2>1 DEF IInv, FileInv, NoGap
  <1>5. \A f \in Rows(log[n]) : f.signer = e.signer => f.seq < e.seq
    <2>1. \A f \in Rows(log[n]) : f \in Event
      BY <1>1 DEF Rows
    <2>2. \A f \in Rows(log[n]) : f.seq \in Nat
      BY <2>1 DEF Event
    <2> QED
      BY <1>2, <2>2 DEF IsTop
  <1>6. CASE e.signer = n /\ Genuine(e)
    <2>1. RL!Publish(n, e)
      BY <1>1, <1>3, <1>4, <1>5, <1>6
         DEF RL!Publish, RL!KnowsUpTo, RL!Fresh, RL!VerifyByEventKey,
             VerifyByEventKey, RL!Genuine, Genuine
    <2> QED
      BY <1>1, <1>3, <2>1 DEF RL!Next
  <1>7. CASE e.signer # n /\ Genuine(e)
    <2>1. e \in Rows(log[e.signer])
      BY <1>7 DEF AtOrigin
    <2>2. RL!Learn(n, e)
      BY <1>1, <1>3, <1>4, <1>5, <1>7, <2>1
         DEF RL!Learn, RL!KnowsUpTo, RL!Fresh, RL!Genuine, Genuine
    <2> QED
      BY <1>1, <1>3, <2>2 DEF RL!Next
  <1>8. CASE ~Genuine(e)
    <2>1. RL!Adopt(n, e)
      BY <1>1, <1>3, <1>4, <1>5, <1>8
         DEF RL!Adopt, RL!KnowsUpTo, RL!Fresh, RL!VerifyByEventKey,
             VerifyByEventKey, RL!Genuine, Genuine
    <2> QED
      BY <1>1, <1>3, <2>1 DEF RL!Next
  <1> QED
    BY <1>6, <1>7, <1>8

\* The files of the nodes implement the abstract replicated log.
THEOREM RefinesReplicatedLog == Spec => ReplicatesLog
  <1>1. Init => RL!Init
    BY DEF Init, RL!Init, Rows
  <1>2. IInv /\ [Next]_vars => [RL!Next]_([n \in Nodes |-> Rows(log[n])])
    <2> SUFFICES ASSUME IInv, [Next]_vars, ~ UNCHANGED log
                 PROVE  RL!Next
      OBVIOUS
    <2> QED
      BY StepWritesOne, WriteRefines
  <1> QED
    BY <1>1, <1>2, Invariance, PTL DEF Spec, ReplicatesLog, RL!Spec

=============================================================================
