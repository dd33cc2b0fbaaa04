---------------------------- MODULE DataDirProofs ----------------------------
(***************************************************************************)
(* The safety of DataDir for every number of rows, keys and failures, and  *)
(* for every set of commands as long as one process runs at a time.  What  *)
(* the keyring promises beside a running server is proved for one command  *)
(* at a time.                                                              *)
(***************************************************************************)
EXTENDS DataDir, SequenceTheorems, WellFoundedInduction, TLAPS

(***************************************************************************)
(* Types.  A keyring without an active key has no key at all.              *)
(***************************************************************************)
Keys == KeyIds \cup {Plain, Torn, Unended}
Rows == {r \in [seq : Nat, body : Nat, key : Keys, by : Nat] : r.key = Unended => r.body = 0}
Rings == {NoRing} \cup {r \in [active : KeyIds, keys : SUBSET KeyIds] : r.active \in r.keys}
Opened == {"load", "ready", "read", "truncate", "write"}

DiskTypes ==
  /\ file \in Seq(Rows)
  /\ ringFile \in Rings \cup {BrokenRing}
  /\ keyFile \in Nat \cup {Emptied}
  /\ schema \in {1, 2, Emptied}
  /\ enabled \in BOOLEAN /\ shared \in BOOLEAN /\ tear \in BOOLEAN
  /\ issued \in Nat /\ keys \in 0 .. MaxKeys /\ ids \in Nat

MemTypes ==
  /\ pc \in [Procs -> {"off", "key", "keyfile", "open"} \cup Opened]
  /\ cmd \in [Procs -> Cmds \cup {"serve", "none"}]
  /\ id \in [Procs -> Nat]
  /\ ring \in [Procs -> Rings]
  /\ lastSeq \in [Procs -> Nat]
  /\ buf \in [Procs -> Seq(Rows)]
  /\ pos \in [Procs -> Nat]

TypeInv == DiskTypes /\ MemTypes

\* The first keyring is made after the migration.
SchemaInv ==
  /\ schema = 1 => ringFile = NoRing
  /\ \A p \in Procs :
       pc[p] = "ready" \/ (pc[p] \in Stages /\ ring[p].active # 0) => schema # 1

(***************************************************************************)
(* Beside the server: the one command that runs knows the keyring on disk, *)
(* and every other process knows a part of it.                             *)
(***************************************************************************)
Covered(ids_) == {r \in Rows : r.key \in KeyIds => r.key \in ids_}

RingInv ==
  /\ cmd[Server] \in {"serve", "none"}
  /\ \A c \in Commands : pc[c] \in Opened => ring[c] = ringFile
  /\ ringFile # BrokenRing =>
       /\ \A p \in Procs : ring[p].keys \subseteq ringFile.keys
       /\ file \in Seq(Covered(ringFile.keys))

(***************************************************************************)
(* One process at a time.                                                  *)
(***************************************************************************)
OneRuns == \A p, q \in Procs : pc[p] # "off" /\ pc[q] # "off" => p = q
RingKnown == \A p \in Procs : pc[p] \in Opened => ring[p] = ringFile

\* The rows a process has written are those it has read, sealed anew.
Rewriting ==
  \A p \in Procs :
    /\ pc[p] = "truncate" => buf[p] = file
    /\ pc[p] = "write" =>
         /\ pos[p] = Len(file) /\ Len(file) =< Len(buf[p])
         /\ \A i \in 1 .. Len(file) : file[i] = Sealed(buf[p][i], ring[p])

SignedBy(rows, ids_) == \A i \in DOMAIN rows : rows[i].by \in ids_
KeyInv ==
  /\ SignedBy(file, {keyFile, NoId})
  /\ \A p \in Procs :
       /\ pc[p] \in {"key", "keyfile"} => SignedBy(file, {NoId})
       /\ pc[p] \in {"open"} \cup Opened /\ cmd[p] \in Signing => id[p] = keyFile
       /\ pc[p] = "write" => SignedBy(buf[p], {keyFile, NoId})

Numbered(rows) == \A i \in DOMAIN rows : rows[i].seq = i
NumbersInv ==
  ~tear =>
    /\ Numbered(file)
    /\ \A i \in DOMAIN file : file[i].key # Unended
    /\ \A p \in Procs :
         /\ pc[p] = "ready" => lastSeq[p] = Len(file)
         /\ pc[p] \in {"read", "truncate"} /\ ~Migrates(p) => lastSeq[p] = Len(file)
         /\ pc[p] = "write" => Numbered(buf[p])
         /\ pc[p] = "write" /\ ~Migrates(p) => lastSeq[p] = Len(buf[p])

AckedInv ==
  "write" \notin cut =>
    /\ (\A p \in Procs : pc[p] # "write") => acked \subseteq BodiesOf(file) \cup joined
    /\ \A p \in Procs : pc[p] = "write" => acked \subseteq BodiesOf(buf[p]) \cup joined

NoPlain(rows) == \A i \in DOMAIN rows : rows[i].key # Plain
SealedInv ==
  /\ enabled => ringFile # NoRing
  /\ \A p \in Procs :
       (pc[p] = "ready" /\ cmd[p] \notin Signing) \/ (pc[p] = "read" /\ ~Migrates(p))
         => Readable(file, ring[p])
  /\ cut = {} =>
       /\ enabled => NoPlain(file)
       /\ ringFile \notin {NoRing, BrokenRing} /\ (\A p \in Procs : pc[p] \notin Stages)
            => NoPlain(file)

AloneInv ==
  ~shared =>
    OneRuns /\ RingKnown /\ Rewriting /\ KeyInv /\ NumbersInv /\ AckedInv /\ SealedInv

-----------------------------------------------------------------------------
(* Rows and files *)

LEMMA RowTypes ==
  /\ TornRow \in Rows /\ UnendedRow \in Rows
  /\ TornRow.key = Torn /\ TornRow.by = NoId /\ TornRow.body = 0
  /\ UnendedRow.key = Unended /\ UnendedRow.by = NoId /\ UnendedRow.body = 0
  <1>1. TornRow = [seq |-> 0, body |-> 0, key |-> Torn, by |-> NoId]
    BY DEF TornRow
  <1>2. UnendedRow = [seq |-> 0, body |-> 0, key |-> Unended, by |-> NoId]
    BY <1>1 DEF UnendedRow
  <1> QED
    BY <1>1, <1>2, MarksAssumption DEF Rows, Keys, NoId

LEMMA RingTypes ==
  ASSUME NEW r \in Rings
  PROVE  /\ r.keys \subseteq KeyIds
         /\ r.active = 0 => r = NoRing /\ r.keys = {}
         /\ r.active # 0 => r.active \in r.keys /\ r.active \in KeyIds
         /\ r # BrokenRing
         /\ r = NoRing => r.active = 0
  BY BoundsAssumption DEF Rings, NoRing, BrokenRing, KeyIds

LEMMA SealedTypes ==
  ASSUME NEW row \in Rows, NEW r \in Rings
  PROVE  /\ Sealed(row, r) \in Rows
         /\ Sealed(row, r).seq = row.seq /\ Sealed(row, r).body = row.body
         /\ Sealed(row, r).by = row.by
         /\ Sealed(row, r).key = IF r.active = 0 THEN Plain ELSE r.active
  <1>1. row \in [seq : Nat, body : Nat, key : Keys, by : Nat]
    BY DEF Rows
  <1>2. (IF r.active = 0 THEN Plain ELSE r.active) \in Keys \ {Unended}
    BY RingTypes, MarksAssumption DEF Keys, KeyIds
  <1> QED
    BY <1>1, <1>2 DEF Sealed, Rows

LEMMA WrittenRows ==
  ASSUME TypeInv, NEW row \in Rows
  PROVE  /\ Written(row) \in Seq(Rows)
         /\ BodiesOf(file) \subseteq BodiesOf(Written(row))
         /\ ~LastUnended => /\ Written(row) = Append(file, row)
                            /\ row.body \in BodiesOf(Written(row))
         /\ \A i \in DOMAIN Written(row) :
              \/ Written(row)[i] \in {row, TornRow}
              \/ i \in DOMAIN file /\ Written(row)[i] = file[i]
  <1>1. file \in Seq(Rows) /\ DOMAIN file = 1 .. Len(file) /\ Len(file) \in Nat
    BY LenProperties DEF TypeInv, DiskTypes, MemTypes
  <1>2. CASE LastUnended
    <2> DEFINE new == [file EXCEPT ![Len(file)] = TornRow]
    <2>1. Written(row) = new
      BY <1>2 DEF Written
    <2>2. Len(file) \in 1 .. Len(file)
      BY <1>1, <1>2, EmptySeq DEF LastUnended
    <2>3. /\ new \in Seq(Rows) /\ Len(new) = Len(file)
          /\ \A i \in 1 .. Len(file) : new[i] = IF i = Len(file) THEN TornRow ELSE file[i]
      BY <1>1, <2>2, ExceptSeq, RowTypes
    <2>4. DOMAIN new = 1 .. Len(file)
      BY <1>1
    <2>5. file[Len(file)].body = TornRow.body
      <3>1. file[Len(file)] \in Rows
        BY <1>1, <2>2, ElementOfSeq
      <3> QED
        BY <1>2, <3>1, RowTypes DEF LastUnended, Rows
    <2> HIDE DEF new
    <2>6. \A i \in DOMAIN file : new[i].body = file[i].body
      BY <1>1, <2>3, <2>5
    <2> QED
      BY <1>1, <1>2, <2>1, <2>3, <2>4, <2>6 DEF BodiesOf
  <1>3. CASE ~LastUnended
    <2> DEFINE new == Append(file, row)
    <2>1. Written(row) = new
      BY <1>3 DEF Written
    <2>2. /\ new \in Seq(Rows) /\ Len(new) = Len(file) + 1
          /\ \A i \in 1 .. Len(file) : new[i] = file[i]
          /\ new[Len(file) + 1] = row
      BY <1>1, AppendProperties
    <2>3. DOMAIN new = 1 .. Len(file) + 1
      BY <2>2, LenProperties
    <2> HIDE DEF new
    <2>4. row.body \in BodiesOf(new) /\ BodiesOf(file) \subseteq BodiesOf(new)
      BY <1>1, <2>2, <2>3 DEF BodiesOf
    <2>5. \A i \in DOMAIN new : new[i] = row \/ (i \in DOMAIN file /\ new[i] = file[i])
      BY <1>1, <2>2, <2>3
    <2> QED
      BY <1>3, <2>1, <2>2, <2>4, <2>5 DEF new
  <1> QED
    BY <1>2, <1>3

\* A row written over what is there, whoever has written that.
LEMMA RowIsPut ==
  ASSUME TypeInv, NEW p \in Procs, WriteRow(p), NEW S, file \in Seq(S), TornRow \in S,
         Sealed(buf[p][pos[p] + 1], ring[p]) \in S
  PROVE  file' \in Seq(S)
  <1> DEFINE at == pos[p] + 1
             row == Sealed(buf[p][at], ring[p])
  <1>1. at \in Nat /\ at - 1 \in Nat /\ Len(file) \in Nat /\ DOMAIN file = 1 .. Len(file)
    BY LenProperties DEF TypeInv, DiskTypes, MemTypes
  <1>2. CASE at > Len(file)
    <2>1. file' = Append(file, row)
      BY <1>2 DEF WriteRow
    <2> HIDE DEF row
    <2> QED
      BY <2>1, AppendProperties DEF row
  <1>3. CASE ~(at > Len(file))
    <2>1. PICK rest \in {<<>>, <<TornRow>>} :
            file' = SubSeq(file, 1, at - 1) \o <<row>> \o rest \o SubSeq(file, at + 1, Len(file))
      BY <1>3 DEF WriteRow
    <2> HIDE DEF at, row
    <2>2. /\ \A i \in 1 .. at - 1 : file[i] \in S
          /\ \A i \in at + 1 .. Len(file) : file[i] \in S
      BY <1>1, <1>3, ElementOfSeq
    <2>3. SubSeq(file, 1, at - 1) \in Seq(S) /\ SubSeq(file, at + 1, Len(file)) \in Seq(S)
      BY <1>1, <2>2, SubSeqProperties
    <2>4. <<row>> \in Seq(S) /\ rest \in Seq(S)
      <3>1. row \in S
        BY DEF row, at
      <3>2. \A x \in S : <<x>> \in Seq(S)
        OBVIOUS
      <3>3. <<>> \in Seq(S) /\ <<TornRow>> \in Seq(S)
        BY <3>2, EmptySeq
      <3> QED
        BY <3>1, <3>2, <3>3, Zenon
    <2>5. SubSeq(file, 1, at - 1) \o <<row>> \in Seq(S)
      BY <2>3, <2>4, ConcatProperties
    <2>6. SubSeq(file, 1, at - 1) \o <<row>> \o rest \in Seq(S)
      BY <2>4, <2>5, ConcatProperties
    <2> QED
      BY <2>1, <2>3, <2>6, ConcatProperties
  <1> QED
    BY <1>2, <1>3

\* A row written in part.
LEMMA PartIsPut ==
  ASSUME TypeInv, NEW p \in Procs, RewriteCutShort(p), NEW S, file \in Seq(S),
         TornRow \in S, UnendedRow \in S
  PROVE  /\ file' \in Seq(S)
         /\ \A i \in DOMAIN file' :
              \/ file'[i] \in {TornRow, UnendedRow}
              \/ i \in DOMAIN file /\ file'[i] = file[i]
  <1> DEFINE at == pos[p] + 1
  <1>1. at \in Nat /\ at >= 1 /\ Len(file) \in Nat /\ DOMAIN file = 1 .. Len(file)
    BY LenProperties DEF TypeInv, DiskTypes, MemTypes
  <1>2. CASE at > Len(file)
    <2>1. file' = Append(file, UnendedRow)
      BY <1>2 DEF RewriteCutShort
    <2>2. /\ file' \in Seq(S) /\ Len(file') = Len(file) + 1
          /\ \A i \in 1 .. Len(file) : file'[i] = file[i]
          /\ file'[Len(file) + 1] = UnendedRow
      BY <2>1, AppendProperties
    <2>3. DOMAIN file' = 1 .. Len(file) + 1
      BY <2>2, LenProperties
    <2> QED
      BY <1>1, <2>2, <2>3
  <1>3. CASE ~(at > Len(file))
    <2>1. PICK part \in {TornRow, UnendedRow} : file' = [file EXCEPT ![at] = part]
      BY <1>3 DEF RewriteCutShort
    <2> HIDE DEF at
    <2>2. at \in 1 .. Len(file) /\ part \in S
      BY <1>1, <1>3, <2>1
    <2>3. /\ file' \in Seq(S) /\ Len(file') = Len(file)
          /\ \A i \in 1 .. Len(file) : file'[i] = IF i = at THEN part ELSE file[i]
      BY <2>1, <2>2, ExceptSeq
    <2>4. DOMAIN file' = 1 .. Len(file)
      BY <2>3, LenProperties
    <2> QED
      BY <1>1, <2>1, <2>3, <2>4
  <1> QED
    BY <1>2, <1>3

LEMMA NextRow ==
  ASSUME TypeInv, NEW p \in Procs, WriteRow(p)
  PROVE  /\ pos[p] + 1 \in DOMAIN buf[p] /\ buf[p][pos[p] + 1] \in Rows
         /\ ring[p] \in Rings
         /\ Sealed(buf[p][pos[p] + 1], ring[p]) \in Rows
  <1>1. /\ buf[p] \in Seq(Rows) /\ ring[p] \in Rings /\ pos[p] \in Nat /\ pos[p] < Len(buf[p])
    BY DEF TypeInv, DiskTypes, MemTypes, WriteRow
  <1>2. DOMAIN buf[p] = 1 .. Len(buf[p]) /\ Len(buf[p]) \in Nat
    BY <1>1, LenProperties
  <1>3. pos[p] + 1 \in 1 .. Len(buf[p])
    BY <1>1, <1>2
  <1>4. buf[p][pos[p] + 1] \in Rows
    BY <1>1, <1>3, ElementOfSeq
  <1> QED
    BY <1>1, <1>2, <1>3, <1>4, SealedTypes

-----------------------------------------------------------------------------
(* The highest number of a file exists: by the least number principle, which
   the library proves, no length is the first for which it does not. *)

LEMMA LeastNumber ==
  ASSUME NEW T, T \subseteq Nat, T # {}
  PROVE  \E m \in T : \A k \in T : m =< k
  <1> DEFINE R == OpToRel(<, Nat)
  <1>1. IsWellFoundedOn(R, Nat)
    BY NatLessThanWellFounded
  <1>2. \A x, y \in Nat : x < y => <<x, y>> \in R
    BY DEF OpToRel
  <1> HIDE DEF R
  <1>3. PICK m \in T : \A k \in T : ~(<<k, m>> \in R)
    BY <1>1, WFMin
  <1>4. ASSUME NEW k \in T
        PROVE  m =< k
    <2>1. m \in Nat /\ k \in Nat /\ ~(<<k, m>> \in R)
      BY <1>3
    <2>2. ~(k < m)
      BY <1>2, <2>1
    <2> QED
      BY <2>1, <2>2
  <1> QED
    BY <1>4

LEMMA NumbersAreBounded ==
  ASSUME NEW n \in Nat, NEW f \in [1 .. n -> Nat]
  PROVE  \E b \in Nat : \A i \in 1 .. n : f[i] =< b
  <1> DEFINE Bound(m, g) == \E b \in Nat : \A i \in 1 .. m : g[i] =< b
             T == {m \in Nat : \E g \in [1 .. m -> Nat] : ~Bound(m, g)}
  <1>1. SUFFICES ASSUME T # {}
                 PROVE  FALSE
    OBVIOUS
  <1>2. PICK m \in T : \A k \in T : m =< k
    <2> HIDE DEF T
    <2>1. T \subseteq Nat
      BY DEF T
    <2> QED
      BY <1>1, <2>1, LeastNumber
  <1>3. PICK g \in [1 .. m -> Nat] : ~Bound(m, g)
    OBVIOUS
  <1>4. m \in Nat /\ m # 0
    BY <1>3
  <1>5. m - 1 \in Nat /\ m - 1 \notin T
    <2> HIDE DEF T
    <2>1. m - 1 \in Nat /\ ~(m =< m - 1)
      BY <1>4
    <2> QED
      BY <1>2, <2>1
  <1> DEFINE h == [i \in 1 .. m - 1 |-> g[i]]
  <1>6. h \in [1 .. m - 1 -> Nat]
    <2>1. \A i \in 1 .. m - 1 : i \in 1 .. m
      BY <1>4
    <2>2. \A i \in 1 .. m - 1 : g[i] \in Nat
      BY <2>1
    <2> QED
      BY <2>2
  <1>7. PICK b \in Nat : \A i \in 1 .. m - 1 : h[i] =< b
    BY <1>5, <1>6
  <1>8. g[m] \in Nat /\ \A i \in 1 .. m : g[i] \in Nat /\ (i = m \/ g[i] =< b)
    <2> HIDE DEF T, Bound
    <2>1. m \in 1 .. m /\ \A i \in 1 .. m : i = m \/ i \in 1 .. m - 1
      BY <1>4
    <2>2. \A i \in 1 .. m - 1 : h[i] = g[i]
      OBVIOUS
    <2> HIDE DEF h
    <2> QED
      BY <1>7, <2>1, <2>2
  <1> HIDE DEF T, Bound, h
  <1>9. Bound(m, g)
    <2> DEFINE c == IF g[m] =< b THEN b ELSE g[m]
    <2>1. c \in Nat /\ g[m] =< c /\ b =< c
      BY <1>8
    <2> HIDE DEF c
    <2>3. \A i \in 1 .. m : g[i] =< c
      BY <1>8, <2>1
    <2> QED
      BY <2>1, <2>3 DEF Bound
  <1> QED
    BY <1>3, <1>9

LEMMA TopSeqType ==
  ASSUME NEW rows \in Seq(Rows)
  PROVE  /\ TopSeq(rows) \in Nat
         /\ TopSeq(rows) \in {0} \cup {rows[i].seq : i \in DOMAIN rows}
         /\ \A i \in DOMAIN rows : rows[i].seq =< TopSeq(rows)
  <1> DEFINE S == {0} \cup {rows[i].seq : i \in DOMAIN rows}
             U == {b \in Nat : \A x \in S : x =< b}
             f == [i \in 1 .. Len(rows) |-> rows[i].seq]
  <1>1. Len(rows) \in Nat /\ DOMAIN rows = 1 .. Len(rows) /\ \A i \in DOMAIN rows : rows[i] \in Rows
    BY LenProperties, ElementOfSeq
  <1>2. f \in [1 .. Len(rows) -> Nat]
    BY <1>1 DEF Rows
  <1>3. S \subseteq Nat /\ 0 \in S
    BY <1>1 DEF Rows
  <1>4. U # {}
    <2>1. PICK b \in Nat : \A i \in 1 .. Len(rows) : f[i] =< b
      <3> HIDE DEF f
      <3> QED
        BY <1>1, <1>2, NumbersAreBounded
    <2>2. b \in U
      BY <1>1, <2>1
    <2> QED
      BY <2>2
  <1>5. PICK m \in U : \A k \in U : m =< k
    <2>1. U \subseteq Nat
      OBVIOUS
    <2> HIDE DEF U
    <2> QED
      BY <1>4, <2>1, LeastNumber
  <1>6. m \in S
    <2>1. SUFFICES ASSUME m \notin S
                   PROVE  FALSE
      OBVIOUS
    <2>2. m - 1 \in Nat
      BY <1>3, <2>1
    <2>3. m - 1 \in U
      <3> HIDE DEF S
      <3> QED
        BY <1>3, <2>1, <2>2
    <2> QED
      BY <1>5, <2>2, <2>3
  <1>7. TopSeq(rows) \in S /\ \A x \in S : x =< TopSeq(rows)
    <2> DEFINE Top(k) == \A i \in DOMAIN rows : rows[i].seq =< k
    <2>1. Top(m)
      OBVIOUS
    <2>2. TopSeq(rows) = CHOOSE k \in S : Top(k)
      BY Zenon DEF TopSeq
    <2>3. TopSeq(rows) \in S /\ Top(TopSeq(rows))
      <3> HIDE DEF S, Top
      <3> QED
        BY <1>6, <2>1, <2>2
    <2> QED
      BY <1>3, <2>3
  <1> QED
    BY <1>3, <1>7

-----------------------------------------------------------------------------
(* Types *)

LEMMA ExitTypes ==
  ASSUME MemTypes, NEW p \in Procs, Exit(p)
  PROVE  MemTypes'
  <1>1. <<>> \in Seq(Rows) /\ NoId \in Nat /\ NoRing \in Rings
    BY EmptySeq DEF NoId, Rings
  <1> QED
    BY <1>1 DEF MemTypes, Exit, Goto, Opened

LEMMA TypeStep ==
  ASSUME TypeInv, [Next]_vars
  PROVE  TypeInv'
  <1> USE DEF Opened, Cmds, mem, disk, history
  <1>1. CASE UNCHANGED vars
    BY <1>1 DEF TypeInv, DiskTypes, MemTypes, vars
  <1>2. CASE Stop
    BY <1>2, ExitTypes DEF Stop, TypeInv, DiskTypes, Procs
  <1>3. ASSUME NEW p \in Procs, NEW c \in {"serve"} \cup Cmds, CreateIdentity(p, c)
        PROVE  TypeInv'
    BY <1>3 DEF CreateIdentity, Generate, Enter, Goto, TypeInv, DiskTypes, MemTypes
  <1>4. ASSUME NEW p \in Procs, NEW c \in {"serve"} \cup Cmds, Open(p, c)
        PROVE  TypeInv'
    <2>1. (c \in Signing => keyFile \in Nat) /\ ringFile \in Rings
      BY <1>4 DEF Open, OpenStore, Openable, TypeInv, DiskTypes, MemTypes
    <2> QED
      BY <1>4, <2>1 DEF Open, OpenStore, Enter, Goto, TypeInv, DiskTypes, MemTypes, NoId
  <1>5. ASSUME NEW p \in Procs, EmptyKeyFile(p)
        PROVE  TypeInv'
    BY <1>5 DEF EmptyKeyFile, Goto, TypeInv, DiskTypes, MemTypes
  <1>6. ASSUME NEW p \in Procs, WriteKeyFile(p)
        PROVE  TypeInv'
    BY <1>6 DEF WriteKeyFile, Goto, TypeInv, DiskTypes, MemTypes
  <1>7. ASSUME NEW p \in Procs, OpenAfterKey(p)
        PROVE  TypeInv'
    <2>1. CASE OpenStore(p) /\ UNCHANGED <<cmd, id, shared>>
      <3>1. ringFile \in Rings
        BY <2>1 DEF OpenStore, Openable, TypeInv, DiskTypes, MemTypes
      <3> QED
        BY <2>1, <3>1 DEF OpenStore, Goto, TypeInv, DiskTypes, MemTypes
    <2>2. CASE Exit(p) /\ UNCHANGED <<disk, history>>
      BY <2>2, ExitTypes DEF TypeInv, DiskTypes
    <2> QED
      BY <1>7, <2>1, <2>2 DEF OpenAfterKey
  <1>8. ASSUME NEW p \in Procs, Load(p)
        PROVE  TypeInv'
    <2>1. TopSeq(file) \in Nat
      BY TopSeqType DEF TypeInv, DiskTypes
    <2>2. CASE Exit(p)
      BY <1>8, <2>2, ExitTypes DEF Load, TypeInv, DiskTypes
    <2>3. CASE ~Exit(p)
      BY <1>8, <2>1, <2>3 DEF Load, Goto, TypeInv, DiskTypes, MemTypes
    <2> QED
      BY <2>2, <2>3
  <1>9. ASSUME NEW p \in Procs, AppendRow(p)
        PROVE  TypeInv'
    <2> DEFINE row == Sealed([seq |-> lastSeq[p] + 1, body |-> issued + 1, key |-> Plain,
                              by |-> id[p]], ring[p])
    <2>1. row \in Rows
      <3>1. [seq |-> lastSeq[p] + 1, body |-> issued + 1, key |-> Plain, by |-> id[p]] \in Rows
        BY MarksAssumption DEF TypeInv, DiskTypes, MemTypes, Rows, Keys
      <3> QED
        BY <3>1, SealedTypes DEF TypeInv, DiskTypes, MemTypes
    <2> HIDE DEF row
    <2>2. file' \in Seq(Rows)
      BY <1>9, <2>1, WrittenRows DEF AppendRow, row
    <2>3. CASE cmd[p] = "append"
      BY <1>9, <2>2, <2>3, ExitTypes DEF AppendRow, TypeInv, DiskTypes
    <2>4. CASE cmd[p] # "append"
      <3>1. lastSeq' \in [Procs -> Nat] /\ issued' \in Nat
        BY <1>9, <2>4 DEF AppendRow, TypeInv, DiskTypes, MemTypes
      <3> QED
        BY <1>9, <2>2, <2>4, <3>1 DEF AppendRow, TypeInv, DiskTypes, MemTypes
    <2> QED
      BY <2>3, <2>4
  <1>10. ASSUME NEW p \in Procs, AppendCutShort(p)
         PROVE  TypeInv'
    <2>1. file' \in Seq(Rows)
      <3>1. file \in Seq(Rows)
        BY DEF TypeInv, DiskTypes, MemTypes
      <3> QED
        BY <1>10, <3>1, RowTypes, AppendProperties DEF AppendCutShort
    <2>2. CASE Exit(p)
      BY <1>10, <2>1, <2>2, ExitTypes DEF AppendCutShort, TypeInv, DiskTypes
    <2>3. CASE ~Exit(p)
      BY <1>10, <2>1, <2>3 DEF AppendCutShort, TypeInv, DiskTypes, MemTypes
    <2> QED
      BY <2>2, <2>3
  <1>11. ASSUME NEW p \in Procs, EnableAgain(p)
         PROVE  TypeInv'
    <2>1. CASE cmd[p] = "enable"
      BY <1>11, <2>1, ExitTypes DEF EnableAgain, TypeInv, DiskTypes
    <2>2. CASE cmd[p] # "enable"
      BY <1>11, <2>2 DEF EnableAgain, TypeInv, DiskTypes, MemTypes
    <2> QED
      BY <2>1, <2>2
  <1>12. ASSUME NEW p \in Procs, EnableEncryption(p)
         PROVE  TypeInv'
    <2>1. keys + 1 \in KeyIds /\ keys + 1 \in 0 .. MaxKeys
      BY <1>12, BoundsAssumption DEF EnableEncryption, TypeInv, DiskTypes, KeyIds
    <2>2. ringFile' \in Rings /\ ringFile' = [active |-> keys + 1, keys |-> {keys + 1}]
      BY <1>12, <2>1 DEF EnableEncryption, Rings
    <2> QED
      BY <1>12, <2>1, <2>2 DEF EnableEncryption, Goto, TypeInv, DiskTypes, MemTypes
  <1>13. ASSUME NEW p \in Procs, RotateEncryptionKey(p)
         PROVE  TypeInv'
    <2>1. keys + 1 \in KeyIds /\ keys + 1 \in 0 .. MaxKeys
      BY <1>13, BoundsAssumption DEF RotateEncryptionKey, TypeInv, DiskTypes, KeyIds
    <2>2. /\ ringFile' \in Rings
          /\ ringFile' = [active |-> keys + 1, keys |-> ring[p].keys \cup {keys + 1}]
      <3>1. ring[p].keys \subseteq KeyIds
        BY RingTypes DEF TypeInv, DiskTypes, MemTypes
      <3> QED
        BY <1>13, <2>1, <3>1 DEF RotateEncryptionKey, Rings
    <2> QED
      BY <1>13, <2>1, <2>2 DEF RotateEncryptionKey, Goto, TypeInv, DiskTypes, MemTypes
  <1>14. ASSUME NEW p \in Procs, Finish(p)
         PROVE  TypeInv'
    BY <1>14, ExitTypes DEF Finish, TypeInv, DiskTypes
  <1>15. ASSUME NEW p \in Procs, ReadAll(p)
         PROVE  TypeInv'
    <2>1. CASE Exit(p)
      BY <1>15, <2>1, ExitTypes DEF ReadAll, TypeInv, DiskTypes
    <2>2. CASE ~Exit(p)
      BY <1>15, <2>2 DEF ReadAll, Goto, TypeInv, DiskTypes, MemTypes
    <2> QED
      BY <2>1, <2>2
  <1>16. ASSUME NEW p \in Procs, Truncate(p)
         PROVE  TypeInv'
    BY <1>16, EmptySeq DEF Truncate, Goto, TypeInv, DiskTypes, MemTypes
  <1>17. ASSUME NEW p \in Procs, WriteRow(p)
         PROVE  TypeInv'
    <2>1. file' \in Seq(Rows)
      BY <1>17, NextRow, RowTypes, RowIsPut DEF TypeInv, DiskTypes, MemTypes
    <2>2. pos' \in [Procs -> Nat]
      BY <1>17 DEF WriteRow, TypeInv, MemTypes
    <2>3. UNCHANGED <<ringFile, keyFile, schema, pc, cmd, id, ring, lastSeq, buf, history>>
      BY <1>17 DEF WriteRow
    <2> QED
      BY <2>1, <2>2, <2>3 DEF TypeInv, DiskTypes, MemTypes
  <1>18. ASSUME NEW p \in Procs, EndRewrite(p)
         PROVE  TypeInv'
    <2>1. CASE Exit(p)
      BY <1>18, <2>1, ExitTypes DEF EndRewrite, Resume, TypeInv, DiskTypes
    <2>2. CASE ~Exit(p)
      <3>1. /\ \E where \in {"load", "ready"}, c \in Cmds \cup {"serve", "none"} : Resume(p, where, c)
            /\ enabled' \in BOOLEAN /\ schema' \in {1, 2, Emptied}
            /\ UNCHANGED <<file, ringFile, keyFile, shared, tear, issued, keys, ids>>
        BY <1>18, <2>2 DEF EndRewrite, TypeInv, DiskTypes, MemTypes
      <3>2. <<>> \in Seq(Rows)
        BY EmptySeq
      <3>3. MemTypes'
        BY <3>1, <3>2 DEF Resume, Goto, TypeInv, MemTypes
      <3> QED
        BY <3>1, <3>3 DEF TypeInv, DiskTypes
    <2> QED
      BY <2>1, <2>2
  <1>19. ASSUME NEW p \in Procs, Kill(p)
         PROVE  TypeInv'
    <2>1. ringFile' \in Rings \cup {BrokenRing} /\ schema' \in {1, 2, Emptied}
      BY <1>19 DEF Kill, TypeInv, DiskTypes, MemTypes
    <2> QED
      BY <1>19, <2>1, ExitTypes DEF Kill, TypeInv, DiskTypes
  <1>20. ASSUME NEW p \in Procs, GiveUp(p)
         PROVE  TypeInv'
    BY <1>20, ExitTypes DEF GiveUp, TypeInv, DiskTypes
  <1>21. ASSUME NEW p \in Procs, TakeKey(p)
         PROVE  TypeInv'
    <2>1. NoRing \in Rings
      BY DEF Rings
    <2>2. /\ id' \in [Procs -> Nat] /\ ids' \in Nat
          /\ pc' \in [Procs -> {"off", "key", "keyfile", "open"} \cup Opened]
      <3>1. CASE Generate(p)
        BY <1>21, <3>1 DEF TakeKey, Generate, Goto, TypeInv, DiskTypes, MemTypes
      <3>2. CASE ~Generate(p)
        <4>1. keyFile \in Nat /\ id' = [id EXCEPT ![p] = keyFile] /\ ids' = ids
              /\ pc' = [pc EXCEPT ![p] = "open"]
          BY <1>21, <3>2 DEF TakeKey, Goto, TypeInv, DiskTypes
        <4> QED
          BY <4>1 DEF TypeInv, DiskTypes, MemTypes
      <3> QED
        BY <3>1, <3>2
    <2>3. /\ UNCHANGED <<disk, buf, pos, enabled, shared, tear, issued, keys>>
          /\ cmd' = [cmd EXCEPT ![p] = "append"]
          /\ ring' = [ring EXCEPT ![p] = NoRing]
          /\ lastSeq' = [lastSeq EXCEPT ![p] = 0]
      BY <1>21 DEF TakeKey
    <2>4. DiskTypes'
      BY <2>2, <2>3 DEF TypeInv, DiskTypes
    <2>5. MemTypes'
      <3>1. cmd' \in [Procs -> Cmds \cup {"serve", "none"}] /\ lastSeq' \in [Procs -> Nat]
        BY <2>3 DEF TypeInv, MemTypes
      <3>2. ring' \in [Procs -> Rings]
        BY <2>1, <2>3 DEF TypeInv, MemTypes
      <3> QED
        BY <2>2, <2>3, <3>1, <3>2 DEF TypeInv, MemTypes
    <2> QED
      BY <2>4, <2>5 DEF TypeInv
  <1>22. ASSUME NEW p \in Procs, RewriteCutShort(p)
         PROVE  TypeInv'
    <2>1. file' \in Seq(Rows)
      BY <1>22, RowTypes, PartIsPut DEF TypeInv, DiskTypes
    <2> QED
      BY <1>22, <2>1, ExitTypes DEF RewriteCutShort, TypeInv, DiskTypes
  <1> QED
    BY <1>1, <1>2, <1>3, <1>4, <1>5, <1>6, <1>7, <1>8, <1>9, <1>10, <1>11, <1>12, <1>13,
       <1>14, <1>15, <1>16, <1>17, <1>18, <1>19, <1>20, <1>21, <1>22 DEF Next

LEMMA SchemaStep ==
  ASSUME TypeInv, SchemaInv, [Next]_vars
  PROVE  SchemaInv'
  <1> USE DEF SchemaInv, Stages, mem, disk, history
  <1>1. CASE UNCHANGED vars
    BY <1>1 DEF vars
  <1>2. ASSUME NEW p \in Procs, Exit(p), UNCHANGED ringFile, schema' = schema \/ schema' # 1
        PROVE  SchemaInv'
    BY <1>2 DEF Exit, Goto, TypeInv, MemTypes
  <1>3. ASSUME NEW p \in Procs, NEW c \in {"serve"} \cup Cmds, CreateIdentity(p, c)
        PROVE  SchemaInv'
    BY <1>3 DEF CreateIdentity, Generate, Enter, Goto, TypeInv, MemTypes
  <1>4. ASSUME NEW p \in Procs, OpenStore(p)
        PROVE  SchemaInv'
    BY <1>4 DEF OpenStore, Goto, NoRing, TypeInv, MemTypes
  <1>5. ASSUME NEW p \in Procs, EmptyKeyFile(p) \/ WriteKeyFile(p)
        PROVE  SchemaInv'
    BY <1>5 DEF EmptyKeyFile, WriteKeyFile, Goto, TypeInv, MemTypes
  <1>6. ASSUME NEW p \in Procs, Load(p)
        PROVE  SchemaInv'
    BY <1>6 DEF Load, Exit, Goto, TypeInv, MemTypes
  <1>7. ASSUME NEW p \in Procs, AppendRow(p)
        PROVE  SchemaInv'
    BY <1>7, <1>2 DEF AppendRow
  <1>8. ASSUME NEW p \in Procs, AppendCutShort(p)
        PROVE  SchemaInv'
    BY <1>8, <1>2 DEF AppendCutShort
  <1>9. ASSUME NEW p \in Procs, EnableAgain(p)
        PROVE  SchemaInv'
    BY <1>9, <1>2 DEF EnableAgain
  <1>10. ASSUME NEW p \in Procs, EnableEncryption(p) \/ RotateEncryptionKey(p)
         PROVE  SchemaInv'
    BY <1>10 DEF EnableEncryption, RotateEncryptionKey, Goto, TypeInv, MemTypes
  <1>11. ASSUME NEW p \in Procs, ReadAll(p)
         PROVE  SchemaInv'
    BY <1>11, <1>2 DEF ReadAll, Goto, TypeInv, MemTypes
  <1>12. ASSUME NEW p \in Procs, Truncate(p)
         PROVE  SchemaInv'
    BY <1>12 DEF Truncate, Goto, TypeInv, MemTypes
  <1>13. ASSUME NEW p \in Procs, WriteRow(p)
         PROVE  SchemaInv'
    BY <1>13 DEF WriteRow
  <1>14. ASSUME NEW p \in Procs, EndRewrite(p)
         PROVE  SchemaInv'
    <2>1. CASE Migrates(p)
      BY <1>14, <2>1 DEF EndRewrite, Migrates, Resume, Goto, TypeInv, MemTypes
    <2>2. CASE ~Migrates(p)
      BY <1>14, <1>2, <2>2 DEF EndRewrite, Migrates, Resume, Goto, TypeInv, MemTypes
    <2> QED
      BY <2>1, <2>2
  <1>15. ASSUME NEW p \in Procs, Kill(p)
         PROVE  SchemaInv'
    <2>1. schema' = schema \/ schema' # 1
      BY <1>15 DEF Kill, Emptied
    <2>2. ringFile' = ringFile \/ schema # 1
      BY <1>15 DEF Kill, SavesRing
    <2> QED
      BY <1>15, <2>1, <2>2 DEF Kill, Exit, Goto, TypeInv, MemTypes
  <1>16. ASSUME NEW p \in Procs, TakeKey(p)
         PROVE  SchemaInv'
    BY <1>16 DEF TakeKey, Generate, Goto, TypeInv, MemTypes
  <1>17. ASSUME NEW p \in Procs, RewriteCutShort(p)
         PROVE  SchemaInv'
    BY <1>17, <1>2 DEF RewriteCutShort
  <1> QED
    BY <1>1, <1>2, <1>3, <1>4, <1>5, <1>6, <1>7, <1>8, <1>9, <1>10, <1>11, <1>12, <1>13,
       <1>14, <1>15, <1>16, <1>17
       DEF Next, Stop, Open, OpenAfterKey, Finish, GiveUp, Procs

-----------------------------------------------------------------------------
(* The keyring beside a running server *)

LEMMA WrittenIn ==
  ASSUME TypeInv, NEW S, file \in Seq(S), NEW row \in S, TornRow \in S
  PROVE  Written(row) \in Seq(S)
  <1>1. CASE LastUnended
    <2>1. Len(file) \in 1 .. Len(file)
      BY <1>1, EmptySeq, LenProperties DEF LastUnended
    <2> QED
      BY <1>1, <2>1, ExceptSeq DEF Written
  <1>2. CASE ~LastUnended
    BY <1>2, AppendProperties DEF Written
  <1> QED
    BY <1>1, <1>2

LEMMA CoveredGrows ==
  ASSUME NEW k1, NEW k2, k1 \subseteq k2
  PROVE  Seq(Covered(k1)) \subseteq Seq(Covered(k2))
  <1>1. Covered(k1) \subseteq Covered(k2)
    BY DEF Covered
  <1> QED
    BY <1>1, SeqMonotonic

LEMMA RingStep ==
  ASSUME \A c, d \in Commands : c = d, TypeInv, RingInv, [Next]_vars
  PROVE  RingInv'
  <1> USE DEF mem, disk, history
  <1>1. CASE UNCHANGED vars
    BY <1>1 DEF vars, RingInv
  <1>2. ASSUME NEW p \in Procs, Exit(p) \/ UNCHANGED <<pc, cmd, ring>>, UNCHANGED ringFile,
               ringFile # BrokenRing => file' \in Seq(Covered(ringFile.keys))
        PROVE  RingInv'
    <2>1. CASE Exit(p)
      <3>1. /\ cmd'[Server] \in {"serve", "none"}
            /\ \A c \in Commands : pc'[c] \in Opened => pc[c] \in Opened /\ ring'[c] = ring[c]
            /\ \A q \in Procs : ring'[q].keys \subseteq ring[q].keys
        BY <2>1 DEF Exit, Goto, TypeInv, MemTypes, RingInv, NoRing, Opened, Procs
      <3> HIDE DEF Covered
      <3> QED
        BY <1>2, <3>1 DEF RingInv
    <2>2. CASE UNCHANGED <<pc, cmd, ring>>
      BY <1>2, <2>2 DEF RingInv
    <2> QED
      BY <1>2, <2>1, <2>2
  <1>20. ASSUME NEW p \in Procs, Exit(p), UNCHANGED <<file, ringFile>>
         PROVE  RingInv'
    BY <1>2, <1>20 DEF RingInv
  <1>3. TornRow \in Covered(ringFile.keys) /\ UnendedRow \in Covered(ringFile.keys)
    BY RowTypes, MarksAssumption DEF Covered, KeyIds
  <1>4. ASSUME NEW p \in Procs, NEW row \in Rows, ringFile # BrokenRing
        PROVE  Sealed(row, ring[p]) \in Covered(ringFile.keys)
    <2>1. ring[p] \in Rings /\ ring[p].keys \subseteq ringFile.keys
      BY <1>4 DEF TypeInv, MemTypes, RingInv
    <2> QED
      BY <2>1, SealedTypes, RingTypes, MarksAssumption DEF Covered, KeyIds
  <1>5. ASSUME NEW p \in Procs, NEW c \in {"serve"} \cup Cmds, CreateIdentity(p, c)
        PROVE  RingInv'
    BY <1>5, ProcessesAssumption
       DEF CreateIdentity, Generate, Enter, Goto, TypeInv, MemTypes, RingInv, Opened, Procs
  <1>6. ASSUME NEW p \in Procs, OpenStore(p), UNCHANGED cmd \/ \E c \in {"serve"} \cup Cmds : Enter(p, c)
        PROVE  RingInv'
    <2>1. cmd'[Server] \in {"serve", "none"}
      BY <1>6, ProcessesAssumption DEF Enter, TypeInv, MemTypes, RingInv, Procs
    <2> QED
      BY <1>6, <2>1 DEF OpenStore, Goto, TypeInv, MemTypes, RingInv, Procs
  <1>7. ASSUME NEW p \in Procs, EmptyKeyFile(p) \/ WriteKeyFile(p)
        PROVE  RingInv'
    BY <1>7 DEF EmptyKeyFile, WriteKeyFile, Goto, TypeInv, MemTypes, RingInv, Opened, Procs
  <1>8. ASSUME NEW p \in Procs, Load(p)
        PROVE  RingInv'
    <2>1. CASE Readable(file, ring[p])
      BY <1>8, <2>1 DEF Load, Goto, TypeInv, MemTypes, RingInv, Opened, Procs
    <2>2. CASE ~Readable(file, ring[p])
      BY <1>8, <1>20, <2>2 DEF Load
    <2> QED
      BY <2>1, <2>2
  <1>9. ASSUME NEW p \in Procs, AppendRow(p)
        PROVE  RingInv'
    <2> DEFINE new == [seq |-> lastSeq[p] + 1, body |-> issued + 1, key |-> Plain, by |-> id[p]]
    <2>1. new \in Rows
      BY MarksAssumption DEF TypeInv, DiskTypes, MemTypes, Rows, Keys
    <2>2. file' = Written(Sealed(new, ring[p]))
      BY <1>9 DEF AppendRow
    <2> HIDE DEF new
    <2>3. ringFile # BrokenRing => file' \in Seq(Covered(ringFile.keys))
      <3>1. SUFFICES ASSUME ringFile # BrokenRing
                     PROVE  file' \in Seq(Covered(ringFile.keys))
        OBVIOUS
      <3>2. Sealed(new, ring[p]) \in Covered(ringFile.keys)
        BY <1>4, <2>1, <3>1
      <3>3. file \in Seq(Covered(ringFile.keys))
        BY <3>1 DEF RingInv
      <3> QED
        BY <1>3, <2>2, <3>2, <3>3, WrittenIn
    <2>4. /\ UNCHANGED ringFile
          /\ Exit(p) \/ UNCHANGED <<pc, cmd, id, ring, buf, pos>>
      BY <1>9 DEF AppendRow
    <2> QED
      BY <1>2, <2>3, <2>4
  <1>10. ASSUME NEW p \in Procs, AppendCutShort(p)
         PROVE  RingInv'
    <2>1. ringFile # BrokenRing => file' \in Seq(Covered(ringFile.keys))
      <3>1. SUFFICES ASSUME ringFile # BrokenRing
                     PROVE  file' \in Seq(Covered(ringFile.keys))
        OBVIOUS
      <3>2. file \in Seq(Covered(ringFile.keys))
        BY <3>1 DEF RingInv
      <3>3. Append(file, UnendedRow) \in Seq(Covered(ringFile.keys))
        BY <1>3, <3>2, AppendProperties
      <3> QED
        BY <1>10, <3>2, <3>3 DEF AppendCutShort
    <2>2. /\ UNCHANGED ringFile
          /\ Exit(p) \/ UNCHANGED mem
      BY <1>10 DEF AppendCutShort
    <2> QED
      BY <1>2, <2>1, <2>2
  <1>11. ASSUME NEW p \in Procs, EnableAgain(p)
         PROVE  RingInv'
    <2>1. CASE cmd[p] = "enable"
      BY <1>20, <1>11, <2>1 DEF EnableAgain
    <2>2. CASE cmd[p] # "enable"
      BY <1>11, <2>2 DEF EnableAgain, TypeInv, MemTypes, RingInv, Procs
    <2> QED
      BY <2>1, <2>2
  <1>12. ASSUME NEW p \in Procs, pc[p] = "ready", cmd[p] \notin {"serve", "none"}
         PROVE  /\ p \in Commands /\ \A c \in Commands : c = p
                /\ ring[p] = ringFile /\ ringFile # BrokenRing
    <2>1. p # Server
      BY <1>12 DEF RingInv
    <2>2. p \in Commands /\ ring[p] = ringFile
      BY <1>12, <2>1 DEF Procs, RingInv, Opened
    <2>3. ring[p] \in Rings
      BY DEF TypeInv, MemTypes
    <2> QED
      BY <2>2, <2>3, RingTypes
  <1>13. ASSUME NEW p \in Procs, EnableEncryption(p) \/ RotateEncryptionKey(p)
         PROVE  RingInv'
    <2>1. /\ p \in Commands /\ \A c \in Commands : c = p
          /\ ring[p] = ringFile /\ ringFile # BrokenRing
      BY <1>12, <1>13 DEF EnableEncryption, RotateEncryptionKey
    <2>2. ring' = [ring EXCEPT ![p] = ringFile'] /\ UNCHANGED <<file, cmd>>
      BY <1>13 DEF EnableEncryption, RotateEncryptionKey
    <2>3. ringFile.keys \subseteq ringFile'.keys
      <3>1. ring[p].active = 0 => ring[p].keys = {}
        BY RingTypes DEF TypeInv, MemTypes
      <3> QED
        BY <1>13, <2>1, <3>1 DEF EnableEncryption, RotateEncryptionKey
    <2>4. file' \in Seq(Covered(ringFile'.keys))
      BY <2>1, <2>2, <2>3, CoveredGrows DEF RingInv
    <2>5. ring \in [Procs -> Rings] /\ \A q \in Procs : ring[q].keys \subseteq ringFile.keys
      BY <2>1 DEF TypeInv, MemTypes, RingInv
    <2> HIDE DEF Covered
    <2> QED
      BY <2>1, <2>2, <2>3, <2>4, <2>5, ProcessesAssumption DEF RingInv, Procs
  <1>14. ASSUME NEW p \in Procs, ReadAll(p)
         PROVE  RingInv'
    <2>1. CASE Readable(file, ring[p])
      BY <1>14, <2>1 DEF ReadAll, Goto, TypeInv, MemTypes, RingInv, Opened, Procs
    <2>2. CASE ~Readable(file, ring[p])
      BY <1>20, <1>14, <2>2 DEF ReadAll
    <2> QED
      BY <2>1, <2>2
  <1>15. ASSUME NEW p \in Procs, Truncate(p)
         PROVE  RingInv'
    BY <1>15, EmptySeq DEF Truncate, Goto, TypeInv, MemTypes, RingInv, Opened, Procs
  <1>16. ASSUME NEW p \in Procs, WriteRow(p)
         PROVE  RingInv'
    <2>1. ringFile # BrokenRing => file' \in Seq(Covered(ringFile.keys))
      <3>1. SUFFICES ASSUME ringFile # BrokenRing
                     PROVE  file' \in Seq(Covered(ringFile.keys))
        OBVIOUS
      <3>2. buf[p][pos[p] + 1] \in Rows
        BY <1>16, NextRow
      <3>3. Sealed(buf[p][pos[p] + 1], ring[p]) \in Covered(ringFile.keys)
        BY <1>4, <3>1, <3>2
      <3>4. file \in Seq(Covered(ringFile.keys))
        BY <3>1 DEF RingInv
      <3> QED
        BY <1>3, <1>16, <3>3, <3>4, RowIsPut
    <2>2. UNCHANGED <<ringFile, pc, cmd, ring>>
      BY <1>16 DEF WriteRow
    <2> QED
      BY <2>1, <2>2 DEF RingInv
  <1>17. ASSUME NEW p \in Procs, EndRewrite(p)
         PROVE  RingInv'
    <2>1. CASE Migrates(p) \/ cmd[p] = "drill"
      BY <1>17, <2>1 DEF EndRewrite, Resume, Goto, TypeInv, MemTypes, RingInv, Opened, Procs
    <2>2. CASE ~(Migrates(p) \/ cmd[p] = "drill")
      BY <1>20, <1>17, <2>2 DEF EndRewrite
    <2> QED
      BY <2>1, <2>2
  <1>18. ASSUME NEW p \in Procs, Kill(p)
         PROVE  RingInv'
    <2>1. CASE ringFile' = ringFile
      BY <1>20, <1>18, <2>1 DEF Kill
    <2>2. CASE ringFile' = BrokenRing /\ SavesRing(p)
      <3>1. \A c \in Commands : c = p
        BY <1>12, <2>2 DEF SavesRing
      <3> QED
        BY <1>18, <2>2, <3>1 DEF Kill, Exit, Goto, TypeInv, MemTypes, RingInv, Opened, Procs
    <2> QED
      BY <1>18, <2>1, <2>2 DEF Kill
  <1>19. ASSUME NEW p \in Procs, TakeKey(p)
         PROVE  RingInv'
    <2>1. cmd'[Server] \in {"serve", "none"}
      BY <1>19, ProcessesAssumption DEF TakeKey, TypeInv, MemTypes, RingInv, Procs
    <2>2. /\ pc' \in [Procs -> {"off", "key", "keyfile", "open"} \cup Opened]
          /\ \A q \in Procs : q # p => pc'[q] = pc[q] /\ ring'[q] = ring[q]
          /\ pc'[p] \notin Opened /\ ring'[p].keys = {}
          /\ UNCHANGED <<file, ringFile>>
      BY <1>19 DEF TakeKey, Generate, Goto, TypeInv, MemTypes, Opened, NoRing
    <2> HIDE DEF Covered
    <2> QED
      BY <2>1, <2>2 DEF RingInv, Procs
  <1>21. ASSUME NEW p \in Procs, RewriteCutShort(p)
         PROVE  RingInv'
    <2>1. ringFile # BrokenRing => file' \in Seq(Covered(ringFile.keys))
      BY <1>3, <1>21, PartIsPut DEF RingInv
    <2> QED
      BY <1>2, <1>21, <2>1 DEF RewriteCutShort
  <1> QED
    BY <1>1, <1>2, <1>5, <1>6, <1>7, <1>8, <1>9, <1>10, <1>11, <1>13, <1>14, <1>15, <1>16,
       <1>17, <1>18, <1>19, <1>20, <1>21
       DEF Next, Stop, Open, OpenAfterKey, Finish, GiveUp, Procs

-----------------------------------------------------------------------------
(* One process at a time: what the step of the only process does.  Alone(p) says
   that p takes a step and that nobody else runs, before it or after it. *)

Leaves(p) == pc[p] \in {"open", "ready"} /\ Exit(p) /\ UNCHANGED <<disk, history>>
Starts(p) == \E c \in {"serve"} \cup Cmds : CreateIdentity(p, c) \/ Open(p, c)
KeySteps(p) == EmptyKeyFile(p) \/ WriteKeyFile(p)
Reopens(p) == pc[p] = "open" /\ OpenStore(p) /\ UNCHANGED <<cmd, id, shared>>
Appends(p) == AppendRow(p) \/ AppendCutShort(p)
NewKey(p) == EnableEncryption(p) \/ RotateEncryptionKey(p)
Rewrites(p) == ReadAll(p) \/ Truncate(p) \/ WriteRow(p) \/ EndRewrite(p)

Step(p) ==
  \/ Leaves(p) \/ Starts(p) \/ KeySteps(p) \/ Reopens(p) \/ Load(p) \/ Appends(p)
  \/ TakeKey(p) \/ EnableAgain(p) \/ NewKey(p) \/ Rewrites(p) \/ RewriteCutShort(p)
  \/ Kill(p)

Alone(p) ==
  /\ TypeInv /\ SchemaInv /\ AloneInv
  /\ ~shared /\ ~shared'
  /\ Step(p)
  /\ \A q \in Procs : q # p => pc[q] = "off" /\ pc'[q] = "off"

LEMMA StepsOfOne ==
  ASSUME Next
  PROVE  \E p \in Procs : Step(p)
  <1>1. CASE Stop
    BY <1>1 DEF Stop, Step, Leaves, Procs
  <1>2. CASE ~Stop
    <2>1. PICK p \in Procs :
       \/ \E c \in {"serve"} \cup Cmds : CreateIdentity(p, c) \/ Open(p, c)
       \/ EmptyKeyFile(p) \/ WriteKeyFile(p) \/ OpenAfterKey(p)
       \/ Load(p) \/ GiveUp(p) \/ TakeKey(p)
       \/ AppendRow(p) \/ AppendCutShort(p)
       \/ EnableAgain(p) \/ EnableEncryption(p)
       \/ RotateEncryptionKey(p) \/ Finish(p)
       \/ ReadAll(p) \/ Truncate(p) \/ WriteRow(p) \/ EndRewrite(p)
       \/ RewriteCutShort(p) \/ Kill(p)
      BY <1>2 DEF Next
    <2>2. CASE OpenAfterKey(p)
      BY <2>2 DEF OpenAfterKey, Step, Leaves, Reopens
    <2>3. CASE Finish(p) \/ GiveUp(p)
      BY <2>3 DEF Finish, GiveUp, Step, Leaves
    <2> QED
      BY <2>1, <2>2, <2>3, Zenon DEF Step, Starts, KeySteps, Appends, NewKey, Rewrites
  <1> QED
    BY <1>1, <1>2

\* A process that starts starts alone; any other step is of a process that runs.
LEMMA StepsAlone ==
  ASSUME TypeInv, SchemaInv, AloneInv, ~shared', Next
  PROVE  \E p \in Procs : Alone(p)
  <1> USE DEF mem, disk, history
  <1>1. PICK p \in Procs : Step(p)
    BY StepsOfOne
  <1>2. ~shared /\ (\A q \in Procs : q # p => pc[q] = "off")
    <2>1. CASE Starts(p)
      <3>1. PICK c \in {"serve"} \cup Cmds : Enter(p, c)
        BY <2>1 DEF Starts, CreateIdentity, Generate, Open
      <3> QED
        BY <3>1 DEF Enter
    <2>2. CASE ~Starts(p)
      <3>1. pc[p] # "off" /\ UNCHANGED shared
        BY <1>1, <2>2
           DEF Step, Leaves, KeySteps, Reopens, Appends, NewKey, Rewrites, EmptyKeyFile,
               WriteKeyFile, Load, AppendRow, AppendCutShort, EnableAgain, EnableEncryption,
               RotateEncryptionKey, ReadAll, Truncate, WriteRow, EndRewrite, Kill, TakeKey,
               RewriteCutShort
      <3> QED
        BY <3>1 DEF AloneInv, OneRuns
    <2> QED
      BY <2>1, <2>2
  <1>3. pc' = pc \/ \E where : Goto(p, where)
    <2>1. CASE Starts(p) \/ KeySteps(p) \/ Reopens(p)
      BY <2>1 DEF Starts, CreateIdentity, Generate, Open, KeySteps, EmptyKeyFile, WriteKeyFile, Reopens,
                  OpenStore
    <2>2. CASE Leaves(p) \/ Load(p) \/ Appends(p) \/ EnableAgain(p) \/ NewKey(p) \/ Kill(p)
      BY <2>2 DEF Leaves, Load, Appends, AppendRow, AppendCutShort, EnableAgain, NewKey,
                  EnableEncryption, RotateEncryptionKey, Kill, Exit
    <2>3. CASE Rewrites(p)
      BY <2>3 DEF Rewrites, ReadAll, Truncate, WriteRow, EndRewrite, Resume, Exit
    <2>4. CASE TakeKey(p) \/ RewriteCutShort(p)
      BY <2>4 DEF TakeKey, Generate, RewriteCutShort, Exit
    <2> QED
      BY <1>1, <2>1, <2>2, <2>3, <2>4 DEF Step
  <1>4. \A q \in Procs : q # p => pc'[q] = "off"
    BY <1>2, <1>3 DEF Goto, TypeInv, MemTypes
  <1> QED
    BY <1>1, <1>2, <1>4 DEF Alone

\* A process that ends leaves nobody.
LEMMA NobodyIsLeft ==
  ASSUME NEW p \in Procs, Alone(p), Exit(p)
  PROVE  \A q \in Procs : pc'[q] = "off"
  BY DEF Alone, Exit, Goto, TypeInv, MemTypes


LEMMA RingKnownStep ==
  ASSUME NEW p \in Procs, Alone(p)
  PROVE  OneRuns' /\ RingKnown'
  <1> USE DEF mem, disk, history
  <1>1. OneRuns'
    BY DEF Alone, OneRuns
  <1>2. CASE Exit(p)
    BY <1>1, <1>2, NobodyIsLeft DEF RingKnown, Opened
  <1>3. CASE ~Exit(p)
    <2>1. RingKnown /\ pc \in [Procs -> {"off", "key", "keyfile", "open"} \cup Opened]
          /\ ring \in [Procs -> Rings]
      BY DEF Alone, AloneInv, TypeInv, MemTypes
    <2>2. SUFFICES pc'[p] \in Opened => ring'[p] = ringFile'
      BY <1>1 DEF Alone, RingKnown, Opened
    <2>3. CASE Starts(p)
      <3>1. CASE \E c \in {"serve"} \cup Cmds : CreateIdentity(p, c)
        BY <2>1, <3>1 DEF CreateIdentity, Generate, Goto, Opened
      <3>2. CASE OpenStore(p)
        BY <2>1, <3>2 DEF OpenStore
      <3> QED
        BY <2>3, <3>1, <3>2 DEF Starts, Open
    <2>4. CASE KeySteps(p)
      BY <2>1, <2>4 DEF KeySteps, EmptyKeyFile, WriteKeyFile, Goto, Opened
    <2>5. CASE Reopens(p)
      BY <2>1, <2>5 DEF Reopens, OpenStore
    <2>6. CASE Load(p) \/ Appends(p) \/ EnableAgain(p)
      BY <1>3, <2>1, <2>6 DEF Load, Appends, AppendRow, AppendCutShort, EnableAgain, RingKnown, Opened
    <2>7. CASE NewKey(p)
      BY <2>1, <2>7 DEF NewKey, EnableEncryption, RotateEncryptionKey
    <2>8. CASE Rewrites(p)
      BY <1>3, <2>1, <2>8 DEF Rewrites, ReadAll, Truncate, WriteRow, EndRewrite, Resume, RingKnown, Opened
    <2>9. CASE TakeKey(p)
      BY <2>1, <2>9 DEF TakeKey, Generate, Goto, Opened
    <2> QED
      BY <1>3, <2>3, <2>4, <2>5, <2>6, <2>7, <2>8, <2>9
         DEF Alone, Step, Leaves, RewriteCutShort, Kill
  <1> QED
    BY <1>2, <1>3

\* The process that rewrites appends: nobody else has written.
LEMMA NextRowIsAppended ==
  ASSUME NEW p \in Procs, Alone(p), WriteRow(p)
  PROVE  /\ pos[p] = Len(file) /\ Len(file) \in Nat /\ DOMAIN file = 1 .. Len(file)
         /\ Len(file) + 1 \in 1 .. Len(buf[p]) /\ DOMAIN buf[p] = 1 .. Len(buf[p])
         /\ buf[p][Len(file) + 1] \in Rows /\ ring[p] \in Rings
         /\ Len(file') = Len(file) + 1 /\ DOMAIN file' = 1 .. Len(file) + 1
         /\ \A i \in 1 .. Len(file) : file'[i] = file[i]
         /\ file'[Len(file) + 1] = Sealed(buf[p][Len(file) + 1], ring[p])
  <1>1. /\ TypeInv /\ file \in Seq(Rows) /\ Len(file) \in Nat /\ DOMAIN file = 1 .. Len(file)
        /\ pos[p] = Len(file)
    BY LenProperties DEF Alone, TypeInv, DiskTypes, AloneInv, Rewriting, WriteRow
  <1>2. /\ Len(file) + 1 \in DOMAIN buf[p] /\ buf[p][Len(file) + 1] \in Rows
        /\ ring[p] \in Rings /\ Sealed(buf[p][Len(file) + 1], ring[p]) \in Rows
    BY <1>1, NextRow
  <1>3. DOMAIN buf[p] = 1 .. Len(buf[p])
    BY <1>1, LenProperties DEF TypeInv, MemTypes
  <1> DEFINE row == Sealed(buf[p][Len(file) + 1], ring[p])
  <1>4. file' = Append(file, row)
    <2> DEFINE at == pos[p] + 1
               put == Sealed(buf[p][at], ring[p])
    <2>1. at > Len(file) => file' = Append(file, put)
      BY Zenon DEF WriteRow
    <2>2. at = Len(file) + 1 /\ at > Len(file)
      BY <1>1
    <2> QED
      BY <2>1, <2>2, Zenon
  <1> HIDE DEF row
  <1>5. row \in Rows
    BY <1>2 DEF row
  <1>6. /\ Append(file, row) \in Seq(Rows) /\ Len(Append(file, row)) = Len(file) + 1
        /\ \A i \in 1 .. Len(file) : Append(file, row)[i] = file[i]
        /\ Append(file, row)[Len(file) + 1] = row
    BY <1>1, <1>5, AppendProperties
  <1>7. DOMAIN Append(file, row) = 1 .. Len(file) + 1
    BY <1>6, LenProperties
  <1> QED
    BY <1>1, <1>2, <1>3, <1>4, <1>6, <1>7 DEF row

LEMMA RewritingStep ==
  ASSUME NEW p \in Procs, Alone(p)
  PROVE  Rewriting'
  <1> USE DEF mem, disk, history
  <1>1. /\ Rewriting /\ pc \in [Procs -> {"off", "key", "keyfile", "open"} \cup Opened]
        /\ buf \in [Procs -> Seq(Rows)] /\ pos \in [Procs -> Nat]
    BY DEF Alone, AloneInv, TypeInv, MemTypes
  <1>2. CASE pc'[p] \notin {"truncate", "write"}
    BY <1>2 DEF Alone, Rewriting
  <1>3. CASE ReadAll(p)
    <2>1. CASE Exit(p)
      BY <1>2, <2>1, NobodyIsLeft
    <2>2. CASE ~Exit(p)
      <3>1. pc'[p] = "truncate" /\ buf'[p] = file'
        BY <1>1, <1>3, <2>2 DEF ReadAll, Goto
      <3> QED
        BY <3>1 DEF Alone, Rewriting
    <2> QED
      BY <2>1, <2>2
  <1>4. CASE Truncate(p)
    <2>1. pc'[p] = "write" /\ file' = <<>> /\ pos'[p] = 0 /\ buf' = buf
      BY <1>1, <1>4 DEF Truncate, Goto
    <2>2. Len(buf[p]) \in Nat /\ Len(<<>>) = 0
      BY <1>1, EmptySeq, LenProperties
    <2> QED
      BY <2>1, <2>2 DEF Alone, Rewriting
  <1>5. CASE WriteRow(p)
    <2>1. /\ pc'[p] = "write" /\ pos'[p] = Len(file) + 1 /\ buf' = buf /\ ring' = ring
      BY <1>1, <1>5, NextRowIsAppended DEF WriteRow
    <2>2. \A i \in 1 .. Len(file) : file[i] = Sealed(buf[p][i], ring[p])
      BY <1>1, <1>5 DEF Rewriting, WriteRow
    <2>3. \A i \in 1 .. Len(file') : file'[i] = Sealed(buf[p][i], ring[p])
      BY <1>5, <2>2, NextRowIsAppended
    <2>4. Len(file') = Len(file) + 1 /\ Len(file) + 1 =< Len(buf[p])
      BY <1>5, NextRowIsAppended
    <2>5. \A q \in Procs : q # p => pc'[q] = "off"
      BY DEF Alone
    <2> QED
      BY <2>1, <2>3, <2>4, <2>5 DEF Rewriting
  <1>6. CASE ~(ReadAll(p) \/ Truncate(p) \/ WriteRow(p))
    <2> SUFFICES pc'[p] \notin {"truncate", "write"}
      BY <1>2
    <2>1. CASE Starts(p) \/ KeySteps(p) \/ Reopens(p)
      BY <1>1, <2>1 DEF Starts, CreateIdentity, Generate, Open, KeySteps, EmptyKeyFile, WriteKeyFile,
                        Reopens, OpenStore, Goto
    <2>2. CASE Leaves(p) \/ Load(p) \/ Appends(p) \/ EnableAgain(p) \/ NewKey(p) \/ Kill(p)
      BY <1>1, <2>2
         DEF Leaves, Load, Appends, AppendRow, AppendCutShort, EnableAgain, NewKey,
             EnableEncryption, RotateEncryptionKey, Kill, Exit, Goto
    <2>3. CASE EndRewrite(p)
      BY <1>1, <2>3 DEF EndRewrite, Resume, Exit, Goto
    <2>4. CASE TakeKey(p) \/ RewriteCutShort(p)
      BY <1>1, <2>4 DEF TakeKey, Generate, RewriteCutShort, Exit, Goto
    <2> QED
      BY <1>6, <2>1, <2>2, <2>3, <2>4 DEF Alone, Step, Rewrites
  <1> QED
    BY <1>3, <1>4, <1>5, <1>6


\* What an append adds to the file.
LEMMA AppendedRows ==
  ASSUME NEW p \in Procs, TypeInv, Appends(p)
  PROVE  \E row \in Rows :
           /\ \/ row = UnendedRow
              \/ AppendRow(p) /\ row.by = id[p] /\ row.key = IF ring[p].active = 0 THEN Plain
                                                                ELSE ring[p].active
           /\ \A i \in DOMAIN file' :
                \/ file'[i] \in {row, TornRow}
                \/ i \in DOMAIN file /\ file'[i] = file[i]
           /\ BodiesOf(file) \subseteq BodiesOf(file')
           /\ file' \in Seq(Rows)
  <1>1. file \in Seq(Rows) /\ ring[p] \in Rings
    BY DEF TypeInv, DiskTypes, MemTypes
  <1>2. CASE AppendRow(p)
    <2> DEFINE new == [seq |-> lastSeq[p] + 1, body |-> issued + 1, key |-> Plain, by |-> id[p]]
    <2>1. new \in Rows /\ new.by = id[p]
      BY MarksAssumption DEF TypeInv, DiskTypes, MemTypes, Rows, Keys
    <2>2. file' = Written(Sealed(new, ring[p]))
      BY <1>2 DEF AppendRow
    <2> HIDE DEF new
    <2>3. /\ Sealed(new, ring[p]) \in Rows /\ Sealed(new, ring[p]).by = id[p]
          /\ Sealed(new, ring[p]).key = IF ring[p].active = 0 THEN Plain ELSE ring[p].active
      BY <1>1, <2>1, SealedTypes
    <2>4. /\ Written(Sealed(new, ring[p])) \in Seq(Rows)
          /\ BodiesOf(file) \subseteq BodiesOf(Written(Sealed(new, ring[p])))
          /\ \A i \in DOMAIN Written(Sealed(new, ring[p])) :
               \/ Written(Sealed(new, ring[p]))[i] \in {Sealed(new, ring[p]), TornRow}
               \/ i \in DOMAIN file /\ Written(Sealed(new, ring[p]))[i] = file[i]
      BY <2>3, WrittenRows
    <2> DEFINE row == Sealed(new, ring[p])
    <2> HIDE DEF row
    <2>5. /\ row \in Rows /\ row.by = id[p]
          /\ row.key = IF ring[p].active = 0 THEN Plain ELSE ring[p].active
          /\ \A i \in DOMAIN file' :
               file'[i] \in {row, TornRow} \/ (i \in DOMAIN file /\ file'[i] = file[i])
          /\ BodiesOf(file) \subseteq BodiesOf(file') /\ file' \in Seq(Rows)
      BY <2>2, <2>3, <2>4, Zenon DEF row
    <2> QED
      BY <1>2, <2>5
  <1>3. CASE AppendCutShort(p) /\ LastUnended
    BY <1>1, <1>3, RowTypes DEF AppendCutShort
  <1>4. CASE AppendCutShort(p) /\ ~LastUnended
    <2> DEFINE new == Append(file, UnendedRow)
    <2>1. file' = new
      BY <1>4 DEF AppendCutShort
    <2>2. /\ new \in Seq(Rows) /\ Len(new) = Len(file) + 1
          /\ \A i \in 1 .. Len(file) : new[i] = file[i]
          /\ new[Len(file) + 1] = UnendedRow
      BY <1>1, RowTypes, AppendProperties
    <2>3. /\ DOMAIN new = 1 .. Len(file) + 1 /\ DOMAIN file = 1 .. Len(file)
          /\ Len(file) \in Nat
      BY <1>1, <2>2, LenProperties
    <2> HIDE DEF new
    <2>4. /\ \A i \in DOMAIN new : new[i] = UnendedRow \/ (i \in DOMAIN file /\ new[i] = file[i])
          /\ BodiesOf(file) \subseteq BodiesOf(new)
      BY <2>2, <2>3 DEF BodiesOf
    <2> QED
      BY <2>1, <2>2, <2>4, RowTypes
  <1> QED
    BY <1>2, <1>3, <1>4 DEF Appends

LEMMA KeyStep ==
  ASSUME NEW p \in Procs, Alone(p)
  PROVE  KeyInv'
  <1> USE DEF mem, disk, history
  <1>1. /\ KeyInv /\ Rewriting /\ pc \in [Procs -> {"off", "key", "keyfile", "open"} \cup Opened]
        /\ cmd \in [Procs -> Cmds \cup {"serve", "none"}] /\ id \in [Procs -> Nat]
        /\ buf \in [Procs -> Seq(Rows)] /\ file \in Seq(Rows)
    BY DEF Alone, AloneInv, TypeInv, DiskTypes, MemTypes
  <1>2. SUFFICES /\ SignedBy(file', {keyFile', NoId})
                 /\ pc'[p] \in {"key", "keyfile"} => SignedBy(file', {NoId})
                 /\ pc'[p] \in {"open"} \cup Opened /\ cmd'[p] \in Signing => id'[p] = keyFile'
                 /\ pc'[p] = "write" => SignedBy(buf'[p], {keyFile', NoId})
    <2>1. \A q \in Procs : q # p => pc'[q] = "off"
      BY DEF Alone
    <2> HIDE DEF SignedBy
    <2> QED
      BY <2>1 DEF KeyInv, Opened
  <1>3. SignedBy(file, {keyFile, NoId})
    BY <1>1 DEF KeyInv
  <1>4. CASE Exit(p) /\ UNCHANGED <<file, keyFile>>
    <2>1. pc'[p] = "off"
      BY <1>4, NobodyIsLeft
    <2> QED
      BY <1>3, <1>4, <2>1 DEF Opened
  <1>5. CASE Starts(p)
    <2>1. PICK c \in {"serve"} \cup Cmds : CreateIdentity(p, c) \/ Open(p, c)
      BY <1>5 DEF Starts
    <2>2. CASE CreateIdentity(p, c)
      BY <1>1, <1>3, <2>2 DEF CreateIdentity, Generate, Goto, Opened, SignedBy
    <2>3. CASE Open(p, c)
      BY <1>1, <1>3, <2>3 DEF Open, Enter, OpenStore, Goto, Opened
    <2> QED
      BY <2>1, <2>2, <2>3
  <1>6. CASE KeySteps(p)
    <2>1. SignedBy(file, {NoId})
      BY <1>1, <1>6 DEF KeySteps, EmptyKeyFile, WriteKeyFile, KeyInv
    <2> QED
      BY <1>1, <1>6, <2>1
         DEF KeySteps, EmptyKeyFile, WriteKeyFile, Goto, Opened, SignedBy
  <1>7. CASE Reopens(p)
    BY <1>1, <1>3, <1>7 DEF Reopens, OpenStore, Goto, Opened, KeyInv
  <1>8. CASE Load(p)
    BY <1>1, <1>3, <1>4, <1>8 DEF Load, Goto, Opened, KeyInv
  <1>9. CASE Appends(p)
    <2>1. /\ pc[p] = "ready" /\ id[p] = keyFile /\ UNCHANGED keyFile
          /\ Exit(p) \/ UNCHANGED <<pc, cmd, id>>
      BY <1>1, <1>9 DEF Appends, AppendRow, AppendCutShort, KeyInv, Opened
    <2>2. SignedBy(file', {keyFile', NoId})
      <3>1. PICK row \in Rows :
              /\ row = UnendedRow \/ row.by = id[p]
              /\ \A i \in DOMAIN file' :
                   \/ file'[i] \in {row, TornRow}
                   \/ i \in DOMAIN file /\ file'[i] = file[i]
        BY <1>9, AppendedRows DEF Alone
      <3> QED
        BY <1>3, <2>1, <3>1, RowTypes DEF SignedBy
    <2>3. pc'[p] \in {"ready", "off"} /\ (pc'[p] = "ready" => UNCHANGED <<cmd, id>>)
      BY <2>1, NobodyIsLeft
    <2> QED
      BY <2>1, <2>2, <2>3, <1>1 DEF Opened, KeyInv
  <1>10. CASE EnableAgain(p)
    BY <1>1, <1>3, <1>4, <1>10 DEF EnableAgain, Opened, KeyInv, Signing
  <1>11. CASE NewKey(p)
    BY <1>1, <1>3, <1>11
       DEF NewKey, EnableEncryption, RotateEncryptionKey, Goto, Opened, KeyInv, Signing
  <1>12. CASE ReadAll(p)
    BY <1>1, <1>3, <1>4, <1>12 DEF ReadAll, Goto, Opened, KeyInv
  <1>13. CASE Truncate(p)
    <2>1. SignedBy(<<>>, {keyFile, NoId}) /\ SignedBy(buf[p], {keyFile, NoId})
      <3>1. buf[p] = file
        BY <1>1, <1>13 DEF Truncate, Rewriting
      <3>2. DOMAIN <<>> = {}
        BY EmptySeq
      <3> QED
        BY <1>3, <3>1, <3>2 DEF SignedBy
    <2> HIDE DEF SignedBy
    <2> QED
      BY <1>1, <1>13, <2>1 DEF Truncate, Goto, Opened, KeyInv
  <1>14. CASE WriteRow(p)
    <2>1. SignedBy(file', {keyFile, NoId})
      <3>1. SignedBy(buf[p], {keyFile, NoId})
        BY <1>1, <1>14 DEF WriteRow, KeyInv
      <3>2. file'[Len(file) + 1].by = buf[p][Len(file) + 1].by
        BY <1>14, NextRowIsAppended, SealedTypes
      <3>3. /\ DOMAIN file' = 1 .. Len(file) + 1 /\ DOMAIN file = 1 .. Len(file)
            /\ Len(file) + 1 \in DOMAIN buf[p] /\ Len(file) \in Nat
            /\ \A i \in 1 .. Len(file) : file'[i] = file[i]
        BY <1>14, NextRowIsAppended
      <3> QED
        BY <1>3, <3>1, <3>2, <3>3 DEF SignedBy
    <2>2. UNCHANGED <<pc, cmd, id, buf, keyFile>> /\ pc[p] = "write"
      BY <1>14 DEF WriteRow
    <2> QED
      BY <1>1, <2>1, <2>2 DEF KeyInv, Opened
  <1>15. CASE EndRewrite(p)
    <2>1. CASE Migrates(p) \/ cmd[p] = "drill"
      BY <1>1, <1>3, <1>15, <2>1 DEF EndRewrite, Resume, Goto, Opened, KeyInv, Signing
    <2>2. CASE ~(Migrates(p) \/ cmd[p] = "drill")
      BY <1>4, <1>15, <2>2 DEF EndRewrite
    <2> QED
      BY <2>1, <2>2
  <1>16. CASE TakeKey(p)
    <2>1. /\ pc'[p] \in {"key", "open"} /\ UNCHANGED <<file, keyFile>>
          /\ pc'[p] = "key" => keyFile = NoId
          /\ pc'[p] = "open" => id'[p] = keyFile
      BY <1>1, <1>16 DEF TakeKey, Generate, Goto
    <2> QED
      BY <1>3, <2>1 DEF Opened, SignedBy
  <1>17. CASE RewriteCutShort(p)
    <2>1. pc'[p] = "off" /\ UNCHANGED keyFile
      BY <1>17, NobodyIsLeft DEF RewriteCutShort
    <2>2. \A i \in DOMAIN file' :
            \/ file'[i] \in {TornRow, UnendedRow}
            \/ i \in DOMAIN file /\ file'[i] = file[i]
      BY <1>1, <1>17, PartIsPut, RowTypes DEF Alone
    <2>3. SignedBy(file', {keyFile', NoId})
      BY <1>3, <2>1, <2>2, RowTypes DEF SignedBy
    <2> QED
      BY <2>1, <2>3 DEF Opened
  <1> QED
    BY <1>4, <1>5, <1>6, <1>7, <1>8, <1>9, <1>10, <1>11, <1>12, <1>13, <1>14, <1>15, <1>16,
       <1>17
       DEF Alone, Step, Leaves, Rewrites, Kill


\* The highest number of a file that is numbered 1, 2, 3, ...
LEMMA TopOfNumbered ==
  ASSUME NEW rows \in Seq(Rows), Numbered(rows)
  PROVE  TopSeq(rows) = Len(rows)
  <1>1. DOMAIN rows = 1 .. Len(rows) /\ Len(rows) \in Nat
    BY LenProperties
  <1>2. /\ TopSeq(rows) \in Nat
        /\ TopSeq(rows) \in {0} \cup {rows[i].seq : i \in DOMAIN rows}
        /\ \A i \in DOMAIN rows : rows[i].seq =< TopSeq(rows)
    BY TopSeqType
  <1>3. TopSeq(rows) = 0 \/ \E i \in DOMAIN rows : TopSeq(rows) = i
    BY <1>2 DEF Numbered
  <1>4. \A i \in DOMAIN rows : i =< TopSeq(rows)
    BY <1>2 DEF Numbered
  <1>5. Len(rows) # 0 => Len(rows) \in DOMAIN rows
    BY <1>1
  <1> HIDE DEF Numbered
  <1> QED
    BY <1>1, <1>2, <1>3, <1>4, <1>5

LEMMA NumbersStep ==
  ASSUME NEW p \in Procs, Alone(p)
  PROVE  NumbersInv'
  <1> USE DEF mem, disk, history
  <1> DEFINE Ended(rows) == \A i \in DOMAIN rows : rows[i].key # Unended
  <1>1. /\ Rewriting /\ pc \in [Procs -> {"off", "key", "keyfile", "open"} \cup Opened]
        /\ cmd \in [Procs -> Cmds \cup {"serve", "none"}] /\ lastSeq \in [Procs -> Nat]
        /\ buf \in [Procs -> Seq(Rows)] /\ file \in Seq(Rows) /\ ring \in [Procs -> Rings]
        /\ pos \in [Procs -> Nat]
    BY DEF Alone, AloneInv, TypeInv, DiskTypes, MemTypes
  <1>2. SUFFICES ASSUME ~tear'
                 PROVE  /\ Numbered(file') /\ Ended(file')
                        /\ pc'[p] = "ready" => lastSeq'[p] = Len(file')
                        /\ pc'[p] \in {"read", "truncate"} /\ ~Migrates(p)'
                             => lastSeq'[p] = Len(file')
                        /\ pc'[p] = "write" => Numbered(buf'[p])
                        /\ pc'[p] = "write" /\ ~Migrates(p)' => lastSeq'[p] = Len(buf'[p])
    <2>1. \A q \in Procs : q # p => pc'[q] = "off"
      BY DEF Alone
    <2> HIDE DEF Numbered, Migrates
    <2> QED
      BY <2>1 DEF NumbersInv
  <1>3. ~tear
    BY <1>2
       DEF Alone, Step, Leaves, Starts, CreateIdentity, Generate, Open, KeySteps, EmptyKeyFile, WriteKeyFile,
           Reopens, OpenStore, Load, Appends, AppendRow, AppendCutShort, EnableAgain, NewKey,
           EnableEncryption, RotateEncryptionKey, Rewrites, ReadAll, Truncate, WriteRow,
           EndRewrite, TakeKey, RewriteCutShort, Kill
  <1>4. /\ Numbered(file) /\ Ended(file)
        /\ pc[p] = "ready" => lastSeq[p] = Len(file)
        /\ pc[p] \in {"read", "truncate"} /\ ~Migrates(p) => lastSeq[p] = Len(file)
        /\ pc[p] = "write" => Numbered(buf[p])
        /\ pc[p] = "write" /\ ~Migrates(p) => lastSeq[p] = Len(buf[p])
    BY <1>3 DEF Alone, AloneInv, NumbersInv
  <1> HIDE DEF Ended
  <1>5. CASE Exit(p) /\ UNCHANGED file
    <2>1. pc'[p] = "off"
      BY <1>5, NobodyIsLeft
    <2> QED
      BY <1>4, <1>5, <2>1
  <1>6. CASE OpenStore(p)
    <2>1. pc'[p] \in {"read", "load"} /\ UNCHANGED file
      BY <1>1, <1>6 DEF OpenStore, Goto
    <2>2. pc'[p] = "read" => Migrates(p)'
      BY <1>1, <1>6 DEF OpenStore, Goto, Alone, SchemaInv, Migrates, NoRing
    <2> QED
      BY <1>4, <2>1, <2>2
  <1>7. CASE Starts(p) \/ KeySteps(p)
    <2>1. CASE ~OpenStore(p)
      BY <1>1, <1>4, <1>7, <2>1
         DEF Starts, CreateIdentity, Generate, Open, KeySteps, EmptyKeyFile, WriteKeyFile, Goto
    <2> QED
      BY <1>6, <2>1
  <1>8. CASE Load(p)
    <2>1. CASE Readable(file, ring[p])
      <3>1. lastSeq'[p] = TopSeq(file) /\ pc'[p] = "ready" /\ UNCHANGED file
        BY <1>1, <1>8, <2>1 DEF Load, Goto
      <3> QED
        BY <1>1, <1>4, <3>1, TopOfNumbered
    <2> QED
      BY <1>5, <1>8, <2>1 DEF Load
  <1>9. CASE Appends(p)
    <2>1. AppendRow(p) /\ pc[p] = "ready"
      BY <1>2, <1>9 DEF Appends, AppendCutShort, AppendRow
    <2> DEFINE new == [seq |-> lastSeq[p] + 1, body |-> issued + 1, key |-> Plain, by |-> id[p]]
               row == Sealed(new, ring[p])
    <2>2. new \in Rows /\ new.seq = Len(file) + 1
      BY <1>1, <1>4, <2>1, MarksAssumption DEF Alone, TypeInv, DiskTypes, MemTypes, Rows, Keys
    <2>3. Len(file) \in Nat /\ DOMAIN file = 1 .. Len(file)
      BY <1>1, LenProperties
    <2>4. ~LastUnended
      <3>1. file # <<>> => Len(file) \in 1 .. Len(file)
        BY <1>1, EmptySeq, LenProperties
      <3> QED
        BY <1>4, <2>3, <3>1 DEF LastUnended, Ended
    <2>5. file' = Append(file, row)
      BY <2>1, <2>4 DEF AppendRow, Written
    <2> HIDE DEF new
    <2>6. /\ row \in Rows /\ row.seq = Len(file) + 1 /\ row.key # Unended
      <3>1. ring[p] \in Rings
        BY <1>1
      <3>2. row \in Rows /\ row.seq = new.seq
            /\ row.key = IF ring[p].active = 0 THEN Plain ELSE ring[p].active
        BY <2>2, <3>1, SealedTypes
      <3> HIDE DEF row
      <3> QED
        BY <2>2, <3>1, <3>2, RingTypes, MarksAssumption DEF KeyIds
    <2> HIDE DEF row
    <2>7. /\ Len(file') = Len(file) + 1 /\ file' \in Seq(Rows)
          /\ \A i \in 1 .. Len(file) : file'[i] = file[i]
          /\ file'[Len(file) + 1] = row
      BY <1>1, <2>5, <2>6, AppendProperties
    <2>8. DOMAIN file' = 1 .. Len(file) + 1
      BY <2>7, LenProperties
    <2>9. Numbered(file') /\ Ended(file')
      BY <1>4, <2>3, <2>6, <2>7, <2>8 DEF Numbered, Ended
    <2>10. CASE Exit(p)
      BY <2>9, <2>10, NobodyIsLeft
    <2>11. CASE ~Exit(p)
      <3>1. lastSeq'[p] = lastSeq[p] + 1 /\ pc'[p] = "ready"
        BY <1>1, <2>1, <2>11 DEF AppendRow
      <3> QED
        BY <1>4, <2>1, <2>7, <2>9, <3>1
    <2> QED
      BY <2>10, <2>11
  <1>10. CASE EnableAgain(p)
    BY <1>1, <1>4, <1>5, <1>10 DEF EnableAgain
  <1>11. CASE NewKey(p)
    BY <1>1, <1>4, <1>11 DEF NewKey, EnableEncryption, RotateEncryptionKey, Goto
  <1>12. CASE ReadAll(p)
    BY <1>1, <1>4, <1>5, <1>12 DEF ReadAll, Goto, Migrates
  <1>13. CASE Truncate(p)
    <2>1. Numbered(<<>>) /\ Ended(<<>>)
      BY EmptySeq DEF Numbered, Ended
    <2>2. buf[p] = file
      BY <1>1, <1>13 DEF Truncate, Rewriting
    <2>3. file' = <<>> /\ pc[p] = "truncate" /\ pc'[p] = "write" /\ UNCHANGED <<ring, buf, lastSeq>>
      BY <1>1, <1>13 DEF Truncate, Goto
    <2> HIDE DEF Numbered
    <2> QED
      BY <1>4, <2>1, <2>2, <2>3 DEF Migrates
  <1>14. CASE WriteRow(p)
    <2>1. Numbered(file') /\ Ended(file')
      <3>1. Numbered(buf[p])
        BY <1>4, <1>14 DEF WriteRow
      <3>2. /\ file'[Len(file) + 1].seq = buf[p][Len(file) + 1].seq
            /\ file'[Len(file) + 1].key # Unended
        BY <1>14, NextRowIsAppended, SealedTypes, RingTypes, MarksAssumption DEF KeyIds
      <3>3. /\ DOMAIN file' = 1 .. Len(file) + 1 /\ DOMAIN file = 1 .. Len(file)
            /\ Len(file) + 1 \in DOMAIN buf[p] /\ Len(file) \in Nat
            /\ \A i \in 1 .. Len(file) : file'[i] = file[i]
        BY <1>14, NextRowIsAppended
      <3> QED
        BY <1>4, <3>1, <3>2, <3>3 DEF Numbered, Ended
    <2>2. pc[p] = "write" /\ UNCHANGED <<pc, ring, buf, lastSeq>>
      BY <1>14 DEF WriteRow
    <2> QED
      BY <1>4, <2>1, <2>2 DEF Migrates
  <1>15. CASE EndRewrite(p)
    <2>1. CASE Migrates(p)
      BY <1>1, <1>4, <1>15, <2>1 DEF EndRewrite, Resume, Goto
    <2>2. CASE ~Migrates(p) /\ cmd[p] = "drill"
      <3>1. lastSeq[p] = Len(file)
        BY <1>1, <1>4, <1>15, <2>2 DEF EndRewrite, Rewriting
      <3>2. pc'[p] = "ready" /\ UNCHANGED <<file, lastSeq>>
        BY <1>1, <1>15, <2>2 DEF EndRewrite, Resume, Goto
      <3> QED
        BY <1>4, <3>1, <3>2
    <2>3. CASE ~Migrates(p) /\ cmd[p] # "drill"
      BY <1>5, <1>15, <2>3 DEF EndRewrite
    <2> QED
      BY <2>1, <2>2, <2>3
  <1>16. CASE TakeKey(p)
    BY <1>1, <1>4, <1>16 DEF TakeKey, Generate, Goto
  <1> QED
    BY <1>2, <1>5, <1>6, <1>7, <1>8, <1>9, <1>10, <1>11, <1>12, <1>13, <1>14, <1>15, <1>16
       DEF Alone, Step, Leaves, Reopens, Rewrites, RewriteCutShort, Kill


LEMMA AckedStep ==
  ASSUME NEW p \in Procs, Alone(p)
  PROVE  AckedInv'
  <1> USE DEF mem, disk, history
  <1>1. /\ Rewriting /\ pc \in [Procs -> {"off", "key", "keyfile", "open"} \cup Opened]
        /\ cmd \in [Procs -> Cmds \cup {"serve", "none"}]
        /\ buf \in [Procs -> Seq(Rows)] /\ file \in Seq(Rows)
        /\ ring \in [Procs -> Rings]
    BY DEF Alone, AloneInv, TypeInv, DiskTypes, MemTypes
  <1>2. SUFFICES ASSUME "write" \notin cut'
                 PROVE  /\ pc'[p] # "write" => acked' \subseteq BodiesOf(file') \cup joined'
                        /\ pc'[p] = "write" => acked' \subseteq BodiesOf(buf'[p]) \cup joined'
    <2>1. \A q \in Procs : q # p => pc'[q] = "off"
      BY DEF Alone
    <2> HIDE DEF BodiesOf
    <2> QED
      BY <2>1 DEF AckedInv
  <1>3. "write" \notin cut
    BY <1>2
       DEF Alone, Step, Leaves, Starts, CreateIdentity, Generate, Open, KeySteps, EmptyKeyFile, WriteKeyFile,
           Reopens, OpenStore, Load, Appends, AppendRow, AppendCutShort, EnableAgain, NewKey,
           EnableEncryption, RotateEncryptionKey, Rewrites, ReadAll, Truncate, WriteRow,
           EndRewrite, TakeKey, RewriteCutShort, Kill
  <1>4. /\ pc[p] # "write" => acked \subseteq BodiesOf(file) \cup joined
        /\ pc[p] = "write" => acked \subseteq BodiesOf(buf[p]) \cup joined
    <2>1. \A q \in Procs : q # p => pc[q] = "off"
      BY DEF Alone
    <2> QED
      BY <1>3, <2>1 DEF Alone, AloneInv, AckedInv
  <1>5. CASE /\ pc[p] # "write" /\ pc'[p] # "write" /\ UNCHANGED <<acked, joined>>
             /\ BodiesOf(file) \subseteq BodiesOf(file')
    BY <1>4, <1>5
  <1>6. CASE Exit(p) /\ pc[p] # "write" /\ UNCHANGED <<file, acked, joined>>
    BY <1>5, <1>6, NobodyIsLeft
  <1>7. CASE Starts(p)
    <2>1. PICK c \in {"serve"} \cup Cmds : CreateIdentity(p, c) \/ Open(p, c)
      BY <1>7 DEF Starts
    <2>2. pc[p] # "write" /\ pc'[p] # "write" /\ UNCHANGED <<file, acked, joined>>
      BY <1>1, <2>1 DEF CreateIdentity, Generate, Open, Enter, OpenStore, Goto
    <2> QED
      BY <1>5, <2>2
  <1>8. CASE KeySteps(p)
    BY <1>1, <1>5, <1>8 DEF KeySteps, EmptyKeyFile, WriteKeyFile, Goto
  <1>9. CASE Reopens(p)
    BY <1>1, <1>5, <1>9 DEF Reopens, OpenStore, Goto
  <1>10. CASE Load(p)
    BY <1>1, <1>5, <1>6, <1>10 DEF Load, Goto
  <1>11. CASE AppendRow(p)
    <2>1. pc[p] = "ready" /\ pc'[p] # "write"
      BY <1>1, <1>11, NobodyIsLeft DEF AppendRow
    <2> DEFINE new == [seq |-> lastSeq[p] + 1, body |-> issued + 1, key |-> Plain, by |-> id[p]]
               row == Sealed(new, ring[p])
    <2>2. row \in Rows /\ row.body = issued + 1
      <3>1. new \in Rows /\ new.body = issued + 1
        BY MarksAssumption DEF Alone, TypeInv, DiskTypes, MemTypes, Rows, Keys
      <3>2. ring[p] \in Rings
        BY <1>1
      <3> HIDE DEF new
      <3> QED
        BY <3>1, <3>2, SealedTypes
    <2>3. /\ file' = Written(row) /\ acked' = acked \cup {issued + 1}
          /\ joined' = IF LastUnended THEN joined \cup {issued + 1} ELSE joined
      BY <1>11 DEF AppendRow
    <2> HIDE DEF row
    <2>4. /\ BodiesOf(file) \subseteq BodiesOf(file')
          /\ ~LastUnended => issued + 1 \in BodiesOf(file')
      BY <2>2, <2>3, WrittenRows DEF Alone
    <2> HIDE DEF BodiesOf, LastUnended
    <2> QED
      BY <1>4, <2>1, <2>3, <2>4
  <1>12. CASE AppendCutShort(p)
    <2>1. BodiesOf(file) \subseteq BodiesOf(file')
      BY <1>12, AppendedRows DEF Alone, Appends
    <2>2. pc[p] = "ready" /\ pc'[p] # "write" /\ UNCHANGED <<acked, joined>>
      BY <1>1, <1>12, NobodyIsLeft DEF AppendCutShort
    <2> QED
      BY <1>5, <2>1, <2>2
  <1>13. CASE EnableAgain(p)
    BY <1>1, <1>5, <1>6, <1>13 DEF EnableAgain
  <1>14. CASE NewKey(p)
    BY <1>1, <1>5, <1>14 DEF NewKey, EnableEncryption, RotateEncryptionKey, Goto
  <1>15. CASE ReadAll(p)
    BY <1>1, <1>5, <1>6, <1>15 DEF ReadAll, Goto
  <1>16. CASE Truncate(p)
    <2>1. buf[p] = file /\ pc[p] = "truncate"
      BY <1>1, <1>16 DEF Truncate, Rewriting
    <2>2. pc'[p] = "write" /\ UNCHANGED <<buf, acked, joined>>
      BY <1>1, <1>16 DEF Truncate, Goto
    <2> QED
      BY <1>4, <2>1, <2>2
  <1>17. CASE WriteRow(p)
    BY <1>4, <1>17 DEF WriteRow
  <1>18. CASE EndRewrite(p)
    <2>1. BodiesOf(buf[p]) \subseteq BodiesOf(file)
      <3>1. /\ pos[p] = Len(file) /\ pos[p] = Len(buf[p])
            /\ \A i \in 1 .. Len(file) : file[i] = Sealed(buf[p][i], ring[p])
        BY <1>1, <1>18 DEF EndRewrite, Rewriting
      <3>2. /\ DOMAIN file = 1 .. Len(file) /\ DOMAIN buf[p] = 1 .. Len(buf[p])
            /\ buf[p] \in Seq(Rows) /\ ring[p] \in Rings
        BY <1>1, LenProperties
      <3>3. \A i \in DOMAIN buf[p] : buf[p][i] \in Rows
        BY <3>2, ElementOfSeq
      <3>4. \A i \in DOMAIN buf[p] : i \in DOMAIN file /\ file[i].body = buf[p][i].body
        BY <3>1, <3>2, <3>3, SealedTypes
      <3> QED
        BY <3>4 DEF BodiesOf
    <2>2. pc[p] = "write" /\ pc'[p] # "write" /\ UNCHANGED <<file, acked, joined>>
      BY <1>1, <1>18, NobodyIsLeft DEF EndRewrite, Resume, Goto
    <2> HIDE DEF BodiesOf
    <2> QED
      BY <1>4, <2>1, <2>2
  <1>19. CASE Kill(p)
    <2>1. pc[p] # "write"
      BY <1>2, <1>19 DEF Kill, Stages
    <2> QED
      BY <1>6, <1>19, <2>1 DEF Kill
  <1>20. CASE TakeKey(p)
    BY <1>1, <1>5, <1>20 DEF TakeKey, Generate, Goto
  <1> QED
    BY <1>2, <1>6, <1>7, <1>8, <1>9, <1>10, <1>11, <1>12, <1>13, <1>14, <1>15, <1>16, <1>17,
       <1>18, <1>19, <1>20
       DEF Alone, Step, Leaves, Appends, Rewrites, RewriteCutShort


LEMMA SealedStep ==
  ASSUME NEW p \in Procs, Alone(p)
  PROVE  SealedInv'
  <1> USE DEF mem, disk, history
  <1> DEFINE Quiet == ringFile \notin {NoRing, BrokenRing} /\ pc[p] \notin Stages
  <1>1. /\ RingKnown /\ Rewriting /\ SchemaInv
        /\ pc \in [Procs -> {"off", "key", "keyfile", "open"} \cup Opened]
        /\ cmd \in [Procs -> Cmds \cup {"serve", "none"}] /\ ring \in [Procs -> Rings]
        /\ buf \in [Procs -> Seq(Rows)] /\ file \in Seq(Rows) /\ keys \in 0 .. MaxKeys
        /\ DOMAIN file = 1 .. Len(file) /\ Len(file) \in Nat
    BY LenProperties DEF Alone, AloneInv, TypeInv, DiskTypes, MemTypes
  <1>2. SUFFICES /\ enabled' => ringFile' # NoRing
                 /\ (pc'[p] = "ready" /\ cmd'[p] \notin Signing)
                      \/ (pc'[p] = "read" /\ ring'[p].active # 0) => Readable(file', ring'[p])
                 /\ cut' = {} /\ (enabled' \/ Quiet') => NoPlain(file')
    <2>1. \A q \in Procs : q # p => pc'[q] = "off"
      BY DEF Alone
    <2> HIDE DEF NoPlain, Readable
    <2> QED
      BY <2>1 DEF SealedInv, Migrates, Stages
  <1>3. /\ enabled => ringFile # NoRing
        /\ (pc[p] = "ready" /\ cmd[p] \notin Signing)
             \/ (pc[p] = "read" /\ ring[p].active # 0) => Readable(file, ring[p])
        /\ cut = {} /\ (enabled \/ Quiet) => NoPlain(file)
    <2>1. \A q \in Procs : q # p => pc[q] = "off"
      BY DEF Alone
    <2> HIDE DEF NoPlain, Readable
    <2> QED
      BY <2>1 DEF Alone, AloneInv, SealedInv, Migrates, Stages
  <1> HIDE DEF NoPlain, Readable
  <1>4. /\ pc[p] \in Opened => ring[p] = ringFile /\ ringFile # BrokenRing
        /\ ring[p].active = 0 <=> ring[p] = NoRing
        /\ ring[p].active # 0 => ring[p].active \in KeyIds /\ ring[p].active \in ring[p].keys
        /\ \A k \in KeyIds : k # Plain /\ k # 0
    BY <1>1, RingTypes, MarksAssumption DEF RingKnown, KeyIds
  <1>5. CASE /\ UNCHANGED <<file, ringFile, enabled>>
             /\ cut' = {} => cut = {} /\ pc[p] \notin Stages
             /\ pc'[p] = "off"
    BY <1>3, <1>5
  <1>6. CASE Exit(p) /\ pc[p] \notin Stages /\ UNCHANGED <<file, ringFile, enabled, cut>>
    BY <1>5, <1>6, NobodyIsLeft
  <1>7. CASE OpenStore(p) /\ pc[p] \notin Stages
    <2>1. /\ UNCHANGED <<file, ringFile, enabled, cut>>
          /\ pc'[p] = IF schema = 1 THEN "read" ELSE "load"
          /\ ring'[p] = ringFile
      BY <1>1, <1>7 DEF OpenStore, Goto
    <2>2. schema = 1 => ring'[p].active = 0
      BY <1>1, <2>1 DEF SchemaInv, NoRing
    <2> QED
      BY <1>3, <1>7, <2>1, <2>2 DEF Stages
  <1>8. CASE Starts(p) \/ KeySteps(p)
    <2>1. CASE ~OpenStore(p)
      <3>1. /\ UNCHANGED <<file, ringFile, enabled, cut>> /\ pc[p] \notin Stages
            /\ pc'[p] \in {"key", "keyfile", "open"}
        BY <1>1, <1>8, <2>1
           DEF Starts, CreateIdentity, Generate, Enter, Open, KeySteps, EmptyKeyFile, WriteKeyFile, Goto,
               Stages
      <3> QED
        BY <1>3, <3>1 DEF Stages
    <2>2. CASE OpenStore(p)
      <3>1. pc[p] \notin Stages
        BY <1>8, <2>2 DEF Starts, CreateIdentity, Generate, Enter, Open, KeySteps, EmptyKeyFile,
                          WriteKeyFile, Stages
      <3> QED
        BY <1>7, <2>2, <3>1
    <2> QED
      BY <2>1, <2>2
  <1>9. CASE Load(p)
    <2>1. CASE Readable(file, ring[p])
      <3>1. /\ UNCHANGED <<file, ringFile, enabled, cut, ring>> /\ pc[p] = "load"
            /\ pc'[p] = "ready"
        BY <1>1, <1>9, <2>1 DEF Load, Goto
      <3> QED
        BY <1>3, <2>1, <3>1 DEF Stages
    <2>2. CASE ~Readable(file, ring[p])
      BY <1>6, <1>9, <2>2 DEF Load, Stages
    <2> QED
      BY <2>1, <2>2
  <1>10. CASE Appends(p)
    <2>1. /\ UNCHANGED <<ringFile, enabled, cut>> /\ pc[p] = "ready" /\ cmd[p] \in Signing
          /\ pc'[p] = "off" \/ (pc'[p] = "ready" /\ cmd'[p] = cmd[p])
      BY <1>1, <1>10, NobodyIsLeft DEF Appends, AppendRow, AppendCutShort
    <2>2. ASSUME NoPlain(file), ringFile # NoRing
          PROVE  NoPlain(file')
      <3>1. PICK row \in Rows :
              /\ row = UnendedRow \/ row.key = IF ring[p].active = 0 THEN Plain
                                                                     ELSE ring[p].active
              /\ \A i \in DOMAIN file' :
                   \/ file'[i] \in {row, TornRow}
                   \/ i \in DOMAIN file /\ file'[i] = file[i]
        BY <1>10, AppendedRows DEF Alone
      <3>2. row.key # Plain
        BY <1>4, <2>1, <2>2, <3>1, RowTypes, MarksAssumption DEF Opened
      <3> QED
        BY <2>2, <3>1, <3>2, RowTypes, MarksAssumption DEF NoPlain
    <2> QED
      BY <1>3, <2>1, <2>2 DEF Stages
  <1>11. CASE EnableAgain(p)
    <2>1. /\ UNCHANGED <<file, ringFile, cut>>
          /\ pc[p] = "ready" /\ ring[p].active # 0
          /\ pc'[p] = "off" \/ (pc'[p] = "ready" /\ UNCHANGED ring /\ cmd[p] = "drill")
      BY <1>1, <1>11, NobodyIsLeft DEF EnableAgain
    <2>2. Quiet
      BY <1>4, <2>1 DEF Opened, Stages
    <2> QED
      BY <1>3, <2>1, <2>2 DEF Signing
  <1>12. CASE NewKey(p)
    <2>1. /\ UNCHANGED <<file, enabled, cut>> /\ pc[p] = "ready" /\ pc'[p] = "read"
          /\ cmd[p] \notin Signing
      BY <1>1, <1>12
         DEF NewKey, EnableEncryption, RotateEncryptionKey, Goto, Signing
    <2>2. ringFile' # NoRing
      <3>1. ringFile'.active = keys + 1 /\ keys + 1 # 0
        BY <1>1, <1>12, BoundsAssumption DEF NewKey, EnableEncryption, RotateEncryptionKey
      <3> QED
        BY <3>1 DEF NoRing
    <2>3. ring[p].keys \subseteq ring'[p].keys
      <3>1. ring[p].active = 0 => ring[p].keys = {}
        BY <1>1, RingTypes
      <3> QED
        BY <1>1, <1>12, <3>1 DEF NewKey, EnableEncryption, RotateEncryptionKey
    <2>4. Readable(file, ring'[p])
      BY <1>3, <2>1, <2>3 DEF Readable
    <2>5. enabled => NoPlain(file) \/ cut # {}
      BY <1>3
    <2> QED
      BY <2>1, <2>2, <2>4, <2>5 DEF Stages
  <1>13. CASE ReadAll(p)
    <2>1. CASE Readable(file, ring[p])
      <3>1. /\ UNCHANGED <<file, ringFile, enabled, cut>> /\ pc'[p] = "truncate"
        BY <1>1, <1>13, <2>1 DEF ReadAll, Goto
      <3> QED
        BY <1>3, <3>1 DEF Stages
    <2>2. CASE ~Readable(file, ring[p])
      <3>1. Exit(p) /\ UNCHANGED <<file, ringFile, enabled, cut>> /\ pc[p] = "read"
        BY <1>13, <2>2 DEF ReadAll
      <3>2. ringFile = NoRing
        BY <1>3, <1>4, <2>2, <3>1 DEF Opened
      <3> QED
        BY <1>3, <3>1, <3>2, NobodyIsLeft
    <2> QED
      BY <2>1, <2>2
  <1>14. CASE Truncate(p)
    <2>1. UNCHANGED <<ringFile, enabled>> /\ file' = <<>> /\ pc'[p] = "write"
      BY <1>1, <1>14 DEF Truncate, Goto
    <2>2. NoPlain(<<>>)
      BY EmptySeq DEF NoPlain
    <2> QED
      BY <1>3, <2>1, <2>2
  <1>15. CASE WriteRow(p)
    <2>1. UNCHANGED <<ringFile, enabled, cut, pc>> /\ pc[p] = "write"
      BY <1>15 DEF WriteRow
    <2>2. ASSUME NoPlain(file), ringFile # NoRing
          PROVE  NoPlain(file')
      <3>1. file'[Len(file) + 1].key # Plain
        BY <1>4, <1>15, <2>1, <2>2, NextRowIsAppended, SealedTypes DEF Opened
      <3>2. /\ DOMAIN file' = 1 .. Len(file) + 1 /\ \A i \in 1 .. Len(file) : file'[i] = file[i]
        BY <1>15, NextRowIsAppended
      <3> QED
        BY <1>1, <2>2, <3>1, <3>2 DEF NoPlain
    <2> QED
      BY <1>3, <2>1, <2>2 DEF Stages
  <1>16. CASE EndRewrite(p)
    <2>1. pc[p] = "write" /\ UNCHANGED <<file, ringFile, cut>>
      BY <1>16 DEF EndRewrite
    <2>2. CASE Migrates(p)
      <3>1. pc'[p] = "load" /\ UNCHANGED enabled /\ ringFile = NoRing
        BY <1>1, <1>4, <1>16, <2>1, <2>2 DEF EndRewrite, Resume, Goto, Migrates, Opened
      <3> QED
        BY <1>3, <2>1, <3>1
    <2>3. CASE ~Migrates(p)
      <3>1. \A i \in DOMAIN file : file[i].key = ring[p].active
        <4>1. /\ Len(buf[p]) = Len(file)
              /\ \A i \in 1 .. Len(file) : file[i] = Sealed(buf[p][i], ring[p])
          BY <1>1, <1>16, <2>1 DEF EndRewrite, Rewriting
        <4>2. \A i \in 1 .. Len(buf[p]) : buf[p][i] \in Rows
          BY <1>1, ElementOfSeq
        <4>3. ring[p] \in Rings
          BY <1>1
        <4> QED
          BY <1>1, <2>3, <4>1, <4>2, <4>3, SealedTypes DEF Migrates
      <3>2. NoPlain(file) /\ Readable(file, ring[p]) /\ ringFile # NoRing
        BY <1>4, <2>1, <2>3, <3>1 DEF NoPlain, Readable, Migrates, Opened
      <3>3. pc'[p] = "off" \/ (pc'[p] = "ready" /\ ring' = ring)
        BY <1>1, <1>16, <2>3, NobodyIsLeft DEF EndRewrite, Resume, Goto
      <3> QED
        BY <2>1, <3>2, <3>3
    <2> QED
      BY <2>2, <2>3
  <1>17. CASE Kill(p)
    <2>1. /\ UNCHANGED <<file, enabled>> /\ pc'[p] = "off"
          /\ ringFile' \in {ringFile, BrokenRing}
          /\ cut' = {} => cut = {} /\ pc[p] \notin Stages
      BY <1>17, NobodyIsLeft DEF Kill
    <2>2. BrokenRing # NoRing
      BY DEF BrokenRing, NoRing
    <2> QED
      BY <1>3, <2>1, <2>2
  <1>18. CASE TakeKey(p)
    <2>1. /\ UNCHANGED <<file, ringFile, enabled, cut>> /\ pc[p] = "ready"
          /\ pc'[p] \in {"key", "open"}
      BY <1>1, <1>18 DEF TakeKey, Generate, Goto
    <2> QED
      BY <1>3, <2>1 DEF Stages
  <1>19. CASE RewriteCutShort(p)
    <2>1. pc'[p] = "off" /\ UNCHANGED <<ringFile, enabled>> /\ cut' # {}
      BY <1>19, NobodyIsLeft DEF RewriteCutShort
    <2> QED
      BY <1>3, <2>1
  <1> QED
    BY <1>6, <1>7, <1>8, <1>9, <1>10, <1>11, <1>12, <1>13, <1>14, <1>15, <1>16, <1>17,
       <1>18, <1>19
       DEF Alone, Step, Leaves, Reopens, Rewrites, Stages


LEMMA AloneStep ==
  ASSUME TypeInv, SchemaInv, AloneInv, [Next]_vars
  PROVE  AloneInv'
  <1>1. CASE UNCHANGED vars
    <2> USE <1>1 DEF vars, mem, disk, history
    <2>1. (OneRuns => OneRuns') /\ (RingKnown => RingKnown') /\ (Rewriting => Rewriting')
      BY DEF OneRuns, RingKnown, Rewriting
    <2>2. (KeyInv => KeyInv') /\ (NumbersInv => NumbersInv')
      BY DEF KeyInv, SignedBy, NumbersInv, Numbered, Migrates
    <2>3. (AckedInv => AckedInv') /\ (SealedInv => SealedInv')
      BY DEF AckedInv, SealedInv, BodiesOf, NoPlain, Readable, Migrates
    <2>4. shared' = shared
      OBVIOUS
    <2> QED
      BY <2>1, <2>2, <2>3, <2>4 DEF AloneInv
  <1>2. CASE Next
    <2>1. SUFFICES ASSUME ~shared'
                   PROVE  AloneInv'
      BY DEF AloneInv
    <2>2. PICK p \in Procs : Alone(p)
      BY <1>2, <2>1, StepsAlone
    <2> QED
      BY <2>2, RingKnownStep, RewritingStep, KeyStep, NumbersStep, AckedStep, SealedStep DEF AloneInv
  <1> QED
    BY <1>1, <1>2

-----------------------------------------------------------------------------
(* Theorems *)

LEMMA Started ==
  ASSUME Init
  PROVE  TypeInv /\ SchemaInv /\ RingInv /\ AloneInv
  <1> DEFINE old(n) == [i \in 1 .. n |-> [seq |-> i, body |-> i, key |-> Plain, by |-> 1]]
  <1>1. PICK n \in 0 .. OldRows :
          file = old(n) /\ keyFile = (IF n = 0 THEN NoId ELSE 1) /\ ids = (IF n = 0 THEN 0 ELSE 1)
            /\ acked = 1 .. n /\ issued = n
    BY DEF Init
  <1>2. n \in Nat
    BY BoundsAssumption
  <1>3. /\ \A i \in 1 .. n : [seq |-> i, body |-> i, key |-> Plain, by |-> 1]
                               \in Covered({}) \cap Rows
    BY <1>2, MarksAssumption DEF Covered, Rows, Keys, KeyIds
  <1>4. /\ file \in Seq(Rows) /\ file \in Seq(Covered({}))
        /\ DOMAIN file = 1 .. n
        /\ \A i \in 1 .. n : file[i].seq = i /\ file[i].body = i /\ file[i].key = Plain
                               /\ file[i].by = 1
    <2>1. old(n) \in [1 .. n -> Rows] /\ old(n) \in [1 .. n -> Covered({})]
      BY <1>3
    <2>2. ASSUME NEW S, old(n) \in [1 .. n -> S]
          PROVE  old(n) \in Seq(S)
      <3> HIDE DEF old
      <3>1. \E m \in Nat : old(n) \in [1 .. m -> S]
        BY <1>2, <2>2
      <3> QED
        BY <3>1, SeqDef
    <2>3. old(n) \in Seq(Rows) /\ old(n) \in Seq(Covered({}))
      <3> HIDE DEF old
      <3> QED
        BY <2>1, <2>2
    <2> QED
      BY <1>1, <2>3
  <1>5. NoRing \in Rings /\ NoRing.keys = {} /\ <<>> \in Seq(Rows)
    BY EmptySeq DEF NoRing, Rings
  <1>6. TypeInv
    <2>1. keyFile \in Nat \cup {Emptied} /\ ids \in Nat /\ issued \in Nat
      BY <1>1, <1>2 DEF NoId
    <2>2. DiskTypes
      <3>1. /\ ringFile = NoRing /\ schema = 1 /\ enabled = FALSE /\ shared = FALSE
            /\ tear = FALSE /\ keys = 0
        BY DEF Init
      <3>2. 0 \in 0 .. MaxKeys
        BY BoundsAssumption
      <3> QED
        BY <1>4, <1>5, <2>1, <3>1, <3>2 DEF DiskTypes
    <2>3. /\ pc \in [Procs -> {"off", "key", "keyfile", "open"} \cup Opened]
          /\ cmd \in [Procs -> Cmds \cup {"serve", "none"}]
      BY DEF Init
    <2>4. id \in [Procs -> Nat] /\ lastSeq \in [Procs -> Nat] /\ pos \in [Procs -> Nat]
      BY DEF Init, NoId
    <2>5. ring \in [Procs -> Rings] /\ buf \in [Procs -> Seq(Rows)]
      BY <1>5, Zenon DEF Init
    <2> QED
      BY <2>2, <2>3, <2>4, <2>5 DEF TypeInv, MemTypes
  <1>7. SchemaInv
    BY DEF Init, SchemaInv, Stages
  <1>8. RingInv
    BY <1>4, <1>5 DEF Init, RingInv, Opened, Procs
  <1>9. OneRuns /\ RingKnown /\ Rewriting
    BY DEF Init, OneRuns, RingKnown, Rewriting, Opened
  <1>10. KeyInv
    <2>1. SignedBy(file, {keyFile, NoId})
      BY <1>1, <1>2, <1>4 DEF SignedBy
    <2> QED
      BY <2>1 DEF Init, KeyInv, Opened
  <1>11. NumbersInv
    <2>1. Numbered(file) /\ \A i \in DOMAIN file : file[i].key # Unended
      BY <1>4, MarksAssumption DEF Numbered
    <2> QED
      BY <2>1 DEF Init, NumbersInv
  <1>12. AckedInv
    <2>1. acked \subseteq BodiesOf(file)
      BY <1>1, <1>4 DEF BodiesOf
    <2> QED
      BY <2>1 DEF Init, AckedInv
  <1>13. SealedInv
    BY DEF Init, SealedInv, Stages
  <1> QED
    BY <1>6, <1>7, <1>8, <1>9, <1>10, <1>11, <1>12, <1>13 DEF AloneInv

\* Types, and what holds of schema and keyring with any number of processes; and
\* the invariant of the processes that run one at a time (store.Open, Append,
\* EnableEncryption, RotateEncryptionKey, rewriteAllUnlocked, LoadOrCreate).
THEOREM Invariance == Spec => [](TypeInv /\ SchemaInv /\ AloneInv)
  <1>1. Init => TypeInv /\ SchemaInv /\ AloneInv
    BY Started
  <1>2. TypeInv /\ SchemaInv /\ AloneInv /\ [Next]_vars => (TypeInv /\ SchemaInv /\ AloneInv)'
    BY TypeStep, SchemaStep, AloneStep
  <1> QED
    BY <1>1, <1>2, PTL DEF Spec

\* Whatever is killed and whenever, the numbers of the file are 1, 2, 3, ... while
\* one process ran at a time and no line was cut short (rewriteAllUnlocked,
\* loadIndexes).
THEOREM FileStaysChain == Spec => []FileIsChain
  <1>1. AloneInv => FileIsChain
    BY DEF AloneInv, NumbersInv, Numbered, FileIsChain
  <1> QED
    BY <1>1, Invariance, PTL

\* With one process at a time, no command loses an event unless it is killed while
\* it writes the file anew (rewriteAllUnlocked, appendIssueEvent).
THEOREM CommandsKeepEvents == Spec => []AckedSurvives
  <1>1. AloneInv => AckedSurvives
    BY DEF AloneInv, AckedInv, AckedSurvives
  <1> QED
    BY <1>1, Invariance, PTL

\* With one process at a time, no payload is in the clear once encryption is
\* reported as enabled and no rewrite was killed (EnableEncryption).
THEOREM EnabledIsEncrypted == Spec => []EncryptedAtRest
  <1>1. AloneInv => EncryptedAtRest
    BY DEF AloneInv, SealedInv, NoPlain, EncryptedAtRest
  <1> QED
    BY <1>1, Invariance, PTL

\* With one process at a time, every row is signed with the key of the key file,
\* wherever a process was killed (node.LoadOrCreate).
THEOREM KeyFileSigns == Spec => []OneKeySigns
  <1>1. AloneInv => OneKeySigns
    BY DEF AloneInv, KeyInv, SignedBy, OneKeySigns
  <1> QED
    BY <1>1, Invariance, PTL

\* A server and one command beside it, in any order: every sealed row can be opened
\* with the keyring on disk (EnableEncryption, RotateEncryptionKey).
THEOREM KeyringIsEnough ==
  ASSUME \A c, d \in Commands : c = d
  PROVE  Spec => []KeyringCoversFile
  <1>1. Init => TypeInv /\ RingInv
    BY Started
  <1>2. TypeInv /\ RingInv /\ [Next]_vars => (TypeInv /\ RingInv)'
    BY TypeStep, RingStep
  <1>3. RingInv => KeyringCoversFile
    <2> SUFFICES ASSUME RingInv, ringFile # BrokenRing, NEW i \in DOMAIN file,
                        file[i].key \in KeyIds
                 PROVE  file[i].key \in ringFile.keys
      BY DEF KeyringCoversFile
    <2>1. file \in Seq(Covered(ringFile.keys))
      BY DEF RingInv
    <2>2. file[i] \in Covered(ringFile.keys)
      BY <2>1, ElementOfSeq, LenProperties
    <2> QED
      BY <2>2 DEF Covered
  <1> QED
    BY <1>1, <1>2, <1>3, PTL DEF Spec

=============================================================================
