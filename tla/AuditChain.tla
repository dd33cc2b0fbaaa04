------------------------------ MODULE AuditChain ------------------------------
(***************************************************************************)
(* The audit log of a node, security_audit.jsonl (internal/audit): each    *)
(* record carries the hash of the one before it.  The server and a command *)
(* of the command line open the file each for itself, and remember the     *)
(* number and the hash of the last record they know of.                    *)
(*                                                                         *)
(* A hash stands for the text it is computed from, and needs no key.  The  *)
(* text joins the fields without the blanks around them, so two records    *)
(* may share it; and the file keeps a record as JSON, which replaces what  *)
(* is no UTF-8, so what is read back may have another text than what was   *)
(* hashed.  A line without a hash is no part of the chain.                 *)
(* Append ignores every error: its caller never learns of one.             *)
(***************************************************************************)
EXTENDS Integers, Sequences, FiniteSets

CONSTANTS Processes,  \* the server and the commands
          Bodies,     \* time, type, actor, status and details of a record
          Text,       \* the text of each body that is hashed
          Decode,     \* what each body is when it is read back
          MaxAppends, \* bound: calls of Append in a behaviour
          MaxErrors,  \* bound: appends that write nothing in a behaviour
          MaxTorn,    \* bound: writes cut short in a behaviour
          MaxDamage   \* bound: lines of the file lost, moved or changed

ASSUME BodiesAssumption == DOMAIN Text = Bodies /\ Decode \in [Bodies -> Bodies]
ASSUME BoundsAssumption == {MaxAppends, MaxErrors, MaxTorn, MaxDamage} \subseteq Nat

VARIABLES
  file,     \* the lines: a record if the line parses, and whether it ends in a newline
  running,  \* processes that have the file open
  seq,      \* Manager.seq of each process
  lastHash, \* Manager.lastHash of each process
  written,  \* records written without an error (history)
  shared,   \* a process opened the file while another one had it (history)
  mangled,  \* a record was written whose text reading does not keep (history)
  damage,   \* what happened to the file from outside (history)
  appends, errors, torn

vars == <<file, running, seq, lastHash, written, shared, mangled, damage, appends, errors,
          torn>>

NoHash == <<>>

\* Mutant of HashOf: what happened is not hashed.
HashOfHeader(id, body, prev) == <<id, prev>>

\* computeEventHash
HashOf(id, body, prev) == <<id, Text[body], prev>>
Line(records, ended) == [record |-> records, ended |-> ended]

\* ReadAll: a line that does not parse is skipped.
ReadAll(lines) == {k \in DOMAIN lines : lines[k].record # {}}
RecordAt(lines, k) == CHOOSE r \in lines[k].record : TRUE
Records(lines) == UNION {lines[k].record : k \in DOMAIN lines}

\* The lines of the chain: a record without a hash is passed over.
Hashed(lines) == {k \in ReadAll(lines) : RecordAt(lines, k).hash # NoHash}

\* The hash of the last record before line k that has one.
HashBefore(lines, k) ==
  LET before == {j \in Hashed(lines) : j < k}
      last == CHOOSE j \in before : \A i \in before : i =< j
  IN  IF before = {} THEN NoHash ELSE RecordAt(lines, last).hash

\* VerifyIntegrity
Links(lines, k) ==
  LET r == RecordAt(lines, k)
  IN  r.prev = HashBefore(lines, k) /\ r.hash = HashOf(r.id, r.body, r.prev)
Verifies(lines) == \A k \in Hashed(lines) : Links(lines, k)

\* What an O_APPEND write leaves: text after a line without its newline joins
\* that line, and neither record parses.
Written(lines, line) ==
  IF lines # <<>> /\ ~lines[Len(lines)].ended
    THEN [lines EXCEPT ![Len(lines)] = Line({}, line.ended)]
    ELSE Append(lines, line)

Init ==
  /\ file = <<>>
  /\ running = {}
  /\ seq = [p \in Processes |-> 0]
  /\ lastHash = [p \in Processes |-> NoHash]
  /\ written = {}
  /\ shared = FALSE /\ mangled = FALSE
  /\ damage = "none"
  /\ appends = 0 /\ errors = 0 /\ torn = 0

-----------------------------------------------------------------------------

\* Mutant of Open: the hash of the last record is not restored.
OpenAfresh(p) ==
  /\ p \notin running
  /\ shared' = (shared \/ running # {})
  /\ running' = running \cup {p}
  /\ seq' = [seq EXCEPT ![p] = Cardinality(ReadAll(file))]
  /\ lastHash' = [lastHash EXCEPT ![p] = NoHash]
  /\ UNCHANGED <<file, written, mangled, damage, appends, errors, torn>>

Open(p) ==
  /\ p \notin running
  /\ shared' = (shared \/ running # {})
  /\ running' = running \cup {p}
  /\ seq' = [seq EXCEPT ![p] = Cardinality(ReadAll(file))]
  /\ lastHash' = [lastHash EXCEPT ![p] = HashBefore(file, Len(file) + 1)]
  /\ UNCHANGED <<file, written, mangled, damage, appends, errors, torn>>

Stop(p) ==
  /\ p \in running
  /\ running' = running \ {p}
  /\ UNCHANGED <<file, seq, lastHash, written, shared, mangled, damage, appends, errors,
                 torn>>

\* The hash is of the body as it came, the line holds what reading makes of it.
Record(p, body) ==
  [id |-> seq[p] + 1, body |-> Decode[body], prev |-> lastHash[p],
   hash |-> HashOf(seq[p] + 1, body, lastHash[p])]

\* Append up to the write; the number is taken in any case.
BeginAppend(p) ==
  /\ p \in running
  /\ appends < MaxAppends /\ appends' = appends + 1
  /\ seq' = [seq EXCEPT ![p] = @ + 1]

\* The text of body is the same after it was written and read.
Survives(body) == Text[Decode[body]] = Text[body]

\* Mutant of AppendWritten: the newline is left out.
AppendWrittenUnended(p, body) ==
  /\ BeginAppend(p)
  /\ file' = Written(file, Line({Record(p, body)}, FALSE))
  /\ lastHash' = [lastHash EXCEPT ![p] = Record(p, body).hash]
  /\ written' = written \cup {Record(p, body)}
  /\ mangled' = (mangled \/ ~Survives(body))
  /\ UNCHANGED <<running, shared, damage, errors, torn>>

AppendWritten(p, body) ==
  /\ BeginAppend(p)
  /\ file' = Written(file, Line({Record(p, body)}, TRUE))
  /\ lastHash' = [lastHash EXCEPT ![p] = Record(p, body).hash]
  /\ written' = written \cup {Record(p, body)}
  /\ mangled' = (mangled \/ ~Survives(body))
  /\ UNCHANGED <<running, shared, damage, errors, torn>>

\* The file cannot be opened, or nothing of the record is written.
AppendUnopened(p, body) ==
  /\ BeginAppend(p)
  /\ errors < MaxErrors /\ errors' = errors + 1
  /\ UNCHANGED <<file, running, lastHash, written, shared, mangled, damage, torn>>

\* The disk is full, or the process dies, in the middle of the write: part of
\* the record is on disk, or all of it but its newline.
AppendTorn(p, body) ==
  /\ BeginAppend(p)
  /\ torn < MaxTorn /\ torn' = torn + 1
  /\ \E part \in {{}, {Record(p, body)}} : file' = Written(file, Line(part, FALSE))
  /\ running' \in {running, running \ {p}}
  /\ UNCHANGED <<lastHash, written, shared, mangled, damage, errors>>

-----------------------------------------------------------------------------
(* The file is not as it was written (external) *)

Damaged(kind) ==
  /\ damage = "none" /\ MaxDamage > 0
  /\ damage' = kind
  /\ UNCHANGED <<running, seq, lastHash, written, shared, mangled, appends, errors, torn>>

\* Damage to the end of the file, and damage that lines follow.
Place(k) == IF k < Len(file) THEN "inner" ELSE "tail"

LoseLine == \E k \in DOMAIN file :
  /\ file' = [j \in 1 .. Len(file) - 1 |-> IF j < k THEN file[j] ELSE file[j+1]]
  /\ Damaged(Place(k))

MoveLine == \E j, k \in DOMAIN file :
  /\ j < k
  /\ file' = [file EXCEPT ![j] = file[k], ![k] = file[j]]
  /\ Damaged("inner")

Unhashed(r) == [r EXCEPT !.hash = NoHash]
Rehashed(r) == [r EXCEPT !.hash = HashOf(r.id, r.body, r.prev)]

\* Record r of line k became n: another text under the hash of the right one shows
\* wherever it is.
KindOfChange(k, r, n) ==
  IF n.hash # r.hash THEN Place(k)
  ELSE IF r = Rehashed(r) /\ Text[n.body] # Text[r.body] THEN "inner" ELSE "unseen"

\* What r may become: its hash is kept, left out, or computed again.
Changes(r, body) ==
  LET changed == [r EXCEPT !.body = body]
  IN  {changed, Unhashed(changed), Rehashed(changed)} \ {r}

ChangeLine == \E k \in DOMAIN file, body \in Bodies : \E r \in file[k].record :
  \E n \in Changes(r, body) :
    /\ file' = [file EXCEPT ![k].record = {n}]
    /\ Damaged(KindOfChange(k, r, n))

\* A line is put in before line k, or at the end, with a hash or without.
AddLine == \E k \in 1 .. Len(file) + 1, body \in Bodies :
  LET added == [id |-> k, body |-> body, prev |-> HashBefore(file, k), hash |-> NoHash]
  IN  \E n \in {added, Rehashed(added)} :
        /\ file' = [j \in 1 .. Len(file) + 1 |-> IF j < k THEN file[j]
                                                 ELSE IF j = k THEN Line({n}, TRUE)
                                                 ELSE file[j-1]]
        /\ Damaged(IF n.hash = NoHash THEN "unseen" ELSE Place(k - 1))

Next ==
  \/ \E p \in Processes :
       \/ Open(p)
       \/ Stop(p)
       \/ \E body \in Bodies :
            AppendWritten(p, body) \/ AppendUnopened(p, body) \/ AppendTorn(p, body)
  \/ LoseLine
  \/ MoveLine
  \/ ChangeLine
  \/ AddLine

Spec == Init /\ [][Next]_vars

-----------------------------------------------------------------------------
(* Properties *)

\* One process at a time has had the file open, and no write was cut short.
Undisturbed == ~shared /\ torn = 0

\* A file nobody touched passes the integrity check, across restarts and records
\* that could not be written, as long as every record can be read back with the text
\* it was hashed with; one that cannot makes it fail for good (docs/SDD-06: passes
\* on original, which it does not say of records that are no UTF-8).
OriginalVerifies == Undisturbed /\ damage = "none" => (Verifies(file) <=> ~mangled)

\* The check finds a line of the chain that was lost, moved, put in, or changed in its
\* hash while another line followed it, and another text under the hash of the right
\* one, anywhere; records appended later do not hide it.  Not found, and excepted: a
\* line without a hash that was put in, a text that hashes the same, and the last line
\* lost, or changed with its hash left out or computed again (docs/SDD-06 says that
\* tampering is found).
InnerDamageIsFound == Undisturbed /\ damage = "inner" => ~Verifies(file)

\* A write cut short costs at most one record besides its own, whichever process
\* appends next: the file ends in a newline again after that.
TornWriteCostsOneRecord ==
  damage = "none" => Cardinality(written \ Records(file)) =< torn

=============================================================================
