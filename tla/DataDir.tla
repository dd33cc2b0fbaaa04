------------------------------- MODULE DataDir -------------------------------
(***************************************************************************)
(* One data directory and the processes that open it: the server and the   *)
(* operator's commands (issue create and the other commands that append an *)
(* event, storage enable-encryption, rotate-key, recovery-drill, migrate), *)
(* which open the same events.jsonl and keyring file, each with an index   *)
(* and a keyring of its own in memory (internal/store).                    *)
(*                                                                         *)
(* The rows are those of the node's own signer.  A row is its number, its  *)
(* body, the key its payload is sealed with and the key it is signed with: *)
(* that of the node (internal/node), which the first process to need it    *)
(* makes.                                                                  *)
(***************************************************************************)
EXTENDS Integers, Sequences, FiniteSets

CONSTANTS Server,      \* the server process
          Commands,    \* processes of the command line
          MaxEvents,   \* bound: events appended in a behaviour
          MaxKeys,     \* bound: keys generated in a behaviour
          MaxIds,      \* bound: signing keys generated in a behaviour
          MaxKills,    \* bound: processes killed, and writes that fail, in a behaviour
          OldRows,     \* rows of the directory before schema version 2
          Plain,       \* the key of a row whose payload is not encrypted
          Torn,        \* the key of a line that does not parse
          Unended      \* that of one that has no end either

ASSUME BoundsAssumption == {MaxEvents, MaxKeys, MaxIds, MaxKills, OldRows} \subseteq Nat
ASSUME MarksAssumption == /\ Plain # Torn /\ Plain # Unended /\ Torn # Unended
                          /\ {Plain, Torn, Unended} \cap 1 .. MaxKeys = {}
ASSUME ProcessesAssumption == Server \notin Commands

VARIABLES
  file,      \* events.jsonl
  ringFile,  \* the keyring: events.keys.json, and the file of the key provider
  keyFile,   \* node_ed25519.key: a key, NoId, or Emptied
  schema,    \* schema version in events.meta.json, or Emptied
  pc,        \* what each process does
  cmd,       \* the command each process runs
  id,        \* the signing key, in the memory of each process
  ring,      \* EventLog.keyRing, in the memory of each process
  lastSeq,   \* EventLog.lastSeq, in the memory of each process
  buf,       \* events read for a rewrite, in the memory of each process
  pos,       \* how many of them are written
  acked,     \* bodies whose append was reported as done (history)
  enabled,   \* a command reported that encryption is enabled (history)
  cut,       \* the stages a rewrite was given up in (history)
  shared,    \* a process was started beside another one (history)
  joined,    \* bodies appended to a line that had no end (history)
  tear,      \* a row was written in part (history)
  issued, keys, ids, kills   \* what the bounds count

mem == <<pc, cmd, id, ring, lastSeq, buf, pos>>
disk == <<file, ringFile, keyFile, schema>>
history == <<acked, enabled, cut, shared, joined, tear, issued, keys, ids, kills>>
vars == <<mem, disk, history>>

Procs == {Server} \cup Commands
KeyIds == 1 .. MaxKeys
NoRing == [active |-> 0, keys |-> {}]
BrokenRing == [active |-> -1, keys |-> {}]
Stages == {"read", "truncate", "write"}
Cmds == {"create", "append", "enable", "rotate", "drill", "migrate"}
NoId == 0
Emptied == -1
Signing == {"serve", "append"}
TornRow == [seq |-> 0, body |-> 0, key |-> Torn, by |-> NoId]
UnendedRow == [TornRow EXCEPT !.key = Unended]

\* decodePayload finds the key of every row, and every line parses.
Readable(rows, r) == \A i \in DOMAIN rows : rows[i].key \in r.keys \cup {Plain}

\* toPersistedEvent: sealed with the active key of the process, if it has one.
Sealed(row, r) == [row EXCEPT !.key = IF r.active = 0 THEN Plain ELSE r.active]

TopSeq(rows) == CHOOSE k \in {0} \cup {rows[i].seq : i \in DOMAIN rows} :
                  \A i \in DOMAIN rows : rows[i].seq =< k

\* A fresh directory, or rows without events.meta.json beside them.
Init ==
  /\ \E n \in 0 .. OldRows :
       /\ file = [i \in 1 .. n |-> [seq |-> i, body |-> i, key |-> Plain, by |-> 1]]
       /\ keyFile = IF n = 0 THEN NoId ELSE 1
       /\ ids = IF n = 0 THEN 0 ELSE 1
       /\ acked = 1 .. n
       /\ issued = n
  /\ ringFile = NoRing
  /\ schema = 1
  /\ pc = [p \in Procs |-> "off"]
  /\ cmd = [p \in Procs |-> "none"]
  /\ id = [p \in Procs |-> NoId]
  /\ ring = [p \in Procs |-> NoRing]
  /\ lastSeq = [p \in Procs |-> 0]
  /\ buf = [p \in Procs |-> <<>>]
  /\ pos = [p \in Procs |-> 0]
  /\ enabled = FALSE
  /\ cut = {}
  /\ shared = FALSE /\ joined = {} /\ tear = FALSE
  /\ keys = 0
  /\ kills = 0

Goto(p, where) == pc' = [pc EXCEPT ![p] = where]

\* The process ends and its memory goes.
Exit(p) ==
  /\ Goto(p, "off")
  /\ cmd' = [cmd EXCEPT ![p] = "none"]
  /\ id' = [id EXCEPT ![p] = NoId]
  /\ ring' = [ring EXCEPT ![p] = NoRing]
  /\ lastSeq' = [lastSeq EXCEPT ![p] = 0]
  /\ buf' = [buf EXCEPT ![p] = <<>>]
  /\ pos' = [pos EXCEPT ![p] = 0]

-----------------------------------------------------------------------------
(* node.LoadOrCreate and store.Open *)

\* A process starts.
Enter(p, c) ==
  /\ pc[p] = "off"
  /\ IF p = Server THEN c = "serve" ELSE c \in Cmds
  /\ cmd' = [cmd EXCEPT ![p] = c]
  /\ shared' = (shared \/ \E q \in Procs : pc[q] # "off")

\* There is no key file: a key is generated.
Generate(p) ==
  /\ keyFile = NoId
  /\ ids < MaxIds /\ ids' = ids + 1
  /\ id' = [id EXCEPT ![p] = ids + 1]
  /\ Goto(p, "key")

CreateIdentity(p, c) ==
  /\ Enter(p, c) /\ c \in Signing
  /\ Generate(p)
  /\ UNCHANGED <<disk, ring, lastSeq, buf, pos, acked, enabled, cut, joined, tear, issued,
                 keys, kills>>

\* The file is emptied, whoever may have written it meanwhile ...
EmptyKeyFile(p) ==
  /\ pc[p] = "key"
  /\ keyFile' = Emptied
  /\ Goto(p, "keyfile")
  /\ UNCHANGED <<file, ringFile, schema, cmd, id, ring, lastSeq, buf, pos, history>>

\* Mutant of WriteKeyFile: an error of the write is not looked at.
WriteKeyFileUnchecked(p) ==
  /\ pc[p] = "keyfile"
  /\ Goto(p, "open")
  /\ UNCHANGED <<disk, cmd, id, ring, lastSeq, buf, pos, history>>

\* ... and written.
WriteKeyFile(p) ==
  /\ pc[p] = "keyfile"
  /\ keyFile' = id[p]
  /\ Goto(p, "open")
  /\ UNCHANGED <<file, ringFile, schema, cmd, id, ring, lastSeq, buf, pos, history>>

\* A file that is empty does not parse.
Openable == ringFile # BrokenRing /\ schema # Emptied

\* The keyring is read first; schema 1 sends the process through the migration.
OpenStore(p) ==
  /\ Openable
  /\ ring' = [ring EXCEPT ![p] = ringFile]
  /\ Goto(p, IF schema = 1 THEN "read" ELSE "load")
  /\ UNCHANGED <<disk, lastSeq, buf, pos, acked, enabled, cut, joined, tear, issued, keys,
                 ids, kills>>

OpenAfterKey(p) ==
  /\ pc[p] = "open"
  /\ \/ OpenStore(p) /\ UNCHANGED <<cmd, id, shared>>
     \/ ~Openable /\ Exit(p) /\ UNCHANGED <<disk, history>>

\* The server and the commands that append take the node's key first, and do not go
\* on with a key file that is empty; the others open the store without it.
Open(p, c) ==
  /\ Enter(p, c)
  /\ c \in Signing => keyFile \notin {NoId, Emptied}
  /\ id' = [id EXCEPT ![p] = IF c \in Signing THEN keyFile ELSE NoId]
  /\ OpenStore(p)

\* Mutant of Load: the last number is not read back.
LoadWithoutIndex(p) ==
  /\ pc[p] = "load"
  /\ IF Readable(file, ring[p])
       THEN /\ Goto(p, "ready")
            /\ UNCHANGED <<cmd, id, ring, lastSeq, buf, pos>>
       ELSE Exit(p)
  /\ schema' = 2
  /\ UNCHANGED <<file, ringFile, keyFile, history>>

\* saveMeta and loadIndexes; a row that cannot be read makes Open fail.
Load(p) ==
  /\ pc[p] = "load"
  /\ IF Readable(file, ring[p])
       THEN /\ lastSeq' = [lastSeq EXCEPT ![p] = TopSeq(file)]
            /\ Goto(p, "ready")
            /\ UNCHANGED <<cmd, id, ring, buf, pos>>
       ELSE Exit(p)
  /\ schema' = 2
  /\ UNCHANGED <<file, ringFile, keyFile, history>>

\* issue create has opened the store to look for the issue.  It ends if the issue is
\* there, a row cannot be read or the key file is empty ...
GiveUp(p) ==
  /\ pc[p] = "ready" /\ cmd[p] = "create"
  /\ Exit(p)
  /\ UNCHANGED <<disk, history>>

\* ... and otherwise takes the node's key and opens the store once more.
TakeKey(p) ==
  /\ pc[p] = "ready" /\ cmd[p] = "create"
  /\ cmd' = [cmd EXCEPT ![p] = "append"]
  /\ ring' = [ring EXCEPT ![p] = NoRing]
  /\ lastSeq' = [lastSeq EXCEPT ![p] = 0]
  /\ \/ Generate(p)
     \/ /\ keyFile \notin {NoId, Emptied}
        /\ id' = [id EXCEPT ![p] = keyFile]
        /\ Goto(p, "open")
        /\ UNCHANGED ids
  /\ UNCHANGED <<disk, buf, pos, acked, enabled, cut, shared, joined, tear, issued, keys,
                 kills>>

-----------------------------------------------------------------------------
(* appendIssueEvent, in the server or in a command *)

LastUnended == file # <<>> /\ file[Len(file)].key = Unended

\* A line written with O_APPEND; one that follows a line without an end is lost in it.
Written(row) ==
  IF LastUnended THEN [file EXCEPT ![Len(file)] = TornRow] ELSE Append(file, row)

\* NextSeq and Append: numbered and checked against the process's own index.
AppendRow(p) ==
  /\ pc[p] = "ready" /\ cmd[p] \in Signing
  /\ issued < MaxEvents
  /\ file' = Written(Sealed([seq |-> lastSeq[p] + 1, body |-> issued + 1, key |-> Plain,
                             by |-> id[p]], ring[p]))
  /\ issued' = issued + 1
  /\ acked' = acked \cup {issued + 1}
  /\ joined' = IF LastUnended THEN joined \cup {issued + 1} ELSE joined
  /\ IF cmd[p] = "append"
       THEN Exit(p)
       ELSE /\ lastSeq' = [lastSeq EXCEPT ![p] = @ + 1]
            /\ UNCHANGED <<pc, cmd, id, ring, buf, pos>>
  /\ UNCHANGED <<ringFile, keyFile, schema, enabled, cut, shared, tear, keys, ids, kills>>

\* The disk is full, or the process is killed: part of the line is written, and
\* nobody is told that it is done.
AppendCutShort(p) ==
  /\ pc[p] = "ready" /\ cmd[p] \in Signing
  /\ kills < MaxKills /\ kills' = kills + 1
  /\ file' = IF LastUnended THEN file ELSE Append(file, UnendedRow)
  /\ tear' = TRUE
  /\ \/ Exit(p)
     \/ cmd[p] = "serve" /\ UNCHANGED mem
  /\ UNCHANGED <<ringFile, keyFile, schema, acked, enabled, cut, shared, joined, issued,
                 keys, ids>>

-----------------------------------------------------------------------------
(* EnableEncryption and RotateEncryptionKey *)

\* Encryption is on already: enable-encryption reports it, recovery-drill goes
\* on to the rotation.
EnableAgain(p) ==
  /\ pc[p] = "ready"
  /\ ring[p].active # 0
  /\ \/ /\ cmd[p] = "enable"
        /\ enabled' = TRUE
        /\ Exit(p)
     \/ /\ cmd[p] = "drill"
        /\ cmd' = [cmd EXCEPT ![p] = "rotate"]
        /\ UNCHANGED <<pc, id, ring, lastSeq, buf, pos, enabled>>
  /\ UNCHANGED <<disk, acked, cut, shared, joined, tear, issued, keys, ids, kills>>

\* Mutant of EnableEncryption: the rows of the file are left as they are.
EnableForNewRows(p) ==
  /\ pc[p] = "ready" /\ cmd[p] \in {"enable", "drill"}
  /\ ring[p].active = 0
  /\ keys < MaxKeys
  /\ keys' = keys + 1
  /\ ringFile' = [active |-> keys + 1, keys |-> {keys + 1}]
  /\ enabled' = TRUE
  /\ Exit(p)
  /\ UNCHANGED <<file, keyFile, schema, acked, cut, shared, joined, tear, issued, ids, kills>>

\* A new keyring is saved before the rows are rewritten.
EnableEncryption(p) ==
  /\ pc[p] = "ready" /\ cmd[p] \in {"enable", "drill"}
  /\ ring[p].active = 0
  /\ keys < MaxKeys
  /\ keys' = keys + 1
  /\ ringFile' = [active |-> keys + 1, keys |-> {keys + 1}]
  /\ ring' = [ring EXCEPT ![p] = [active |-> keys + 1, keys |-> {keys + 1}]]
  /\ Goto(p, "read")
  /\ UNCHANGED <<file, keyFile, schema, cmd, id, lastSeq, buf, pos, acked, enabled, cut,
                 shared, joined, tear, issued, ids, kills>>

\* Mutant of RotateEncryptionKey: the old keys leave the keyring.
RotateForgetting(p) ==
  /\ pc[p] = "ready" /\ cmd[p] = "rotate"
  /\ ring[p].active # 0
  /\ keys < MaxKeys
  /\ keys' = keys + 1
  /\ ringFile' = [active |-> keys + 1, keys |-> {keys + 1}]
  /\ ring' = [ring EXCEPT ![p] = [active |-> keys + 1, keys |-> {keys + 1}]]
  /\ Goto(p, "read")
  /\ UNCHANGED <<file, keyFile, schema, cmd, id, lastSeq, buf, pos, acked, enabled, cut,
                 shared, joined, tear, issued, ids, kills>>

\* The new key joins the keyring of the process, which is saved as a whole.
RotateEncryptionKey(p) ==
  /\ pc[p] = "ready" /\ cmd[p] = "rotate"
  /\ ring[p].active # 0
  /\ keys < MaxKeys
  /\ keys' = keys + 1
  /\ ringFile' = [active |-> keys + 1, keys |-> ring[p].keys \cup {keys + 1}]
  /\ ring' = [ring EXCEPT ![p] =
                [active |-> keys + 1, keys |-> ring[p].keys \cup {keys + 1}]]
  /\ Goto(p, "read")
  /\ UNCHANGED <<file, keyFile, schema, cmd, id, lastSeq, buf, pos, acked, enabled, cut,
                 shared, joined, tear, issued, ids, kills>>

\* Nothing left to do: migrate only opens the store, rotate-key refuses while
\* encryption is not enabled.
Finish(p) ==
  /\ pc[p] = "ready"
  /\ cmd[p] = "migrate" \/ (cmd[p] = "rotate" /\ ring[p].active = 0)
  /\ Exit(p)
  /\ UNCHANGED <<disk, history>>

-----------------------------------------------------------------------------
(* rewriteAllUnlocked: of the migration, of enable and of rotate *)

ReadAll(p) ==
  /\ pc[p] = "read"
  /\ IF Readable(file, ring[p])
       THEN /\ buf' = [buf EXCEPT ![p] = file]
            /\ Goto(p, "truncate")
            /\ UNCHANGED <<cmd, id, ring, lastSeq, pos>>
       ELSE Exit(p)
  /\ UNCHANGED <<disk, history>>

\* The file is opened with O_TRUNC and without O_APPEND.
Truncate(p) ==
  /\ pc[p] = "truncate"
  /\ file' = <<>>
  /\ pos' = [pos EXCEPT ![p] = 0]
  /\ Goto(p, "write")
  /\ UNCHANGED <<ringFile, keyFile, schema, cmd, id, ring, lastSeq, buf, history>>

\* The next row goes to the offset of this process.  What another process has
\* appended there meanwhile is overwritten, and its bytes may reach beyond the
\* new row.
WriteRow(p) ==
  /\ pc[p] = "write"
  /\ pos[p] < Len(buf[p])
  /\ LET at == pos[p] + 1
         row == Sealed(buf[p][at], ring[p])
     IN  IF at > Len(file)
           THEN file' = Append(file, row)
           ELSE \E rest \in {<<>>, <<TornRow>>} :
                  file' = SubSeq(file, 1, at - 1) \o <<row>> \o rest
                            \o SubSeq(file, at + 1, Len(file))
  /\ pos' = [pos EXCEPT ![p] = @ + 1]
  /\ UNCHANGED <<ringFile, keyFile, schema, pc, cmd, id, ring, lastSeq, buf, history>>

\* A write of the rewrite fails after part of the row: every caller ends with the error.
RewriteCutShort(p) ==
  /\ pc[p] = "write"
  /\ pos[p] < Len(buf[p])
  /\ kills < MaxKills /\ kills' = kills + 1
  /\ LET at == pos[p] + 1
     IN  IF at > Len(file)
           THEN file' = Append(file, UnendedRow)
           ELSE \E part \in {TornRow, UnendedRow} :
                  /\ part = UnendedRow => at = Len(file)
                  /\ file' = [file EXCEPT ![at] = part]
  /\ cut' = cut \cup {"write"}
  /\ tear' = TRUE
  /\ Exit(p)
  /\ UNCHANGED <<ringFile, keyFile, schema, acked, enabled, shared, joined, issued, keys,
                 ids>>

Resume(p, where, c) ==
  /\ Goto(p, where)
  /\ cmd' = [cmd EXCEPT ![p] = c]
  /\ buf' = [buf EXCEPT ![p] = <<>>]
  /\ pos' = [pos EXCEPT ![p] = 0]
  /\ UNCHANGED <<id, ring, lastSeq>>

\* There is no keyring yet when a process migrates, and one whenever it encrypts.
Migrates(p) == ring[p].active = 0

\* Mutant of EndRewrite: the last row is not written.
EndRewriteEarly(p) ==
  /\ pc[p] = "write"
  /\ pos[p] + 1 >= Len(buf[p])
  /\ IF Migrates(p)
       THEN /\ schema' = 2
            /\ Resume(p, "load", cmd[p])
            /\ UNCHANGED enabled
       ELSE /\ IF cmd[p] = "drill" THEN Resume(p, "ready", "rotate") ELSE Exit(p)
            /\ enabled' = (enabled \/ cmd[p] = "enable")
            /\ UNCHANGED schema
  /\ UNCHANGED <<file, ringFile, keyFile, acked, cut, shared, joined, tear, issued, keys,
                 ids, kills>>

\* The migration goes on to saveMeta and the index, recovery-drill to the
\* rotation; enable and rotate report success.
EndRewrite(p) ==
  /\ pc[p] = "write"
  /\ pos[p] = Len(buf[p])
  /\ IF Migrates(p)
       THEN /\ schema' = 2
            /\ Resume(p, "load", cmd[p])
            /\ UNCHANGED enabled
       ELSE /\ IF cmd[p] = "drill" THEN Resume(p, "ready", "rotate") ELSE Exit(p)
            /\ enabled' = (enabled \/ cmd[p] = "enable")
            /\ UNCHANGED schema
  /\ UNCHANGED <<file, ringFile, keyFile, acked, cut, shared, joined, tear, issued, keys,
                 ids, kills>>

-----------------------------------------------------------------------------

\* The server is stopped in between two requests.
Stop ==
  /\ pc[Server] = "ready"
  /\ Exit(Server)
  /\ UNCHANGED <<disk, history>>

\* Processes that are about to save the keyring; and events.meta.json, which every
\* start of a process writes anew.
SavesRing(p) ==
  /\ pc[p] = "ready"
  /\ IF ring[p].active = 0 THEN cmd[p] \in {"enable", "drill"} ELSE cmd[p] = "rotate"
SavesMeta(p) ==
  \/ pc[p] = "load"
  \/ pc[p] = "write" /\ Migrates(p) /\ pos[p] = Len(buf[p])

\* A process is killed at any point, or ends with the error of a write that fails; a
\* file it saves may be left empty.
Kill(p) ==
  /\ pc[p] # "off"
  /\ kills < MaxKills
  /\ kills' = kills + 1
  /\ cut' = cut \cup ({pc[p]} \cap Stages)
  /\ ringFile' \in IF SavesRing(p) THEN {ringFile, BrokenRing} ELSE {ringFile}
  /\ schema' \in IF SavesMeta(p) THEN {schema, Emptied} ELSE {schema}
  /\ Exit(p)
  /\ UNCHANGED <<file, keyFile, acked, enabled, shared, joined, tear, issued, keys, ids>>

Next ==
  \/ Stop
  \/ \E p \in Procs :
       \/ \E c \in {"serve"} \cup Cmds : CreateIdentity(p, c) \/ Open(p, c)
       \/ EmptyKeyFile(p) \/ WriteKeyFile(p) \/ OpenAfterKey(p)
       \/ Load(p) \/ GiveUp(p) \/ TakeKey(p)
       \/ AppendRow(p) \/ AppendCutShort(p)
       \/ EnableAgain(p) \/ EnableEncryption(p)
       \/ RotateEncryptionKey(p) \/ Finish(p)
       \/ ReadAll(p) \/ Truncate(p) \/ WriteRow(p) \/ EndRewrite(p)
       \/ RewriteCutShort(p) \/ Kill(p)

Spec == Init /\ [][Next]_vars

-----------------------------------------------------------------------------
(* Properties *)

BodiesOf(rows) == {rows[i].body : i \in DOMAIN rows}

\* While no process was ever started beside another one, and no line was cut short:
\* whatever is killed and whenever, the numbers of the file are 1, 2, 3, ... so
\* verify-integrity passes (rewriteAllUnlocked writes in order, loadIndexes
\* recovers the last number).
FileIsChain == ~shared /\ ~tear => \A i \in DOMAIN file : file[i].seq = i

\* The server beside a command too: every sealed row can be opened with the
\* keyring on disk, unless a process was killed while it wrote the keyring itself.
\* The keyring is saved before a row is written under a new key, and keeps the
\* keys of the rows other processes still write (EnableEncryption,
\* RotateEncryptionKey).
KeyringCoversFile ==
  ringFile # BrokenRing =>
    \A i \in DOMAIN file : file[i].key \in KeyIds => file[i].key \in ringFile.keys

\* While no process was ever started beside another one: no command loses an
\* event, unless it is killed or fails while it writes the file anew; and an append that is
\* cut short costs only what a running server appends next to the same line.
AckedSurvives ==
  ~shared /\ "write" \notin cut /\ (\A p \in Procs : pc[p] # "write")
    => acked \subseteq BodiesOf(file) \cup joined

\* While no process was ever started beside another one: once encryption is
\* reported as enabled, no payload is in the clear, unless a command was killed or
\* failed in its rewrite.
EncryptedAtRest ==
  ~shared /\ enabled /\ cut = {} => \A i \in DOMAIN file : file[i].key # Plain

\* While no process was ever started beside another one: every row is signed with
\* the key that the key file holds, wherever the process that made the key was
\* killed (LoadOrCreate saves the key before it is used).
OneKeySigns == ~shared => \A i \in DOMAIN file : file[i].by \in {keyFile, NoId}

=============================================================================
