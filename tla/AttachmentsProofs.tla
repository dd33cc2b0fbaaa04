-------------------------- MODULE AttachmentsProofs --------------------------
(***************************************************************************)
(* The safety of Attachments for every set of nodes, files, attempts and   *)
(* hooks, any lifetime of a token and any number of events and failures.   *)
(***************************************************************************)
EXTENDS Attachments, TLAPS

Sums == {"part", "all"}
Events == [stamp : Nat, signer : Nodes, file : Files, sum : Sums \cup {"link", "removed"}]
Notices == [node : Nodes, stamp : Nat]
Deliveries == [hook : Hooks, event : Notices]

FileTypes ==
  /\ home \in [Files -> Nodes \cup {NoNode}]
  /\ store \in [Places -> [Files -> Sums \cup {"none"}]]
  /\ step \in [Attempts -> {"new", "read", "write", "done", "failed"}]
  /\ of \in [Attempts -> Files]
  /\ bucket \in BOOLEAN /\ hooked \in BOOLEAN
  /\ hooked => checked = {} /\ ~bucket
  /\ completing \subseteq [node : Nodes, file : Files, sum : Sums]
  /\ events \in [Nodes -> SUBSET Events]
  /\ issued \in Nat

HookTypes ==
  /\ hooks \in [Nodes -> [Hooks -> {"none", "active", "revoked"}]]
  /\ hookFile \in [Nodes -> [Hooks -> {"none", "active", "revoked"}] \cup {Broken}]
  /\ hushed \in [Hooks -> Nat \cup {NotHushed}]
  /\ announcing \subseteq Notices
  /\ sending \subseteq Deliveries /\ got \subseteq Deliveries

TypeInv == FileTypes /\ HookTypes

\* Part of a file is stored where one of its attempts writes, or was cut short.
BytesInv ==
  /\ \A u \in Attempts : /\ step[u] # "new" => home[of[u]] # NoNode
                         /\ step[u] = "write" => ~bucket
  /\ \A p \in Places, f \in Files :
       store[p][f] = "part" =>
         ~bucket /\ (f \in cut \/ (p = home[f] /\ Writers(f) # {}))

\* What was hashed is stored, and is all of it where the checksum or the bucket says so.
Whole(f) == f \in checked \/ bucket
HashInv ==
  /\ \A c \in completing :
       store[StoreOf(c.node)][c.file] # "none" /\ (Whole(c.file) => c.sum = "all")
  /\ \A n \in Nodes : \A e \in events[n] :
       /\ e.sum \in Sums => store[StoreOf(e.signer)][e.file] # "none"
       /\ Whole(e.file) => e.sum \in {"all", "removed"}

\* A hook lives at one node, whose file knows no hook its memory does not; once its
\* revocation is saved no memory and no file has it active; and no event is ahead of
\* `issued`.
HookInv ==
  /\ \A n \in Nodes, h \in Hooks :
       /\ hookFile[n][h] \in {"none", "active", "revoked", "broken"}
       /\ n \notin dead /\ hookFile[n][h] \notin {"none", "broken"} => hooks[n][h] # "none"
       /\ n \in dead => hooks[n][h] = "none" /\ hookFile[n][h] = "broken"
  /\ \A h \in Hooks : \A m, n \in Nodes :
       hooks[m][h] # "none" /\ hooks[n][h] # "none" => m = n
  /\ \A h \in Hooks : hushed[h] # NotHushed =>
       \A n \in Nodes : hooks[n][h] # "active" /\ hookFile[n][h] # "active"
  /\ \A a \in announcing : a.stamp =< issued
  /\ \A d \in got \cup sending : d.event.stamp =< issued

IInv == TypeInv /\ BytesInv /\ HashInv /\ HookInv /\ RevokedHooksAreQuiet

-----------------------------------------------------------------------------
(* Types *)

LEMMA StorePlaces ==
  ASSUME TypeInv, NEW n \in Nodes
  PROVE  StoreOf(n) \in Places /\ n \in Places
  BY DEF StoreOf, Places

LEMMA AppendTypes ==
  ASSUME TypeInv, NEW n \in Nodes, NEW f \in Files, NEW sum \in Sums \cup {"link", "removed"},
         AppendEvent(n, f, sum)
  PROVE  /\ HookTypes' /\ events' \in [Nodes -> SUBSET Events] /\ issued' \in Nat
         /\ issued' = issued + 1
         /\ \A m \in Nodes : events'[m] = IF m = n
              THEN events[n] \cup {[stamp |-> issued + 1, signer |-> n, file |-> f, sum |-> sum]}
              ELSE events[m]
  <1> DEFINE e == [stamp |-> issued + 1, signer |-> n, file |-> f, sum |-> sum]
  <1>1. issued + 1 \in Nat /\ events \in [Nodes -> SUBSET Events] /\ HookTypes
    BY DEF TypeInv, FileTypes
  <1>2. e \in Events /\ [node |-> n, stamp |-> issued + 1] \in Notices
    BY <1>1 DEF Events, Notices
  <1>3. events' = [events EXCEPT ![n] = @ \cup {e}] /\ issued' = issued + 1
    BY DEF AppendEvent
  <1>4. HookTypes'
    BY <1>1, <1>2 DEF AppendEvent, HookTypes
  <1> HIDE DEF e
  <1>5. /\ events' \in [Nodes -> SUBSET Events]
        /\ \A m \in Nodes : events'[m] = IF m = n THEN events[n] \cup {e} ELSE events[m]
    BY <1>1, <1>2, <1>3
  <1> QED
    BY <1>1, <1>3, <1>4, <1>5 DEF e

\* The steps that change the store or the attempts, and no event and no hook.
Uploads ==
  \E u \in Attempts :
    StartUpload(u) \/ PutObject(u) \/ BeginWrite(u) \/ EndWrite(u) \/ FailWrite(u)

LEMMA UploadTypes ==
  ASSUME TypeInv, BytesInv, Uploads
  PROVE  /\ TypeInv'
         /\ UNCHANGED <<webhookVars, home, setup, completing, events, issued>>
         /\ \A p \in Places, f \in Files : store[p][f] # "none" => store'[p][f] # "none"
  <1> PICK u \in Attempts :
        StartUpload(u) \/ PutObject(u) \/ BeginWrite(u) \/ EndWrite(u) \/ FailWrite(u)
    BY DEF Uploads
  <1>1. UNCHANGED <<webhookVars, home, setup, completing, events, issued>>
    BY DEF StartUpload, PutObject, BeginWrite, EndWrite, FailWrite
  <1>2. of[u] \in Files /\ "bucket" \in Places
    BY DEF TypeInv, FileTypes, Places
  <1>3. step[u] # "new" => home[of[u]] \in Places
    BY <1>2 DEF BytesInv, Places, TypeInv, FileTypes
  <1>4. \/ UNCHANGED store
        \/ \E p \in Places, b \in Sums : store' = [store EXCEPT ![p][of[u]] = b]
    BY <1>2, <1>3 DEF StartUpload, PutObject, BeginWrite, EndWrite, FailWrite, Sums
  <1>5. \E s \in {"read", "write", "done", "failed"} : step' = [step EXCEPT ![u] = s]
    BY DEF StartUpload, PutObject, BeginWrite, EndWrite, FailWrite
  <1>6. /\ store' \in [Places -> [Files -> Sums \cup {"none"}]]
        /\ \A p \in Places, f \in Files : store[p][f] # "none" => store'[p][f] # "none"
    <2>1. store \in [Places -> [Files -> Sums \cup {"none"}]]
      BY DEF TypeInv, FileTypes
    <2> QED
      BY <1>2, <1>4, <2>1 DEF Sums
  <1>7. step' \in [Attempts -> {"new", "read", "write", "done", "failed"}]
    BY <1>5 DEF TypeInv, FileTypes
  <1> QED
    BY <1>1, <1>6, <1>7 DEF TypeInv, FileTypes, HookTypes, webhookVars, setup

LEMMA KillTypes ==
  ASSUME TypeInv, HookInv, NEW n \in Nodes, Kill(n)
  PROVE  TypeInv'
  <1>1. /\ UNCHANGED <<home, store, setup, events, issued, got, hushed>>
        /\ completing' \subseteq completing /\ announcing' \subseteq announcing
        /\ sending' \subseteq sending
    BY DEF Kill, KillHooks
  <1>2. step' \in [Attempts -> {"new", "read", "write", "done", "failed"}]
    BY DEF Kill, TypeInv, FileTypes
  <1>3. PICK writing \in {FALSE, hooked} : KillHooks(n, writing)
    BY DEF Kill
  <1>4. writing \in BOOLEAN
    BY <1>3 DEF TypeInv, FileTypes
  <1>5. NoHooks \in [Hooks -> {"none", "active", "revoked"}]
    BY DEF NoHooks
  <1>6. hookFile' \in [Nodes -> [Hooks -> {"none", "active", "revoked"}] \cup {Broken}]
    BY <1>3 DEF KillHooks, TypeInv, HookTypes
  <1>7. hooks' \in [Nodes -> [Hooks -> {"none", "active", "revoked"}]]
    <2>1. \/ hookFile[n] = Broken
          \/ hookFile[n] \in [Hooks -> {"none", "active", "revoked"}]
      BY DEF TypeInv, HookTypes
    <2>2. hooks' = [hooks EXCEPT ![n] = IF writing \/ hookFile[n] = Broken
                                         THEN NoHooks ELSE hookFile[n]]
      BY <1>3 DEF KillHooks
    <2> QED
      BY <1>5, <2>1, <2>2 DEF TypeInv, HookTypes
  <1> QED
    BY <1>1, <1>2, <1>6, <1>7 DEF TypeInv, FileTypes, HookTypes, setup

\* The handlers that append an event, and the steps of the operator and the hooks.
Handlers ==
  \/ \E n \in Nodes, f \in Files : Remove(n, f) \/ AddLink(n, f)
  \/ \E c \in completing : EndComplete(c)

LEMMA HandlerAppends ==
  ASSUME TypeInv, Handlers
  PROVE  \E n \in Nodes, f \in Files, sum \in Sums \cup {"link", "removed"} :
           /\ AppendEvent(n, f, sum)
           /\ \/ sum = "removed"
              \/ sum = "link" /\ hooked
              \/ [node |-> n, file |-> f, sum |-> sum] \in completing
           /\ completing' \subseteq completing
           /\ UNCHANGED <<store, step, setup, cut>>
           /\ home' \in [Files -> Nodes \cup {NoNode}]
           /\ \A g \in Files : home[g] # NoNode => home'[g] = home[g]
  <1>1. CASE \E n \in Nodes, f \in Files : Remove(n, f)
    <2>1. PICK n \in Nodes, f \in Files : Remove(n, f)
      BY <1>1
    <2>2. /\ AppendEvent(n, f, "removed") /\ UNCHANGED <<completing, home, store, step, setup, cut>>
      BY <2>1 DEF Remove
    <2> QED
      BY <2>2 DEF TypeInv, FileTypes
  <1>2. CASE \E n \in Nodes, f \in Files : AddLink(n, f)
    <2>1. PICK n \in Nodes, f \in Files : AddLink(n, f)
      BY <1>2
    <2>2. /\ AppendEvent(n, f, "link") /\ hooked /\ home' = [home EXCEPT ![f] = n]
          /\ home[f] = NoNode /\ UNCHANGED <<completing, store, step, setup, cut>>
      BY <2>1 DEF AddLink
    <2> QED
      BY <2>2 DEF TypeInv, FileTypes
  <1>3. CASE \E c \in completing : EndComplete(c)
    <2>1. PICK c \in completing : EndComplete(c)
      BY <1>3
    <2>2. /\ c.node \in Nodes /\ c.file \in Files /\ c.sum \in Sums
          /\ c = [node |-> c.node, file |-> c.file, sum |-> c.sum]
      BY DEF TypeInv, FileTypes
    <2>3. /\ AppendEvent(c.node, c.file, c.sum) /\ completing' \subseteq completing
          /\ UNCHANGED <<home, store, step, setup, cut>>
      BY <2>1 DEF EndComplete
    <2> QED
      BY <2>2, <2>3 DEF TypeInv, FileTypes
  <1> QED
    BY <1>1, <1>2, <1>3 DEF Handlers

HookSteps(n, h) ==
  \/ \E ok \in BOOLEAN : CreateHook(n, h, ok) \/ RevokeHook(n, h, ok, issued)
  \/ TestHook(n, h)
Sends == (\E a \in announcing : Emit(a)) \/ (\E d \in sending : Deliver(d))

LEMMA StepsOfHooks ==
  ASSUME Hook
  PROVE  /\ UNCHANGED <<home, store, step, setup, completing, events, issued, cut>>
         /\ Sends \/ \E n \in Nodes, h \in Hooks : HookSteps(n, h)
  BY DEF Hook, Sends, HookSteps

LEMMA HookTypesStep ==
  ASSUME TypeInv, Hook
  PROVE  TypeInv'
  <1>1. UNCHANGED <<home, store, step, setup, completing, events, issued, cut>>
    BY StepsOfHooks
  <1>2. HookTypes'
    <2>1. CASE Sends
      <3>1. CASE \E a \in announcing : Emit(a)
        BY <3>1 DEF Emit, Targets, TypeInv, HookTypes, Deliveries
      <3>2. CASE \E d \in sending : Deliver(d)
        BY <3>2 DEF Deliver, TypeInv, HookTypes
      <3> QED
        BY <2>1, <3>1, <3>2 DEF Sends
    <2>2. CASE \E n \in Nodes, h \in Hooks : HookSteps(n, h)
      <3>1. PICK n \in Nodes, h \in Hooks : HookSteps(n, h)
        BY <2>2
      <3>2. ASSUME NEW s \in {"active", "revoked"}, hooks' = [hooks EXCEPT ![n][h] = s],
                   NEW ok \in BOOLEAN, SaveHooks(n, ok)
            PROVE  /\ hooks' \in [Nodes -> [Hooks -> {"none", "active", "revoked"}]]
                   /\ hookFile' \in
                        [Nodes -> [Hooks -> {"none", "active", "revoked"}] \cup {Broken}]
        <4>1. hooks' \in [Nodes -> [Hooks -> {"none", "active", "revoked"}]]
          BY <3>2 DEF TypeInv, HookTypes
        <4>2. hooks'[n] \in [Hooks -> {"none", "active", "revoked"}]
          BY <4>1
        <4> QED
          BY <3>2, <4>1, <4>2 DEF SaveHooks, TypeInv, HookTypes
      <3>3. CASE TestHook(n, h)
        BY <3>3 DEF TestHook, TypeInv, FileTypes, HookTypes, Deliveries, Notices
      <3>4. ASSUME NEW ok \in BOOLEAN, CreateHook(n, h, ok)
            PROVE  HookTypes'
        BY <3>2, <3>4 DEF CreateHook, TypeInv, HookTypes
      <3>5. ASSUME NEW ok \in BOOLEAN, RevokeHook(n, h, ok, issued)
            PROVE  HookTypes'
        <4>1. hushed' \in [Hooks -> Nat \cup {NotHushed}]
          BY <3>5 DEF RevokeHook, TypeInv, FileTypes, HookTypes
        <4> QED
          BY <3>2, <3>5, <4>1 DEF RevokeHook, TypeInv, HookTypes
      <3> QED
        BY <3>1, <3>3, <3>4, <3>5 DEF HookSteps
    <2> QED
      BY <2>1, <2>2, StepsOfHooks
  <1> QED
    BY <1>1, <1>2 DEF TypeInv, FileTypes, setup

LEMMA StepsOfAll ==
  ASSUME Next
  PROVE  \/ Uploads \/ Handlers \/ Hook \/ Tick
         \/ \E n \in Nodes, f \in Files : Initiate(n, f) \/ HashBytes(n, f)
         \/ \E n \in Nodes : \E m \in Nodes : \E e \in events[m] : Learn(n, e)
         \/ \E n \in Nodes : Kill(n)
  BY Zenon DEF Next, Uploads, Handlers

LEMMA TypeStep ==
  ASSUME TypeInv, BytesInv, HookInv, [Next]_vars
  PROVE  TypeInv'
  <1> USE DEF webhookVars, setup
  <1>1. CASE UNCHANGED vars
    BY <1>1 DEF vars, TypeInv, FileTypes, HookTypes
  <1>2. CASE Uploads
    BY <1>2, UploadTypes
  <1>3. CASE Handlers
    <2>1. PICK n \in Nodes, f \in Files, sum \in Sums \cup {"link", "removed"} :
            /\ AppendEvent(n, f, sum)
            /\ completing' \subseteq completing
            /\ UNCHANGED <<store, step, setup, cut>>
            /\ home' \in [Files -> Nodes \cup {NoNode}]
      BY <1>3, HandlerAppends
    <2>2. HookTypes' /\ events' \in [Nodes -> SUBSET Events] /\ issued' \in Nat
      BY <2>1, AppendTypes
    <2> QED
      BY <2>1, <2>2 DEF TypeInv, FileTypes
  <1>4. CASE Hook
    BY <1>4, HookTypesStep
  <1>5. CASE Tick
    BY <1>5 DEF Tick, TypeInv, FileTypes, HookTypes
  <1>6. ASSUME NEW n \in Nodes, NEW f \in Files, Initiate(n, f)
        PROVE  TypeInv'
    BY <1>6 DEF Initiate, TypeInv, FileTypes, HookTypes
  <1>7. ASSUME NEW n \in Nodes, NEW f \in Files, HashBytes(n, f)
        PROVE  TypeInv'
    <2>1. [node |-> n, file |-> f, sum |-> store[StoreOf(n)][f]]
            \in [node : Nodes, file : Files, sum : Sums]
      <3>1. store[StoreOf(n)][f] \in Sums \cup {"none"}
        BY StorePlaces DEF TypeInv, FileTypes
      <3> QED
        BY <1>7, <3>1 DEF HashBytes
    <2> QED
      BY <1>7, <2>1 DEF HashBytes, TypeInv, FileTypes, HookTypes
  <1>8. ASSUME NEW n \in Nodes, NEW m \in Nodes, NEW e \in events[m], Learn(n, e)
        PROVE  TypeInv'
    <2>1. e \in Events
      BY DEF TypeInv, FileTypes
    <2> QED
      BY <1>8, <2>1 DEF Learn, TypeInv, FileTypes, HookTypes
  <1>9. ASSUME NEW n \in Nodes, Kill(n)
        PROVE  TypeInv'
    BY <1>9, KillTypes
  <1> QED
    BY <1>1, <1>2, <1>3, <1>4, <1>5, <1>6, <1>7, <1>8, <1>9, StepsOfAll

-----------------------------------------------------------------------------
(* The bytes *)

LEMMA UploadBytes ==
  ASSUME TypeInv, BytesInv, Uploads
  PROVE  BytesInv'
  <1> PICK u \in Attempts :
        StartUpload(u) \/ PutObject(u) \/ BeginWrite(u) \/ EndWrite(u) \/ FailWrite(u)
    BY DEF Uploads
  <1>1. UNCHANGED <<home, setup>>
    BY UploadTypes
  <1>2. /\ step \in [Attempts -> {"new", "read", "write", "done", "failed"}]
        /\ store \in [Places -> [Files -> Sums \cup {"none"}]]
        /\ of[u] \in Files /\ "bucket" \in Places
    BY DEF TypeInv, FileTypes, Places
  <1> USE DEF setup
  <1>3. \A v \in Attempts : /\ step'[v] # "new" => home'[of'[v]] # NoNode
                            /\ step'[v] = "write" => ~bucket'
    <2>1. CASE StartUpload(u)
      <3>1. home[of[u]] # NoNode
        BY <2>1 DEF StartUpload
      <3> QED
        BY <1>1, <1>2, <2>1, <3>1 DEF StartUpload, BytesInv
    <2>2. CASE ~StartUpload(u)
      <3>1. step[u] # "new" /\ \E s \in {"write", "done", "failed"} :
              step' = [step EXCEPT ![u] = s] /\ (s = "write" => ~bucket)
        BY <2>2 DEF PutObject, BeginWrite, EndWrite, FailWrite
      <3> QED
        BY <1>1, <1>2, <3>1 DEF BytesInv
    <2> QED
      BY <2>1, <2>2
  <1>4. SUFFICES ASSUME NEW p \in Places, NEW f \in Files, store'[p][f] = "part"
                 PROVE  ~bucket /\ (f \in cut' \/ (p = home[f] /\ Writers(f)' # {}))
    BY <1>1, <1>3 DEF BytesInv
  <1>5. store[p][f] = "part" => ~bucket /\ (f \in cut \/ (p = home[f] /\ Writers(f) # {}))
    BY DEF BytesInv
  <1>6. CASE StartUpload(u)
    <2>1. UNCHANGED <<store, cut>> /\ \A v \in Attempts : step[v] = "write" => step'[v] = "write"
      BY <1>2, <1>6 DEF StartUpload
    <2> QED
      BY <1>1, <1>4, <1>5, <2>1 DEF Writers
  <1>7. CASE PutObject(u)
    <2>1. store[p][f] = "part"
      BY <1>2, <1>4, <1>7 DEF PutObject
    <2> QED
      BY <1>5, <1>7, <2>1 DEF PutObject
  <1>8. CASE BeginWrite(u)
    <2>1. \A v \in Attempts : step[v] = "write" \/ v = u => step'[v] = "write"
      BY <1>2, <1>8 DEF BeginWrite
    <2>2. UNCHANGED cut /\ ~bucket
      BY <1>8 DEF BeginWrite
    <2>3. Writers(f) \subseteq Writers(f)' /\ (f = of[u] => u \in Writers(f)')
      BY <1>1, <2>1 DEF Writers
    <2>4. store[p][f] = "part" \/ (p = home[of[u]] /\ f = of[u])
      BY <1>2, <1>4, <1>8 DEF BeginWrite
    <2> QED
      BY <1>5, <2>2, <2>3, <2>4
  <1>9. CASE EndWrite(u)
    <2>1. PICK b \in IF Writers(of[u]) = {u} THEN {"all"} ELSE {"part", "all"} :
            store' = [store EXCEPT ![home[of[u]]][of[u]] = b]
      BY <1>9 DEF EndWrite
    <2>2. UNCHANGED cut /\ step[u] = "write" /\ \A v \in Attempts \ {u} : step'[v] = step[v]
      BY <1>2, <1>9 DEF EndWrite
    <2>3. Writers(f) \ {u} \subseteq Writers(f)' /\ (f # of[u] => u \notin Writers(f))
      BY <1>1, <2>2 DEF Writers
    <2>4. u \in Writers(of[u]) /\ ~bucket
      BY <2>2 DEF Writers, BytesInv
    <2>5. CASE p = home[of[u]] /\ f = of[u]
      <3>1. b = "part"
        BY <1>2, <1>4, <2>1, <2>5
      <3>2. Writers(f) # {u}
        BY <2>1, <2>5, <3>1
      <3> QED
        BY <2>3, <2>4, <2>5, <3>2
    <2>6. CASE ~(p = home[of[u]] /\ f = of[u])
      <3>1. store[p][f] = "part"
        BY <1>2, <1>4, <2>1, <2>6
      <3>2. f \in cut \/ (p = home[f] /\ f # of[u] /\ Writers(f) # {})
        BY <1>5, <2>6, <3>1
      <3> QED
        BY <1>5, <2>2, <2>3, <3>1, <3>2
    <2> QED
      BY <2>5, <2>6
  <1>10. CASE FailWrite(u)
    <2>1. UNCHANGED store /\ cut' = cut \cup {of[u]} /\ \A v \in Attempts \ {u} : step'[v] = step[v]
      BY <1>2, <1>10 DEF FailWrite
    <2>2. f # of[u] => Writers(f) \subseteq Writers(f)'
      BY <1>1, <2>1 DEF Writers
    <2> QED
      BY <1>4, <1>5, <2>1, <2>2
  <1> QED
    BY <1>6, <1>7, <1>8, <1>9, <1>10

LEMMA BytesStep ==
  ASSUME TypeInv, BytesInv, [Next]_vars
  PROVE  BytesInv'
  <1> USE DEF webhookVars, setup
  <1>1. CASE Uploads
    BY <1>1, UploadBytes
  <1>2. ASSUME UNCHANGED <<store, step, setup, cut>>,
               \A g \in Files : home[g] # NoNode => home'[g] = home[g]
        PROVE  BytesInv'
    <2>1. of \in [Attempts -> Files] /\ home \in [Files -> Nodes \cup {NoNode}]
      BY DEF TypeInv, FileTypes
    <2>2. \A f \in Files : Writers(f)' = Writers(f)
      BY <1>2 DEF Writers
    <2>3. \A f \in Files : Writers(f) # {} => home'[f] = home[f]
      <3> SUFFICES ASSUME NEW f \in Files, NEW u \in Writers(f)
                   PROVE  home'[f] = home[f]
        OBVIOUS
      <3>1. u \in Attempts /\ of[u] = f /\ step[u] = "write"
        BY DEF Writers
      <3> QED
        BY <1>2, <3>1 DEF BytesInv
    <2> HIDE DEF Writers
    <2> QED
      BY <1>2, <2>1, <2>2, <2>3 DEF BytesInv
  <1>3. CASE Handlers
    BY <1>2, <1>3, HandlerAppends
  <1>4. CASE Hook \/ Tick \/ UNCHANGED vars
    <2>1. UNCHANGED <<home, store, step, setup, cut>>
      BY <1>4, StepsOfHooks DEF Tick, vars
    <2> QED
      BY <1>2, <2>1
  <1>5. ASSUME NEW n \in Nodes, NEW f \in Files, Initiate(n, f)
        PROVE  BytesInv'
    <2>1. UNCHANGED <<store, step, setup, cut>> /\ home' = [home EXCEPT ![f] = n] /\ home[f] = NoNode
      BY <1>5 DEF Initiate
    <2> QED
      BY <1>2, <2>1 DEF TypeInv, FileTypes
  <1>6. ASSUME NEW n \in Nodes, NEW f \in Files, HashBytes(n, f)
        PROVE  BytesInv'
    BY <1>2, <1>6 DEF HashBytes
  <1>7. ASSUME NEW n \in Nodes, NEW m \in Nodes, NEW e \in events[m], Learn(n, e)
        PROVE  BytesInv'
    BY <1>2, <1>7 DEF Learn
  <1>8. ASSUME NEW n \in Nodes, Kill(n)
        PROVE  BytesInv'
    <2> DEFINE here == {u \in Attempts : /\ ~bucket /\ home[of[u]] = n
                                         /\ step[u] \in {"read", "write"}}
    <2>1. /\ UNCHANGED <<home, store, setup>>
          /\ step' = [u \in Attempts |-> IF u \in here THEN "failed" ELSE step[u]]
          /\ cut' = cut \cup {of[u] : u \in {v \in here : step[v] = "write"}}
      BY <1>8 DEF Kill
    <2>2. \A u \in Attempts : /\ step'[u] # "new" => step[u] # "new"
                              /\ step'[u] = "write" => step[u] = "write"
      BY <2>1
    <2>3. \A f \in Files : f \notin cut' => Writers(f) \subseteq Writers(f)'
      BY <2>1 DEF Writers, BytesInv
    <2>4. cut \subseteq cut'
      BY <2>1
    <2> HIDE DEF Writers, here
    <2> QED
      BY <2>1, <2>2, <2>3, <2>4 DEF BytesInv
  <1> QED
    BY <1>1, <1>3, <1>4, <1>5, <1>6, <1>7, <1>8, StepsOfAll

LEMMA HashStep ==
  ASSUME TypeInv, BytesInv, HashInv, [Next]_vars
  PROVE  HashInv'
  <1> USE DEF webhookVars, setup
  <1>1. ASSUME UNCHANGED setup,
               \A p \in Places, f \in Files : store[p][f] # "none" => store'[p][f] # "none",
               completing' \subseteq completing,
               \A n \in Nodes : \A e \in events'[n] :
                 \/ \E m \in Nodes : e \in events[m]
                 \/ /\ e.signer \in Nodes /\ e.file \in Files
                    /\ e.sum \in Sums => store[StoreOf(e.signer)][e.file] # "none"
                    /\ Whole(e.file) => e.sum \in {"all", "removed"}
        PROVE  HashInv'
    <2>1. \A n \in Nodes : StoreOf(n)' = StoreOf(n) /\ StoreOf(n) \in Places
      BY <1>1, StorePlaces DEF StoreOf
    <2>2. \A f : Whole(f)' = Whole(f)
      BY <1>1 DEF Whole
    <2>3. \A c \in completing : c.node \in Nodes /\ c.file \in Files
      BY DEF TypeInv, FileTypes
    <2>4. \A n \in Nodes : \A e \in events[n] : e.signer \in Nodes /\ e.file \in Files
      BY DEF TypeInv, FileTypes, Events
    <2> HIDE DEF StoreOf, Whole
    <2>5. \A c \in completing' :
            store'[StoreOf(c.node)'][c.file] # "none" /\ (Whole(c.file)' => c.sum = "all")
      BY <1>1, <2>1, <2>2, <2>3 DEF HashInv
    <2>6. ASSUME NEW n \in Nodes, NEW e \in events'[n]
          PROVE  /\ e.sum \in Sums => store'[StoreOf(e.signer)'][e.file] # "none"
                 /\ Whole(e.file)' => e.sum \in {"all", "removed"}
      <3>1. /\ e.signer \in Nodes /\ e.file \in Files
            /\ e.sum \in Sums => store[StoreOf(e.signer)][e.file] # "none"
            /\ Whole(e.file) => e.sum \in {"all", "removed"}
        BY <1>1, <2>4, <2>6 DEF HashInv
      <3> QED
        BY <1>1, <2>1, <2>2, <3>1
    <2> QED
      BY <2>5, <2>6 DEF HashInv
  <1>2. CASE Uploads
    BY <1>1, <1>2, UploadTypes
  <1>3. CASE Handlers
    <2>1. PICK n \in Nodes, f \in Files, sum \in Sums \cup {"link", "removed"} :
            /\ AppendEvent(n, f, sum)
            /\ \/ sum = "removed"
               \/ sum = "link" /\ hooked
               \/ [node |-> n, file |-> f, sum |-> sum] \in completing
            /\ completing' \subseteq completing
            /\ UNCHANGED <<store, step, setup, cut>>
      BY <1>3, HandlerAppends
    <2> DEFINE e == [stamp |-> issued + 1, signer |-> n, file |-> f, sum |-> sum]
    <2>2. \A m \in Nodes : events'[m] = IF m = n THEN events[n] \cup {e} ELSE events[m]
      BY <2>1, AppendTypes
    <2>3. /\ e.signer \in Nodes /\ e.file \in Files
          /\ e.sum \in Sums => store[StoreOf(e.signer)][e.file] # "none"
          /\ Whole(e.file) => e.sum \in {"all", "removed"}
      <3>1. CASE sum = "removed"
        BY <3>1 DEF Sums
      <3>2. CASE sum = "link" /\ hooked
        BY <3>2 DEF Sums, Whole, TypeInv, FileTypes
      <3>3. CASE [node |-> n, file |-> f, sum |-> sum] \in completing
        BY <3>3 DEF HashInv
      <3> QED
        BY <2>1, <3>1, <3>2, <3>3
    <2> HIDE DEF e
    <2> QED
      BY <1>1, <2>1, <2>2, <2>3
  <1>4. CASE Hook \/ Tick \/ UNCHANGED vars
    <2>1. UNCHANGED <<store, setup, completing, events>>
      BY <1>4, StepsOfHooks DEF Tick, vars
    <2> QED
      BY <1>1, <2>1
  <1>5. ASSUME NEW n \in Nodes, NEW f \in Files, Initiate(n, f)
        PROVE  HashInv'
    BY <1>1, <1>5 DEF Initiate
  <1>6. ASSUME NEW n \in Nodes, NEW f \in Files, HashBytes(n, f)
        PROVE  HashInv'
    <2> DEFINE c == [node |-> n, file |-> f, sum |-> store[StoreOf(n)][f]]
    <2>1. /\ UNCHANGED <<store, setup, events>> /\ completing' = completing \cup {c}
          /\ store[StoreOf(n)][f] # "none" /\ (f \in checked => store[StoreOf(n)][f] = "all")
      BY <1>6 DEF HashBytes
    <2>2. StoreOf(n) \in Places /\ store[StoreOf(n)][f] \in Sums \cup {"none"}
      BY StorePlaces DEF TypeInv, FileTypes
    <2>3. bucket => store[StoreOf(n)][f] = "all"
      BY <2>1, <2>2 DEF BytesInv, Sums
    <2>4. c.node = n /\ c.file = f /\ c.sum = store[StoreOf(n)][f]
      OBVIOUS
    <2> HIDE DEF c
    <2>5. \A d : StoreOf(d)' = StoreOf(d) /\ Whole(d)' = Whole(d)
      BY <2>1 DEF StoreOf, Whole
    <2>6. Whole(f) => c.sum = "all"
      BY <2>1, <2>3, <2>4 DEF Whole
    <2> QED
      BY <2>1, <2>4, <2>5, <2>6 DEF HashInv
  <1>7. ASSUME NEW n \in Nodes, NEW m \in Nodes, NEW e \in events[m], Learn(n, e)
        PROVE  HashInv'
    <2>1. /\ UNCHANGED <<store, setup, completing>>
          /\ events' = [events EXCEPT ![n] = @ \cup {e}]
      BY <1>7 DEF Learn
    <2>2. \A k \in Nodes : events'[k] \subseteq events[k] \cup {e}
      BY <2>1 DEF TypeInv, FileTypes
    <2> QED
      BY <1>1, <2>1, <2>2
  <1>8. ASSUME NEW n \in Nodes, Kill(n)
        PROVE  HashInv'
    <2>1. UNCHANGED <<store, setup, events>> /\ completing' \subseteq completing
      BY <1>8 DEF Kill
    <2> QED
      BY <1>1, <2>1
  <1> QED
    BY <1>2, <1>3, <1>4, <1>5, <1>6, <1>7, <1>8, StepsOfAll

-----------------------------------------------------------------------------
(* The hooks *)

\* Node n sets hook h to s in memory and saves its hooks, or fails to (ok).
SetsHook(n, h, s, ok) == hooks' = [hooks EXCEPT ![n][h] = s] /\ SaveHooks(n, ok)

\* A change of hook h at node n that is up, saved or not.
LEMMA SavedHook ==
  ASSUME TypeInv, HookInv, NEW n \in Nodes, NEW h \in Hooks, n \notin dead,
         NEW s \in {"active", "revoked"}, NEW ok \in BOOLEAN, SetsHook(n, h, s, ok)
  PROVE  /\ \A m \in Nodes, g \in Hooks :
              hooks'[m][g] = IF m = n /\ g = h THEN s ELSE hooks[m][g]
         /\ \A m \in Nodes, g \in Hooks :
              \/ hookFile'[m][g] = hookFile[m][g]
              \/ m = n /\ hookFile'[m][g] \in {hooks'[m][g], "broken"}
         /\ ok => hookFile'[n][h] = s
  <1>1. /\ hooks \in [Nodes -> [Hooks -> {"none", "active", "revoked"}]]
        /\ hookFile \in [Nodes -> [Hooks -> {"none", "active", "revoked"}] \cup {Broken}]
    BY DEF TypeInv, HookTypes
  <1>2. \A m \in Nodes, g \in Hooks : hooks'[m][g] = IF m = n /\ g = h THEN s ELSE hooks[m][g]
    BY <1>1 DEF SetsHook
  <1>3. \A m \in Nodes : \/ hookFile'[m] = hookFile[m] /\ ~(ok /\ m = n)
                         \/ m = n /\ hookFile'[m] = hooks'[m]
                         \/ m = n /\ hookFile'[m] = Broken /\ ~ok
    BY <1>1 DEF SaveHooks, SetsHook
  <1>4. \A m \in Nodes, g \in Hooks :
          \/ hookFile'[m][g] = hookFile[m][g]
          \/ m = n /\ hookFile'[m][g] \in {hooks'[m][g], "broken"}
    BY <1>3 DEF Broken
  <1>5. ok => hookFile'[n][h] = s
    BY <1>2, <1>3
  <1> QED
    BY <1>2, <1>4, <1>5

LEMMA HookChanges ==
  ASSUME TypeInv, HookInv, RevokedHooksAreQuiet, NEW n \in Nodes, NEW h \in Hooks,
         NEW ok \in BOOLEAN, CreateHook(n, h, ok) \/ RevokeHook(n, h, ok, issued),
         UNCHANGED issued
  PROVE  HookInv' /\ RevokedHooksAreQuiet'
  <1>1. /\ n \notin dead
        /\ UNCHANGED <<announcing, sending, got, dead>>
    BY DEF CreateHook, RevokeHook, Up
  <1>2. PICK s \in {"active", "revoked"} :
          /\ SetsHook(n, h, s, ok)
          /\ \/ /\ s = "active" /\ UNCHANGED hushed
                /\ hushed[h] = NotHushed
                /\ \A m \in Nodes : hooks[m][h] = "none"
                                     /\ hookFile[m][h] \in {"none", "broken"}
             \/ /\ s = "revoked" /\ hooks[n][h] # "none"
                /\ hushed' = [hushed EXCEPT ![h] = IF ok /\ @ = NotHushed THEN issued ELSE @]
    <2>1. CASE CreateHook(n, h, ok)
      BY <2>1, ServersAssumption DEF CreateHook, SetsHook
    <2>2. CASE RevokeHook(n, h, ok, issued)
      BY <2>2 DEF RevokeHook, SetsHook
    <2> QED
      BY <2>1, <2>2
  <1>3. /\ \A m \in Nodes, g \in Hooks :
             hooks'[m][g] = IF m = n /\ g = h THEN s ELSE hooks[m][g]
        /\ \A m \in Nodes, g \in Hooks :
             \/ hookFile'[m][g] = hookFile[m][g]
             \/ m = n /\ hookFile'[m][g] \in {hooks'[m][g], "broken"}
        /\ ok => hookFile'[n][h] = s
        /\ \A m \in Nodes, g \in Hooks : hooks[m][g] \in {"none", "active", "revoked"}
    BY <1>1, <1>2, SavedHook DEF TypeInv, HookTypes
  <1>4. \A m \in Nodes, g \in Hooks :
          /\ hookFile'[m][g] \in {"none", "active", "revoked", "broken"}
          /\ m \notin dead' /\ hookFile'[m][g] \notin {"none", "broken"}
               => hooks'[m][g] # "none"
          /\ m \in dead' => hooks'[m][g] = "none" /\ hookFile'[m][g] = "broken"
    BY <1>1, <1>3 DEF HookInv
  <1>5. \A g \in Hooks : \A k, m \in Nodes :
          hooks'[k][g] # "none" /\ hooks'[m][g] # "none" => k = m
    BY <1>2, <1>3 DEF HookInv
  <1>6. \A g \in Hooks : hushed[g] # NotHushed => hushed'[g] = hushed[g] /\ (s = "active" => g # h)
    BY <1>2 DEF HookInv, TypeInv, HookTypes
  <1>7. ASSUME NEW g \in Hooks, hushed'[g] # NotHushed
        PROVE  \A m \in Nodes : hooks'[m][g] # "active" /\ hookFile'[m][g] # "active"
    <2>1. CASE hushed[g] # NotHushed
      BY <1>3, <1>6, <2>1 DEF HookInv
    <2>2. CASE hushed[g] = NotHushed
      <3>1. g = h /\ ok /\ s = "revoked" /\ hooks[n][h] # "none"
        BY <1>2, <1>7, <2>2 DEF TypeInv, HookTypes
      <3>2. \A m \in Nodes : hooks[m][h] # "none" => m = n
        BY <3>1 DEF HookInv
      <3>3. \A m \in Nodes : m # n => hookFile[m][h] # "active" /\ hooks[m][h] # "active"
        BY <3>2 DEF HookInv
      <3> QED
        BY <1>3, <3>1, <3>3
    <2> QED
      BY <2>1, <2>2
  <1>8. /\ \A a \in announcing' : a.stamp =< issued'
        /\ \A d \in got' \cup sending' : d.event.stamp =< issued'
    BY <1>1 DEF HookInv
  <1>9. RevokedHooksAreQuiet'
    <2> SUFFICES ASSUME NEW d \in got \cup sending, hushed'[d.hook] # NotHushed
                 PROVE  d.event.stamp =< hushed'[d.hook]
      BY <1>1 DEF RevokedHooksAreQuiet
    <2>1. d.hook \in Hooks /\ d.event.stamp =< issued
      BY DEF TypeInv, HookTypes, Deliveries, HookInv
    <2>2. CASE hushed[d.hook] # NotHushed
      BY <1>6, <2>1, <2>2 DEF RevokedHooksAreQuiet
    <2>3. CASE hushed[d.hook] = NotHushed
      <3>1. hushed'[d.hook] = issued
        BY <1>2, <2>1, <2>3 DEF TypeInv, HookTypes
      <3> QED
        BY <2>1, <3>1
    <2> QED
      BY <2>2, <2>3
  <1> QED
    BY <1>4, <1>5, <1>7, <1>8, <1>9 DEF HookInv

LEMMA HookStep ==
  ASSUME TypeInv, HookInv, RevokedHooksAreQuiet, [Next]_vars
  PROVE  HookInv' /\ RevokedHooksAreQuiet'
  <1> USE DEF webhookVars, setup
  <1>1. ASSUME UNCHANGED <<webhookVars, issued>>
        PROVE  HookInv' /\ RevokedHooksAreQuiet'
    BY <1>1 DEF HookInv, RevokedHooksAreQuiet
  <1>2. CASE Uploads
    <2>1. UNCHANGED <<webhookVars, issued>>
      BY <1>2 DEF Uploads, StartUpload, PutObject, BeginWrite, EndWrite, FailWrite
    <2> QED
      BY <1>1, <2>1
  <1>3. CASE Handlers
    <2>1. PICK n \in Nodes, f \in Files, sum \in Sums \cup {"link", "removed"} :
            AppendEvent(n, f, sum)
      BY <1>3, HandlerAppends
    <2>2. /\ UNCHANGED <<hooks, hookFile, sending, got, hushed, dead>> /\ issued' = issued + 1
          /\ announcing' \subseteq announcing \cup {[node |-> n, stamp |-> issued + 1]}
      BY <2>1 DEF AppendEvent
    <2>3. /\ issued \in Nat /\ \A a \in announcing : a.stamp \in Nat
          /\ \A d \in got \cup sending : d.event.stamp \in Nat
      BY DEF TypeInv, FileTypes, HookTypes, Notices, Deliveries
    <2>4. /\ \A a \in announcing' : a.stamp =< issued'
          /\ \A d \in got \cup sending : d.event.stamp =< issued'
      BY <2>2, <2>3 DEF HookInv
    <2> QED
      BY <2>2, <2>4 DEF HookInv, RevokedHooksAreQuiet
  <1>4. CASE Hook
    <2>1. UNCHANGED issued
      BY <1>4, StepsOfHooks
    <2>2. ASSUME NEW a \in announcing, Emit(a)
          PROVE  HookInv' /\ RevokedHooksAreQuiet'
      <3>1. /\ announcing' \subseteq announcing /\ UNCHANGED <<hooks, hookFile, got, hushed, dead>>
            /\ sending' = sending \cup {[hook |-> h, event |-> a] : h \in Targets(a.node)}
        BY <2>2 DEF Emit
      <3>2. \A h \in Targets(a.node) : h \in Hooks /\ hushed[h] = NotHushed
        BY DEF Targets, HookInv, TypeInv, HookTypes, Notices
      <3>3. \A d \in sending' : d \in sending \/ (d.event = a /\ hushed[d.hook] = NotHushed)
        BY <3>1, <3>2
      <3>4. a.stamp =< issued
        BY DEF HookInv
      <3> QED
        BY <2>1, <3>1, <3>3, <3>4 DEF HookInv, RevokedHooksAreQuiet
    <2>3. ASSUME NEW d \in sending, Deliver(d)
          PROVE  HookInv' /\ RevokedHooksAreQuiet'
      <3>1. /\ sending' \subseteq sending /\ got' \subseteq got \cup sending
            /\ UNCHANGED <<hooks, hookFile, announcing, hushed, dead>>
        BY <2>3 DEF Deliver
      <3> QED
        BY <2>1, <3>1 DEF HookInv, RevokedHooksAreQuiet
    <2>4. ASSUME NEW n \in Nodes, NEW h \in Hooks, TestHook(n, h)
          PROVE  HookInv' /\ RevokedHooksAreQuiet'
      <3>1. /\ UNCHANGED <<hooks, hookFile, announcing, got, hushed, dead>>
            /\ sending' = sending \cup {[hook |-> h, event |-> [node |-> n, stamp |-> 0]]}
            /\ hushed[h] = NotHushed
        BY <2>4 DEF TestHook, Targets, HookInv
      <3>2. 0 =< issued
        BY DEF TypeInv, FileTypes
      <3> QED
        BY <2>1, <3>1, <3>2 DEF HookInv, RevokedHooksAreQuiet
    <2> QED
      BY <1>4, <2>1, <2>2, <2>3, <2>4, HookChanges, StepsOfHooks DEF Sends, HookSteps
  <1>5. CASE Tick \/ UNCHANGED vars
    BY <1>1, <1>5 DEF Tick, vars
  <1>6. ASSUME NEW n \in Nodes, NEW f \in Files, Initiate(n, f) \/ HashBytes(n, f)
        PROVE  HookInv' /\ RevokedHooksAreQuiet'
    BY <1>1, <1>6 DEF Initiate, HashBytes
  <1>7. ASSUME NEW n \in Nodes, NEW m \in Nodes, NEW e \in events[m], Learn(n, e)
        PROVE  HookInv' /\ RevokedHooksAreQuiet'
    BY <1>1, <1>7 DEF Learn
  <1>8. ASSUME NEW n \in Nodes, Kill(n)
        PROVE  HookInv' /\ RevokedHooksAreQuiet'
    <2>1. PICK writing \in BOOLEAN : KillHooks(n, writing)
      BY <1>8 DEF Kill, TypeInv, FileTypes
    <2> DEFINE broken == writing \/ hookFile[n] = Broken
    <2>2. /\ UNCHANGED <<issued, got, hushed>> /\ n \notin dead
          /\ announcing' \subseteq announcing /\ sending' \subseteq sending
          /\ dead' = IF broken THEN dead \cup {n} ELSE dead
      BY <1>8, <2>1 DEF Kill, KillHooks, Up
    <2>3. \A m \in Nodes, h \in Hooks :
            /\ hooks'[m][h] = IF m # n THEN hooks[m][h]
                              ELSE IF broken THEN "none" ELSE hookFile[m][h]
            /\ hookFile'[m][h] = IF m = n /\ broken THEN "broken" ELSE hookFile[m][h]
            /\ m = n /\ ~broken => hookFile[m][h] # "broken"
      BY <2>1 DEF KillHooks, NoHooks, Broken, TypeInv, HookTypes
    <2>4. \A m \in Nodes, h \in Hooks :
            /\ hookFile'[m][h] \in {"none", "active", "revoked", "broken"}
            /\ m \notin dead' /\ hookFile'[m][h] \notin {"none", "broken"}
                 => hooks'[m][h] # "none"
            /\ m \in dead' => hooks'[m][h] = "none" /\ hookFile'[m][h] = "broken"
      BY <2>2, <2>3 DEF HookInv
    <2>5. \A m \in Nodes, h \in Hooks : hooks'[m][h] # "none" => hooks[m][h] # "none"
      BY <2>2, <2>3 DEF HookInv
    <2>6. \A h \in Hooks : hushed'[h] # NotHushed =>
            \A m \in Nodes : hooks'[m][h] # "active" /\ hookFile'[m][h] # "active"
      BY <2>2, <2>3 DEF HookInv
    <2>7. RevokedHooksAreQuiet'
      BY <2>2 DEF RevokedHooksAreQuiet
    <2> QED
      BY <2>2, <2>4, <2>5, <2>6, <2>7 DEF HookInv
  <1> QED
    BY <1>2, <1>3, <1>4, <1>5, <1>6, <1>7, <1>8, StepsOfAll

-----------------------------------------------------------------------------
(* Theorems *)

\* What the next three rest on: where a part of a file can be, that what was hashed
\* is stored, and that a revoked hook is active in no memory and no file.
THEOREM Invariance == Spec => []IInv
  <1>1. Init => IInv
    <2> SUFFICES ASSUME Init
                 PROVE  IInv
      OBVIOUS
    <2>1. TypeInv
      <3>1. FileTypes
        BY DEF Init, FileTypes
      <3>2. HookTypes
        BY ServersAssumption DEF Init, WebhooksInit, NoHooks, HookTypes
      <3> QED
        BY <3>1, <3>2 DEF TypeInv
    <2>2. BytesInv /\ HashInv
      BY DEF Init, BytesInv, HashInv
    <2>3. HookInv /\ RevokedHooksAreQuiet
      BY ServersAssumption DEF Init, WebhooksInit, NoHooks, HookInv, RevokedHooksAreQuiet
    <2> QED
      BY <2>1, <2>2, <2>3 DEF IInv
  <1>2. IInv /\ [Next]_vars => IInv'
    BY TypeStep, BytesStep, HashStep, HookStep DEF IInv
  <1> QED
    BY <1>1, <1>2, PTL DEF Spec

\* What a node lists of a client that sends its checksum is stored where it was
\* completed, however late its uploads still run (attachmentsUpload,
\* issueAttachmentComplete).
THEOREM ListedStaysIntact == Spec => []ListedIsIntact
  <1>1. IInv => ListedIsIntact
    <2> SUFFICES ASSUME IInv, NEW n \in Nodes, NEW f \in checked \ cut, f \in Files,
                        Writers(f) = {}, NEW e \in Listed(n, f)
                 PROVE  store[StoreOf(e.signer)][f] = e.sum
      BY DEF ListedIsIntact, Listed, OfFile, IInv, TypeInv, FileTypes, Events
    <2>1. e \in events[n] /\ e.file = f /\ e.sum # "removed"
      BY DEF Listed, OfFile
    <2>2. e.signer \in Nodes
      BY <2>1 DEF IInv, TypeInv, FileTypes, Events
    <2>3. e.sum = "all" /\ store[StoreOf(e.signer)][f] # "none"
      BY <2>1 DEF IInv, HashInv, Whole, Sums
    <2>4. StoreOf(e.signer) \in Places
      BY <2>2, StorePlaces DEF IInv
    <2>5. store[StoreOf(e.signer)][f] # "part"
      BY <2>4 DEF IInv, BytesInv
    <2>6. store[StoreOf(e.signer)][f] \in Sums \cup {"none"}
      BY <2>4 DEF IInv, TypeInv, FileTypes
    <2> QED
      BY <2>3, <2>5, <2>6 DEF Sums
  <1> QED
    BY <1>1, Invariance, PTL

\* With the bucket, every node can open and verify what it lists
\* (docs/SDD-13-isolated-network-single-entrypoint-and-s3.md).
THEOREM OpensAtEveryNode == Spec => []OpensEverywhere
  <1>1. IInv => OpensEverywhere
    <2> SUFFICES ASSUME IInv, bucket, NEW n \in Nodes, NEW f \in Files, NEW e \in Listed(n, f)
                 PROVE  store[StoreOf(n)][f] = e.sum
      BY DEF OpensEverywhere
    <2>1. e \in events[n] /\ e.file = f /\ e.sum # "removed"
      BY DEF Listed, OfFile
    <2>2. StoreOf(n) = "bucket" /\ StoreOf(e.signer) = "bucket" /\ "bucket" \in Places
      BY DEF StoreOf, Places
    <2>3. e.sum = "all" /\ store["bucket"][f] # "none"
      BY <2>1, <2>2 DEF IInv, HashInv, Whole, Sums
    <2>4. store["bucket"][f] # "part" /\ store["bucket"][f] \in Sums \cup {"none"}
      BY <2>2 DEF IInv, BytesInv, TypeInv, FileTypes
    <2> QED
      BY <2>2, <2>3, <2>4 DEF Sums
  <1> QED
    BY <1>1, Invariance, PTL

\* A hook whose revocation was answered is told of no later event, over restarts
\* and saves that fail (webhookRevoke, emitWebhookEvent, loadWebhooks).
THEOREM RevokedStayQuiet == Spec => []RevokedHooksAreQuiet
  <1>1. IInv => RevokedHooksAreQuiet
    BY DEF IInv
  <1> QED
    BY <1>1, Invariance, PTL

=============================================================================
