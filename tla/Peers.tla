-------------------------------- MODULE Peers --------------------------------
(***************************************************************************)
(* Which peers a node pulls from: the sync loop of one node with its       *)
(* back-off per peer, the discovery of peers of peers, and the prune that  *)
(* ends every pass (syncLoop, refreshDiscoveredPeers, pruneDiscoveredPeers *)
(* and their helpers in cmd/node/main.go).                                 *)
(*                                                                         *)
(* Peers go down and come up, the operator changes the trust list, and     *)
(* time passes, all at any point of a pass.  What a pull brings is         *)
(* SyncCluster's matter; here it succeeds if the peer is up.  Times are    *)
(* kept as ages, counted in seconds up to where they tell no more.         *)
(***************************************************************************)
EXTENDS Integers, FiniteSets

CONSTANTS Urls,      \* normalised base URLs
          Static,    \* syncServer.peers, from the command line
          NodeOf,    \* the node that answers at a URL
          Lists,     \* what an up node answers to /sync/peers: its peers and its own URL
          Fickle,    \* nodes the operator trusts and revokes at will
          DiscoveryTtl,  \* 45 seconds in the code
          MaxShift,  \* the longest back-off is 2^MaxShift seconds: 6 in the code
          MaxPass    \* bound: seconds a pass takes

ASSUME UrlsAssumption == /\ Static \subseteq Urls
                         /\ Lists \in [Urls -> SUBSET Urls]
                         /\ DOMAIN NodeOf = Urls
ASSUME TimesAssumption == {DiscoveryTtl, MaxShift, MaxPass} \subseteq Nat

VARIABLES
  up,        \* URLs that answer
  trusted,   \* nodes on the trust list
  found,     \* URLs in discoveredPeers
  age,       \* seconds since the time discoveredPeers holds for a URL
  nodeAt,    \* peerNodeByURL
  failures,  \* peerSync: ConsecutiveFailures
  wait,      \* peerSync: seconds until BackoffUntilUnix
  doing,     \* what the loop does: sleep, pull, refresh, probe, add
  passAge,   \* seconds since tickNow
  todo,      \* peers the pulls, or sources the refresh, have not visited
  cands,     \* URLs the source listed, not yet probed
  cand,      \* the URL found trusted, about to be added
  lapsed     \* nodes revoked since the last prune (history)

world == <<up, trusted, lapsed>>
peerSync == <<failures, wait>>
discovery == <<found, age, nodeAt>>
loop == <<doing, passAge, todo, cands, cand>>
peersVars == <<world, peerSync, discovery, loop>>

Known == {NodeOf[u] : u \in Urls}
NoNode == "none"
NoUrl == "none"
MaxAge == DiscoveryTtl + 1 + MaxPass
Capped(a, max) == IF a > max THEN max ELSE a

PeersInit ==
  /\ up \in SUBSET Urls
  /\ trusted \in {t \in SUBSET Known : Known \ Fickle \subseteq t}
  /\ lapsed = {}
  /\ found = {}
  /\ age = [u \in Urls |-> 0]
  /\ nodeAt = [u \in Urls |-> NoNode]
  /\ failures = [u \in Urls |-> 0]
  /\ wait = [u \in Urls |-> 0]
  /\ doing = "sleep"
  /\ passAge = 0
  /\ todo = {}
  /\ cands = {}
  /\ cand = NoUrl

\* activeSyncPeers
ActiveSyncPeers == Static \cup {u \in found : age[u] =< DiscoveryTtl}

\* The seconds of back-off after the k-th failure in a row.
Delay(k) == 2 ^ Capped(k - 1, MaxShift)

\* removeDiscoveredPeer, and the same three deletions in the prune.
Forget(gone) ==
  /\ found' = found \ gone
  /\ age' = [u \in Urls |-> IF u \in gone THEN 0 ELSE age[u]]
  /\ nodeAt' = [u \in Urls |-> IF u \in gone THEN NoNode ELSE nodeAt[u]]
  /\ failures' = [u \in Urls |-> IF u \in gone THEN 0 ELSE failures[u]]
  /\ wait' = [u \in Urls |-> IF u \in gone THEN 0 ELSE wait[u]]

-----------------------------------------------------------------------------
(* The pulls of a pass *)

\* The ticker fires.
StartPass ==
  /\ doing = "sleep"
  /\ doing' = "pull"
  /\ passAge' = 0
  /\ todo' = ActiveSyncPeers
  /\ UNCHANGED <<world, peerSync, discovery, cands, cand>>

\* shouldPullPeer says no.
SkipPeer(u) ==
  /\ doing = "pull" /\ u \in todo
  /\ wait[u] > 0
  /\ todo' = todo \ {u}
  /\ UNCHANGED <<world, peerSync, discovery, doing, passAge, cands, cand>>

\* Mutant of Pull: a success leaves the count of failures.
PullNeverForgiving(u) ==
  /\ doing = "pull" /\ u \in todo
  /\ wait[u] = 0
  /\ failures' = [failures EXCEPT ![u] =
                    IF u \in up THEN @ ELSE Capped(@ + 1, MaxShift + 1)]
  /\ wait' = [wait EXCEPT ![u] = IF u \in up THEN 0 ELSE Delay(failures[u] + 1)]
  /\ todo' = todo \ {u}
  /\ UNCHANGED <<world, discovery, doing, passAge, cands, cand>>

\* pullFromPeer and recordPeerPullResult.
Pull(u) ==
  /\ doing = "pull" /\ u \in todo
  /\ wait[u] = 0
  /\ failures' = [failures EXCEPT ![u] =
                    IF u \in up THEN 0 ELSE Capped(@ + 1, MaxShift + 1)]
  /\ wait' = [wait EXCEPT ![u] = IF u \in up THEN 0 ELSE Delay(failures[u] + 1)]
  /\ todo' = todo \ {u}
  /\ UNCHANGED <<world, discovery, doing, passAge, cands, cand>>

-----------------------------------------------------------------------------
(* refreshDiscoveredPeers *)

StartRefresh ==
  /\ doing = "pull" /\ todo = {}
  /\ doing' = "refresh"
  /\ todo' = ActiveSyncPeers
  /\ UNCHANGED <<world, peerSync, discovery, passAge, cands, cand>>

\* The source does not answer, or answers as a node that is not trusted: its
\* list is not read, and in the second case it is removed.
PassOver(u) ==
  /\ doing = "refresh" /\ u \in todo
  /\ todo' = todo \ {u}
  /\ \/ u \notin up /\ UNCHANGED <<discovery, peerSync>>
     \/ u \in up /\ NodeOf[u] \notin trusted /\ Forget({u})
  /\ UNCHANGED <<world, doing, passAge, cands, cand>>

\* Mutant of Source: only the source's own URL is looked at.
SourceAlone(u) ==
  /\ doing = "refresh" /\ u \in todo
  /\ u \in up /\ NodeOf[u] \in trusted
  /\ nodeAt' = [nodeAt EXCEPT ![u] = NodeOf[u]]
  /\ cands' = {}
  /\ todo' = todo \ {u}
  /\ doing' = "probe"
  /\ UNCHANGED <<world, peerSync, found, age, passAge, cand>>

\* A trusted source answers with its list.
Source(u) ==
  /\ doing = "refresh" /\ u \in todo
  /\ u \in up /\ NodeOf[u] \in trusted
  /\ nodeAt' = [nodeAt EXCEPT ![u] = NodeOf[u]]
  /\ cands' = Lists[u] \ {u}
  /\ todo' = todo \ {u}
  /\ doing' = "probe"
  /\ UNCHANGED <<world, peerSync, found, age, passAge, cand>>

\* A candidate does not answer /healthz, or is not trusted and removed.
Reject(c) ==
  /\ doing = "probe" /\ c \in cands
  /\ cands' = cands \ {c}
  /\ \/ c \notin up /\ UNCHANGED <<discovery, peerSync>>
     \/ c \in up /\ NodeOf[c] \notin trusted /\ Forget({c})
  /\ UNCHANGED <<world, doing, passAge, todo, cand>>

\* The candidate answers and is trusted at this moment ...
Probe(c) ==
  /\ doing = "probe" /\ c \in cands
  /\ c \in up /\ NodeOf[c] \in trusted
  /\ cand' = c
  /\ cands' = cands \ {c}
  /\ doing' = "add"
  /\ UNCHANGED <<world, peerSync, discovery, passAge, todo>>

\* ... and is added, seen at the time the pass began.
Add ==
  /\ doing = "add"
  /\ found' = found \cup {cand}
  /\ age' = [age EXCEPT ![cand] = passAge]
  /\ nodeAt' = [nodeAt EXCEPT ![cand] = NodeOf[cand]]
  /\ cand' = NoUrl
  /\ doing' = "probe"
  /\ UNCHANGED <<world, peerSync, passAge, todo, cands>>

NextSource ==
  /\ doing = "probe" /\ cands = {}
  /\ doing' = "refresh"
  /\ UNCHANGED <<world, peerSync, discovery, passAge, todo, cands, cand>>

\* Mutants of Prune: trust is not asked again; age is not asked.
PruneByAge ==
  /\ doing = "refresh" /\ todo = {}
  /\ Forget({u \in found : age[u] - passAge > DiscoveryTtl})
  /\ lapsed' = {}
  /\ doing' = "sleep"
  /\ passAge' = 0
  /\ UNCHANGED <<up, trusted, todo, cands, cand>>

PruneByTrust ==
  /\ doing = "refresh" /\ todo = {}
  /\ Forget({u \in found : nodeAt[u] \notin trusted})
  /\ lapsed' = {}
  /\ doing' = "sleep"
  /\ passAge' = 0
  /\ UNCHANGED <<up, trusted, todo, cands, cand>>

\* pruneDiscoveredPeers, with the time the pass began.
Prune ==
  /\ doing = "refresh" /\ todo = {}
  /\ Forget({u \in found : \/ age[u] - passAge > DiscoveryTtl
                           \/ nodeAt[u] \notin trusted})
  /\ lapsed' = {}
  /\ doing' = "sleep"
  /\ passAge' = 0
  /\ UNCHANGED <<up, trusted, todo, cands, cand>>

-----------------------------------------------------------------------------
(* The rest of the world *)

PassTime ==
  /\ doing # "sleep" => passAge < MaxPass
  /\ passAge' = IF doing = "sleep" THEN 0 ELSE passAge + 1
  /\ age' = [u \in Urls |-> IF u \in found THEN Capped(age[u] + 1, MaxAge) ELSE 0]
  /\ wait' = [u \in Urls |-> IF wait[u] > 0 THEN wait[u] - 1 ELSE 0]
  /\ UNCHANGED <<world, failures, found, nodeAt, doing, todo, cands, cand>>

PeerFails(u) ==
  /\ u \in up /\ up' = up \ {u}
  /\ UNCHANGED <<trusted, lapsed, peerSync, discovery, loop>>

PeerReturns(u) ==
  /\ u \notin up /\ up' = up \cup {u}
  /\ UNCHANGED <<trusted, lapsed, peerSync, discovery, loop>>

Distrust(n) ==
  /\ n \in trusted /\ trusted' = trusted \ {n}
  /\ lapsed' = lapsed \cup {n}
  /\ UNCHANGED <<up, peerSync, discovery, loop>>

TrustNode(n) ==
  /\ n \notin trusted /\ trusted' = trusted \cup {n}
  /\ UNCHANGED <<up, lapsed, peerSync, discovery, loop>>

SyncLoop ==
  \/ StartPass \/ StartRefresh \/ Add \/ NextSource \/ Prune
  \/ \E u \in Urls : \/ SkipPeer(u) \/ Pull(u)
                     \/ PassOver(u) \/ Source(u) \/ Reject(u) \/ Probe(u)

PeersNext ==
  \/ SyncLoop
  \/ PassTime
  \/ \E u \in Urls : PeerFails(u) \/ PeerReturns(u)
  \/ \E n \in Fickle : Distrust(n) \/ TrustNode(n)

PeersSpec == PeersInit /\ [][PeersNext]_peersVars

\* The goroutine runs and the clock does not stop.
FairSpec == PeersSpec /\ WF_peersVars(SyncLoop) /\ WF_peersVars(PassTime)

-----------------------------------------------------------------------------
(* Properties *)

\* Between passes the node keeps no discovered peer whose node was revoked before
\* the last prune, although the node may be revoked between the look at the trust
\* list and the addition (TECH-DEBT TD-004: prune with revocation checks).
RevokedPeersAreDropped ==
  doing = "sleep" => \A u \in found : nodeAt[u] \in trusted \cup lapsed

\* A peer that is gone for good leaves the discovered peers, although the other
\* peers go on listing it.
DeadPeersAreForgotten ==
  \A u \in Urls : <>[](u \notin up) => <>[](u \notin found)

\* Both URLs answer, as nodes that are trusted.
BothStay(u, v) == /\ {u, v} \subseteq up
                  /\ {NodeOf[u], NodeOf[v]} \subseteq trusted

\* A peer of a static peer is found and kept, once both stay up and trusted.
PeersAreFound ==
  \A u \in Static, v \in Urls \ Static :
    v \in Lists[u] => (<>[]BothStay(u, v) => <>[](v \in found))

\* However long a static peer was away, the back-off lets the node pull from it
\* again once it stays up.
ReturnedPeersArePulled ==
  \A u \in Static : <>[](u \in up) => <>[](failures[u] = 0)

=============================================================================
