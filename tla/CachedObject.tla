---------------------------- MODULE CachedObject ----------------------------
(***************************************************************************)
(* One custom resource in the API server, and the informer cache through   *)
(* which a controller reads it.  The manager built in cmd/main.go gives    *)
(* every reconciler a client that writes to the API server and reads from  *)
(* an informer cache, so a read may return a version that has since been   *)
(* overwritten - by somebody else or by the reader itself.  Versions       *)
(* arrive in the order they were written and none is skipped.              *)
(*                                                                         *)
(* The API server and client-go are not part of the repository: this       *)
(* module is how the code in src/ uses them.                               *)
(***************************************************************************)
EXTENDS Naturals, Sequences

CONSTANTS
    NoObject,   \* what stands for "no such object" in server, feed and cache
    MaxLag      \* bound: how many versions the cache may be behind

ASSUME MaxLagAssumption == MaxLag \in Nat \ {0}

VARIABLES
    server,     \* the object as stored, or NoObject
    feed,       \* the watch events that the cache has not received yet
    cache       \* the object as the controller's client returns it

objectVars == <<server, feed, cache>>

CachedObjectInit ==
    /\ server = NoObject
    /\ feed = <<>>
    /\ cache = NoObject

\* Store obj.  A write that changes nothing makes no new version.
Write(obj) ==
    \/ /\ obj = server
       /\ UNCHANGED <<server, feed>>
    \/ /\ obj # server
       /\ Len(feed) < MaxLag
       /\ server' = obj
       /\ feed' = Append(feed, obj)

\* The cache receives the next version.
ReceiveEvent ==
    /\ feed # <<>>
    /\ cache' = Head(feed)
    /\ feed' = Tail(feed)
    /\ UNCHANGED server

\* A restarted controller lists the objects before it reconciles anything.
Relist ==
    /\ cache' = server
    /\ feed' = <<>>
    /\ UNCHANGED server

\* The newest version that was sent to the cache is the stored one.
CacheFollowsServer ==
    /\ feed = <<>> => cache = server
    /\ feed # <<>> => feed[Len(feed)] = server
=============================================================================
