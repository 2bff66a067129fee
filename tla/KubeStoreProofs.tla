-------------------------- MODULE KubeStoreProofs --------------------------
(***************************************************************************)
(* What the operations of KubeStore do to a window of versions.            *)
(***************************************************************************)
EXTENDS KubeStore, SequenceTheorems, TLAPS

\* The two ends of a window, which client.Get reads and Status().Patch
\* changes, are versions of it.
LEMMA EndsOfWindow ==
  ASSUME NEW S, NEW window \in Seq(S), Len(window) >= 1
  PROVE  /\ Latest(window) \in S /\ Latest(window) = window[Len(window)]
         /\ Len(window) \in DOMAIN window
         /\ Cached(window) \in S /\ Cached(window) = window[1]
         /\ 1 \in DOMAIN window
         /\ \A p \in DOMAIN window : window[p] \in S
  BY DEF Latest, Cached

\* Put, every write to the API server, keeps the cached version and makes v
\* the latest; the window holds the versions it held and v.
LEMMA PutWindow ==
  ASSUME NEW S, NEW window \in Seq(S), Len(window) >= 1, NEW v \in S
  PROVE  /\ Put(window, v) \in Seq(S) /\ Len(Put(window, v)) >= 1
         /\ Latest(Put(window, v)) = v
         /\ Cached(Put(window, v)) = Cached(window)
         /\ \A p \in DOMAIN Put(window, v) :
              Put(window, v)[p] = v \/ \E q \in DOMAIN window :
                                          Put(window, v)[p] = window[q]
<1>1. CASE v = Latest(window)
  BY <1>1 DEF Put, Latest
<1>2. CASE v # Latest(window)
  BY <1>2 DEF Put, Latest, Cached
<1>. QED
  BY <1>1, <1>2

\* A version that a write has not made was at the same place before, and so
\* were those older than it.
LEMMA PutOrder ==
  ASSUME NEW S, NEW window \in Seq(S), Len(window) >= 1, NEW v \in S,
         NEW p \in DOMAIN Put(window, v), NEW q \in DOMAIN Put(window, v),
         p <= q, Put(window, v)[q] # v
  PROVE  /\ p \in DOMAIN window /\ Put(window, v)[p] = window[p]
         /\ q \in DOMAIN window /\ Put(window, v)[q] = window[q]
<1>1. CASE v = Latest(window)
  BY <1>1 DEF Put
<1>2. CASE v # Latest(window)
  BY <1>2 DEF Put
<1>. QED
  BY <1>1, <1>2

\* Tail, a delivered watch event, drops the cached version only.
LEMMA TailWindow ==
  ASSUME NEW S, NEW window \in Seq(S), Len(window) >= 2
  PROVE  /\ Tail(window) \in Seq(S) /\ Len(Tail(window)) >= 1
         /\ Latest(Tail(window)) = Latest(window)
         /\ Cached(Tail(window)) = window[2]
         /\ 2 \in DOMAIN window
         /\ \A p \in DOMAIN Tail(window) : \E q \in DOMAIN window :
              Tail(window)[p] = window[q]
         /\ \A p \in DOMAIN Tail(window) :
              p + 1 \in DOMAIN window /\ Tail(window)[p] = window[p + 1]
<1>1. Tail(window) \in Seq(S) /\ Len(Tail(window)) >= 1
  OBVIOUS
<1>2. Latest(Tail(window)) = Latest(window) /\ Cached(Tail(window)) = window[2]
  BY DEF Latest, Cached
<1>3. ASSUME NEW p \in DOMAIN Tail(window)
      PROVE  p + 1 \in DOMAIN window /\ Tail(window)[p] = window[p + 1]
  OBVIOUS
<1>. QED
  BY <1>1, <1>2, <1>3

\* A relist keeps the latest version only.
LEMMA RelistWindow ==
  ASSUME NEW S, NEW window \in Seq(S), Len(window) >= 1
  PROVE  /\ Relist(window) \in Seq(S) /\ Len(Relist(window)) >= 1
         /\ Latest(Relist(window)) = Latest(window)
         /\ Cached(Relist(window)) = Latest(window)
         /\ \A p \in DOMAIN Relist(window) : Relist(window)[p] = Latest(window)
  BY DEF Relist, Latest, Cached
=============================================================================
