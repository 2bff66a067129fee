----------------------------- MODULE KubeStore -----------------------------
(***************************************************************************)
(* What Rufio's controllers see of the Kubernetes API server through the   *)
(* controller-runtime client: writes go straight to the server, reads are  *)
(* served from an informer cache that a watch brings up to date later.     *)
(*                                                                         *)
(* For each kind of object a window <<v1, ..., vn>> holds the version in   *)
(* the cache (the first) and every later one, up to the one the server     *)
(* holds (the last).  Delivering a watch event drops the first.            *)
(***************************************************************************)
EXTENDS Integers, Sequences

\* client.Get and client.List: what the cache holds.
Cached(window) == Head(window)

\* What the API server holds.
Latest(window) == window[Len(window)]

\* The number of watch events not yet delivered.
Lag(window) == Len(window) - 1

\* The server accepts version v.  A write that changes nothing keeps the
\* resource version and sends no event.
Put(window, v) == IF v = Latest(window) THEN window ELSE Append(window, v)

\* A restarted manager lists every object before its first reconciliation.
Relist(window) == <<Latest(window)>>

\* One field of client.MergeFrom(base): the patch carries the field only if
\* the reconciler changed it, and then overwrites whatever the server holds.
\* (A list, such as status.conditions, is one field: it is replaced whole.)
Merge(base, new, current) == IF new = base THEN current ELSE new
=============================================================================
