--------------------------- MODULE MvccRefinement ---------------------------
(***************************************************************************)
(* The engine implements the abstract store.  A transaction commits when   *)
(* its COMMIT record is synced (it still holds its locks, so its versions  *)
(* are the last of their chains), is published when its slot is removed    *)
(* and aborts when rollback releases its locks.  The committed history of  *)
(* a key is its chain without the versions of uncommitted transactions.    *)
(***************************************************************************)
EXTENDS MvccEngine

StatusOf(t) ==
  IF t >= next_txid THEN "new"
  ELSE IF t \notin active THEN "published"
  ELSE IF t \in logged THEN "committed"
  ELSE IF t \in rolledBack \/ pc[t] = "unwound" THEN "aborted"
  ELSE "open"

\* Of the versions of s, those of the given writers, in their order.
VersionsUpTo(s, writers) ==
  LET Kept[n \in 0 .. Len(s)] ==
        IF n = 0 THEN << >>
        ELSE IF s[n].txn \in writers THEN Append(Kept[n - 1], s[n])
        ELSE Kept[n - 1]
  IN  Kept

VersionsBy(s, writers) == VersionsUpTo(s, writers)[Len(s)]

Store == INSTANCE MvccStore WITH
  status  <- [t \in Txns |-> StatusOf(t)],
  hist    <- [k \in Keys |-> VersionsBy(chain[k], logged)],
  pending <- [t \in Txns |-> [k \in Keys |->
                IF StatusOf(t) = "open" THEN VersionsBy(chain[k], {t}) ELSE << >>]]

\* The engine's steps are steps of the abstract store: writes reach the
\* committed history in one piece, in the order of the COMMIT records, and
\* every committed transaction is published (garry_storage_commit).
ImplementsStore == Store!Spec

\* garry_storage_get answers as the abstract store does: a transaction sees
\* its own last write, else the newest published one it may see.  (A thread
\* reads between its other calls.)
ReadsAgree ==
  \A t \in Txns, k \in Keys :
     IsActive(t) /\ pc[t] = "idle" => Read(t, k) = Store!StoreRead(t, k)
=============================================================================
