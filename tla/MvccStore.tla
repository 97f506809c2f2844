----------------------------- MODULE MvccStore -----------------------------
(***************************************************************************)
(* What the transactional core promises, without locks, slots or chains:   *)
(* transactions collect writes of their own; a commit appends all of them  *)
(* to the committed history of their keys in one step; a committed         *)
(* transaction becomes readable in a later step, in one piece; an aborted  *)
(* one leaves no trace.  A transaction may write a key only while no other *)
(* open transaction has a pending write on it.                             *)
(***************************************************************************)
EXTENDS Integers, Sequences

CONSTANTS Keys, Txns, Values, Tombstone, NotFound

VARIABLES status,    \* per transaction
          hist,      \* per key, the committed writes in commit order
          pending    \* per transaction and key, its own uncommitted writes

storeVars == <<status, hist, pending>>

Statuses == {"new", "open", "committed", "published", "aborted"}

NoWrites == [k \in Keys |-> << >>]

Init ==
  /\ status = [t \in Txns |-> "new"]
  /\ hist = [k \in Keys |-> << >>]
  /\ pending = [t \in Txns |-> NoWrites]

Begin(t) ==
  /\ status[t] = "new"
  /\ status' = [status EXCEPT ![t] = "open"]
  /\ UNCHANGED <<hist, pending>>

Put(t, k, v) ==
  /\ status[t] = "open"
  /\ \A u \in Txns \ {t} : pending[u][k] = << >>
  /\ pending' = [pending EXCEPT ![t][k] = Append(@, [txn |-> t, val |-> v])]
  /\ UNCHANGED <<status, hist>>

Commit(t) ==
  /\ status[t] = "open"
  /\ status' = [status EXCEPT ![t] = "committed"]
  /\ hist' = [k \in Keys |-> hist[k] \o pending[t][k]]
  /\ pending' = [pending EXCEPT ![t] = NoWrites]

Publish(t) ==
  /\ status[t] = "committed"
  /\ status' = [status EXCEPT ![t] = "published"]
  /\ UNCHANGED <<hist, pending>>

Abort(t) ==
  /\ status[t] = "open"
  /\ status' = [status EXCEPT ![t] = "aborted"]
  /\ pending' = [pending EXCEPT ![t] = NoWrites]
  /\ UNCHANGED hist

Next ==
  \E t \in Txns :
     \/ Begin(t)
     \/ \E k \in Keys, v \in Values \union {Tombstone} : Put(t, k, v)
     \/ Commit(t)
     \/ Publish(t)
     \/ Abort(t)

\* A committed transaction does become readable.
Spec == Init /\ [][Next]_storeVars /\ \A t \in Txns : WF_storeVars(Publish(t))

-----------------------------------------------------------------------------
\* What transaction t reads: its own last write, else the last committed
\* write of a published transaction that is not newer than t.
Shown(v) == IF v = Tombstone THEN NotFound ELSE v

Readable(t, k) ==
  {i \in 1 .. Len(hist[k]) :
     hist[k][i].txn <= t /\ status[hist[k][i].txn] = "published"}

StoreRead(t, k) ==
  LET own == pending[t][k]
      S   == Readable(t, k)
  IN  IF own # << >> THEN Shown(own[Len(own)].val)
      ELSE IF S = {} THEN NotFound
      ELSE Shown(hist[k][CHOOSE i \in S : \A j \in S : j <= i].val)
=============================================================================
