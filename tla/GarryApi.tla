------------------------------ MODULE GarryApi ------------------------------
(***************************************************************************)
(* The public C interface (src/src/garry_api.c) as the language wrappers   *)
(* meet it.  A call is a function from the database's record to its next   *)
(* record, so that a wrapper method that makes several calls is their      *)
(* composition.                                                            *)
(*                                                                         *)
(* Of the engine the record keeps what decides the outcome of a call: the  *)
(* transaction list, the lock of the one key every client here writes, and *)
(* which records are in the log.  MvccEngine and Durability model what     *)
(* happens to the data; here a call of the engine is one step.             *)
(*                                                                         *)
(* A handle is the number of the garry_database it points to, and 0 is     *)
(* NULL.  garry_database_close frees it, and a wrapper object that keeps   *)
(* the number may call with it afterwards: the code reads freed memory,    *)
(* and the model notes it in "freed" and goes no further.                  *)
(***************************************************************************)
EXTENDS Integers, FiniteSets

CONSTANTS max_txns,   \* engine setting: open transactions at a time
          list_cap    \* length of the active list (max_txns * 64)

ASSUME ApiAssumption == max_txns \in Nat /\ list_cap \in Nat /\ max_txns <= list_cap

(* What becomes of a write: it succeeds, its arguments are refused (an     *)
(* empty or too long key), or, with the key's lock taken, it fails before  *)
(* the log has a record of it (no page for the key's chain) or after (the  *)
(* chain page is full).                                                    *)
Outcomes == {"ok", "invalid", "early", "late"}

NewDatabase ==
  [live |-> 1,           \* the handle in use, 0 when there is none
   made |-> 1,           \* handles made so far
   next_txid |-> 1,
   active |-> {},        \* the active list
   rolledBack |-> {},    \* its entries in state GARRY_TXN_ROLLED_BACK
   holder |-> 0,         \* the transaction that holds the key's lock
   logged |-> {},        \* transactions with an UPDATE or DELETE record
   committed |-> {},     \* transactions with a COMMIT record
   aborted |-> {},       \* transactions with an ABORT record
   revived |-> {},       \* those whose COMMIT record follows an ABORT
   freed |-> {}]         \* uses of freed memory, by kind

\* What every call does first: nothing with NULL, the call with a handle.
Call(d, h, called) ==
  IF h = 0 THEN d
  ELSE IF h = d.live THEN called
  ELSE [d EXCEPT !.freed = @ \union {"handle"}]

IsActive(d, t) == t \in d.active /\ t \notin d.rolledBack

BeginAllowed(d) ==
  /\ Cardinality(d.active \ d.rolledBack) < max_txns
  /\ Cardinality(d.active) < list_cap

\* The id garry_txn_begin returns: -1 with NULL or when the list is full.
BegunId(d, h) == IF h # 0 /\ h = d.live /\ BeginAllowed(d) THEN d.next_txid ELSE -1

garry_txn_begin(d, h) ==
  Call(d, h, IF BeginAllowed(d)
             THEN [d EXCEPT !.next_txid = @ + 1, !.active = @ \union {d.next_txid}]
             ELSE d)

\* Transactions are ended by id, and -1, what a failed begin left in the
\* caller's variable, is the id of none.
Ids(t) == {t} \ {-1}

Unlocked(d, t) == IF d.holder = t THEN 0 ELSE d.holder

\* Neither end looks at the transaction's state: the record is logged and
\* the locks go, and commit takes any entry, also a rolled-back one, off the
\* list.
garry_txn_commit(d, h, t) ==
  Call(d, h, [d EXCEPT !.committed = @ \union Ids(t),
                       !.revived = @ \union ({t} \intersect (d.aborted \ d.committed)),
                       !.holder = Unlocked(d, t),
                       !.active = @ \ {t},
                       !.rolledBack = @ \ {t}])

garry_txn_rollback(d, h, t) ==
  Call(d, h, [d EXCEPT !.aborted = @ \union Ids(t),
                       !.holder = Unlocked(d, t),
                       !.rolledBack = IF t \in d.active THEN @ \union {t} ELSE @])

\* garry_get, garry_data, garry_exists and the other reads change nothing.
ReadCall(d, h) == Call(d, h, d)

ReadStatus(d, h, t, found) ==
  IF h = 0 \/ ~IsActive(d, t) THEN "INVALID_ARG"
  ELSE IF found THEN "OK" ELSE "NOT_FOUND"

Admitted(d, h, t) == h # 0 /\ h = d.live /\ IsActive(d, t) /\ d.holder \in {0, t}

\* garry_set and garry_delete differ in the record they log and in the
\* status they report, which says INVALID_ARG or NOT_FOUND for any failure.
WriteCall(d, h, t, outcome) ==
  Call(d, h, IF Admitted(d, h, t) /\ outcome # "invalid"
             THEN [d EXCEPT !.holder = t,
                            !.logged = IF outcome = "early" THEN @ ELSE @ \union {t}]
             ELSE d)

SetStatus(d, h, t, outcome) ==
  IF Admitted(d, h, t) /\ outcome = "ok" THEN "OK" ELSE "INVALID_ARG"

DeleteStatus(d, h, t, outcome) ==
  IF h = 0 THEN "INVALID_ARG"
  ELSE IF Admitted(d, h, t) /\ outcome = "ok" THEN "OK" ELSE "NOT_FOUND"

\* A cursor keeps the engine it was opened on; its next step follows it.
CursorCall(d, h) == IF h = d.live THEN d ELSE [d EXCEPT !.freed = @ \union {"cursor"}]

garry_database_close(d, h) ==
  Call(d, h, [d EXCEPT !.live = 0, !.active = {}, !.rolledBack = {}, !.holder = 0])

\* Opening again: a new handle and an empty list; next_txid goes on, from
\* the header that close wrote.
garry_database_open(d) == [d EXCEPT !.live = d.made + 1, !.made = @ + 1]
=============================================================================
