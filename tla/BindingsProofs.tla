--------------------------- MODULE BindingsProofs ---------------------------
(***************************************************************************)
(* Proofs about Bindings, for every set of object slots and every bound.   *)
(*                                                                         *)
(* What a call of the C interface does to the database is stated once, as  *)
(* a relation between the records before and after it; every method of     *)
(* every wrapper is then one of a few shapes (a single-call method, a new  *)
(* object, a step of an object, a close, a step of the Godot node), and    *)
(* the invariant is shown for each shape.                                  *)
(***************************************************************************)
EXTENDS Bindings, FiniteSetTheorems, TLAPS

TxnIds == Nat \union {-1}

Uses == {"handle", "cursor"}

IdSets == SUBSET Nat

Databases ==
  [live : Nat, made : Nat, next_txid : Nat, active : IdSets, rolledBack : IdSets,
   holder : Nat, logged : IdSets, committed : IdSets, aborted : IdSets,
   revived : IdSets, freed : SUBSET Uses]

-----------------------------------------------------------------------------
(* The calls, as relations between two databases.                          *)

SameHandles(d, e) == e.live = d.live /\ e.made = d.made
SameLog(d, e) ==
  e.logged = d.logged /\ e.committed = d.committed /\ e.aborted = d.aborted /\ e.revived = d.revived

\* Nothing but the note of a use of freed memory has changed.
Unmoved(d, e) ==
  /\ SameHandles(d, e) /\ SameLog(d, e)
  /\ e.next_txid = d.next_txid /\ e.active = d.active /\ e.rolledBack = d.rolledBack
  /\ e.holder = d.holder

Began(d, e, t) ==
  /\ SameHandles(d, e) /\ SameLog(d, e) /\ e.freed = d.freed
  /\ t = d.next_txid /\ e.next_txid = t + 1 /\ e.active = d.active \union {t}
  /\ e.rolledBack = d.rolledBack /\ e.holder = d.holder

Wrote(d, e, t) ==
  /\ SameHandles(d, e) /\ e.freed = d.freed
  /\ e.committed = d.committed /\ e.aborted = d.aborted /\ e.revived = d.revived
  /\ e.next_txid = d.next_txid /\ e.active = d.active /\ e.rolledBack = d.rolledBack
  /\ t \in d.active /\ t \notin d.rolledBack /\ d.holder \in {0, t} /\ e.holder = t
  /\ e.logged \in {d.logged, d.logged \union {t}}

CommittedIn(d, e, t) ==
  /\ SameHandles(d, e) /\ e.freed = d.freed
  /\ e.committed = d.committed \union Ids(t) /\ e.logged = d.logged /\ e.aborted = d.aborted
  /\ e.revived = d.revived \union ({t} \intersect (d.aborted \ d.committed))
  /\ e.next_txid = d.next_txid /\ e.active = d.active \ {t} /\ e.rolledBack = d.rolledBack \ {t}
  /\ e.holder = Unlocked(d, t)

RolledBackIn(d, e, t) ==
  /\ SameHandles(d, e) /\ e.freed = d.freed
  /\ e.aborted = d.aborted \union Ids(t) /\ e.logged = d.logged /\ e.committed = d.committed
  /\ e.revived = d.revived
  /\ e.next_txid = d.next_txid /\ e.active = d.active
  /\ e.rolledBack = IF t \in d.active THEN d.rolledBack \union {t} ELSE d.rolledBack
  /\ e.holder = Unlocked(d, t)

ClosedIn(d, e) ==
  /\ e.live = 0 /\ e.made = d.made /\ SameLog(d, e) /\ e.freed = d.freed
  /\ e.next_txid = d.next_txid /\ e.active = {} /\ e.rolledBack = {} /\ e.holder = 0

OpenedIn(d, e) ==
  /\ e.live = d.made + 1 /\ e.made = d.made + 1 /\ SameLog(d, e) /\ e.freed = d.freed
  /\ e.next_txid = d.next_txid /\ e.active = d.active /\ e.rolledBack = d.rolledBack
  /\ e.holder = d.holder

\* A call with NULL does nothing, one with a handle that was freed is noted.
Missed(d, h, e) ==
  /\ e \in Databases
  /\ Unmoved(d, e)
  /\ h = 0 => e.freed = d.freed

\* Any call with a handle that is not the live one.
LEMMA CallMisses ==
  ASSUME NEW d \in Databases, NEW h, NEW c, NEW e, e = Call(d, h, c), h = 0 \/ h # d.live
  PROVE  Missed(d, h, e)
<1>1. CASE h = 0
  BY <1>1 DEF Call, Missed, Unmoved, SameHandles, SameLog
<1>2. CASE h # 0
  <2>1. e = [d EXCEPT !.freed = @ \union {"handle"}]
    BY <1>2 DEF Call
  <2>2. e \in Databases
    BY <2>1 DEF Databases, Uses
  <2>3. Unmoved(d, e)
    BY <2>1 DEF Unmoved, SameHandles, SameLog, Databases
  <2> QED
    BY <1>2, <2>2, <2>3 DEF Missed
<1> QED
  BY <1>1, <1>2

\* garry_txn_begin with the live handle or with NULL: an id is handed out,
\* or nothing happens and -1 is returned.
LEMMA BeginDoes ==
  ASSUME NEW d \in Databases, NEW h \in Nat, h = 0 \/ h = d.live,
         NEW e, e = garry_txn_begin(d, h)
  PROVE  /\ e \in Databases
         /\ \/ BegunId(d, h) = -1 /\ e = d
            \/ h # 0 /\ BegunId(d, h) = d.next_txid /\ Began(d, e, d.next_txid)
<1>1. CASE h # 0 /\ BeginAllowed(d)
  <2>1. e = [d EXCEPT !.next_txid = @ + 1, !.active = @ \union {d.next_txid}]
    BY <1>1 DEF garry_txn_begin, Call
  <2>2. e \in Databases
    <3>1. d.next_txid + 1 \in Nat /\ d.active \union {d.next_txid} \in IdSets
      BY DEF Databases, IdSets
    <3> QED
      BY <2>1, <3>1 DEF Databases
  <2>3. Began(d, e, d.next_txid)
    BY <2>1 DEF Began, SameHandles, SameLog, Databases
  <2>4. BegunId(d, h) = d.next_txid
    BY <1>1 DEF BegunId
  <2> QED
    BY <1>1, <2>2, <2>3, <2>4
<1>2. CASE h = 0 \/ ~BeginAllowed(d)
  BY <1>2 DEF garry_txn_begin, Call, BegunId
<1> QED
  BY <1>1, <1>2

\* garry_set and garry_delete with the live handle or with NULL.
LEMMA WriteDoes ==
  ASSUME NEW d \in Databases, NEW h \in Nat, h = 0 \/ h = d.live, NEW t, NEW o,
         NEW e, e = WriteCall(d, h, t, o)
  PROVE  e \in Databases /\ (e = d \/ Wrote(d, e, t))
<1>1. CASE h # 0 /\ Admitted(d, h, t) /\ o # "invalid"
  <2>1. e = [d EXCEPT !.holder = t, !.logged = IF o = "early" THEN @ ELSE @ \union {t}]
    BY <1>1 DEF WriteCall, Call
  <2>2. t \in Nat /\ t \in d.active /\ t \notin d.rolledBack /\ d.holder \in {0, t}
    BY <1>1 DEF Admitted, IsActive, Databases, IdSets
  <2>3. e \in Databases
    <3>1. (IF o = "early" THEN d.logged ELSE d.logged \union {t}) \in IdSets
      BY <2>2 DEF Databases, IdSets
    <3> QED
      BY <2>1, <2>2, <3>1 DEF Databases
  <2>4. Wrote(d, e, t)
    BY <2>1, <2>2 DEF Wrote, SameHandles, Databases
  <2> QED
    BY <2>3, <2>4
<1>2. CASE ~(h # 0 /\ Admitted(d, h, t) /\ o # "invalid")
  BY <1>2 DEF WriteCall, Call
<1> QED
  BY <1>1, <1>2

\* garry_txn_commit with the live handle.
LEMMA CommitDoes ==
  ASSUME NEW d \in Databases, NEW h, h # 0, h = d.live, NEW t \in TxnIds,
         NEW e, e = garry_txn_commit(d, h, t)
  PROVE  e \in Databases /\ CommittedIn(d, e, t)
<1>1. e = [d EXCEPT !.committed = @ \union Ids(t),
                    !.revived = @ \union ({t} \intersect (d.aborted \ d.committed)),
                    !.holder = Unlocked(d, t),
                    !.active = @ \ {t},
                    !.rolledBack = @ \ {t}]
  BY DEF garry_txn_commit, Call
<1>2. /\ d.committed \union Ids(t) \in IdSets /\ Unlocked(d, t) \in Nat
      /\ d.revived \union ({t} \intersect (d.aborted \ d.committed)) \in IdSets
      /\ d.active \ {t} \in IdSets /\ d.rolledBack \ {t} \in IdSets
  BY DEF Ids, TxnIds, Unlocked, Databases, IdSets
<1>3. e \in Databases
  BY <1>1, <1>2 DEF Databases
<1>4. CommittedIn(d, e, t)
  BY <1>1 DEF CommittedIn, SameHandles, Databases
<1> QED
  BY <1>3, <1>4

\* garry_txn_rollback with the live handle.
LEMMA RollbackDoes ==
  ASSUME NEW d \in Databases, NEW h, h # 0, h = d.live, NEW t \in TxnIds,
         NEW e, e = garry_txn_rollback(d, h, t)
  PROVE  e \in Databases /\ RolledBackIn(d, e, t)
<1>1. e = [d EXCEPT !.aborted = @ \union Ids(t),
                    !.holder = Unlocked(d, t),
                    !.rolledBack = IF t \in d.active THEN @ \union {t} ELSE @]
  BY DEF garry_txn_rollback, Call
<1>2. /\ d.aborted \union Ids(t) \in IdSets /\ Unlocked(d, t) \in Nat
      /\ (IF t \in d.active THEN d.rolledBack \union {t} ELSE d.rolledBack) \in IdSets
  BY DEF Ids, TxnIds, Unlocked, Databases, IdSets
<1>3. e \in Databases
  BY <1>1, <1>2 DEF Databases
<1>4. RolledBackIn(d, e, t)
  BY <1>1 DEF RolledBackIn, SameHandles, Databases
<1> QED
  BY <1>3, <1>4

\* garry_database_close with the live handle.
LEMMA CloseDoes ==
  ASSUME NEW d \in Databases, NEW h, h # 0, h = d.live, NEW e, e = garry_database_close(d, h)
  PROVE  e \in Databases /\ ClosedIn(d, e)
<1>1. e = [d EXCEPT !.live = 0, !.active = {}, !.rolledBack = {}, !.holder = 0]
  BY DEF garry_database_close, Call
<1>2. e \in Databases
  <2>1. {} \in IdSets /\ 0 \in Nat
    BY DEF IdSets
  <2> QED
    BY <1>1, <2>1 DEF Databases
<1>3. ClosedIn(d, e)
  BY <1>1 DEF ClosedIn, SameLog, Databases
<1> QED
  BY <1>2, <1>3

\* garry_database_open.
LEMMA OpenDoes ==
  ASSUME NEW d \in Databases, NEW e, e = garry_database_open(d)
  PROVE  e \in Databases /\ OpenedIn(d, e)
<1>1. e \in Databases
  <2>1. d.made + 1 \in Nat
    BY DEF Databases
  <2> QED
    BY <2>1 DEF garry_database_open, Databases
<1>2. OpenedIn(d, e)
  BY DEF garry_database_open, OpenedIn, SameLog, Databases
<1> QED
  BY <1>1, <1>2

-----------------------------------------------------------------------------
(* The invariant.                                                          *)

Objects == [kind : {"none", "txn", "cursor"}, db : Nat, txn : TxnIds, done : BOOLEAN]
DbObjects == [h : Nat, closed : BOOLEAN, txn_handle : TxnIds, txn_active : BOOLEAN]

BType ==
  /\ eng \in Databases
  /\ dbo \in DbObjects
  /\ objs \in [Slots -> Objects]

IsObject(i) == objs[i].kind # "none"

\* Every id in use has been handed out.
Begun ==
  /\ \A u \in eng.active \union eng.logged \union eng.committed \union eng.aborted :
        u < eng.next_txid
  /\ \A i \in Slots : objs[i].txn < eng.next_txid
  /\ dbo.txn_handle < eng.next_txid
  /\ \A f \in failed : f.txn \in Nat /\ f.txn < eng.next_txid
  /\ eng.next_txid # 0

\* A handle in an object is the live one, or there is none: only the
\* database objects of C# and Unity keep theirs when they close it, and that
\* of Go does until its Close ends.
HandlesLive ==
  /\ dbo.h = eng.live \/ (lang \in {"csharp", "unity", "go"} /\ dbo.closed)
  /\ lang = "go" /\ dbo.closed => eng.live = 0
  /\ eng.live # 0 => \A i \in Slots : IsObject(i) => objs[i].db = eng.live
  /\ lang = "godot" => \A i \in Slots : ~IsObject(i)
  /\ lang # "godot" => ~dbo.txn_active

\* The list and the lock of the engine.
Listed ==
  /\ eng.rolledBack \subseteq eng.active
  /\ eng.holder # 0 => eng.holder \in eng.active /\ eng.holder \notin eng.rolledBack
  /\ eng.live = 0 => eng.active = {} /\ eng.holder = 0

\* The object through which the client can end a transaction.  A Go or
\* Delphi cursor has no part in it.
Owner(i) ==
  IsObject(i) /\ ~objs[i].done /\ (lang \in {"go", "delphi"} => objs[i].kind = "txn")

OpenOwned ==
  lang # "rust" =>
    \A u \in eng.active \ eng.rolledBack :
      (dbo.txn_active /\ u = dbo.txn_handle) \/ \E i \in Slots : Owner(i) /\ objs[i].txn = u

\* What the client can still commit has not been rolled back, and no two
\* objects share a transaction.
Unrevived ==
  lang \in {"js", "rust", "godot"} =>
    /\ eng.revived = {}
    /\ dbo.txn_active => dbo.txn_handle \notin eng.aborted
    /\ \A i \in Slots : IsObject(i) =>
         /\ objs[i].done \/ objs[i].txn \notin eng.aborted
         /\ lang = "rust" \/ objs[i].kind = "cursor" => ~objs[i].done
         /\ \A j \in Slots : j # i /\ IsObject(j) /\ objs[j].txn = objs[i].txn => objs[i].txn = -1

\* The wrappers that commit a failed delete.
DeletesAnyway == {"csharp", "unity", "rust", "delphi"}

\* The transaction of a failed single-call write is in nobody's hands.
FailedApart ==
  lang # "godot" =>
    \A f \in failed :
      /\ \A i \in Slots : IsObject(i) => objs[i].txn # f.txn
      /\ f.txn \in eng.committed => f.op = "delete" /\ lang \in DeletesAnyway

\* Only a rollback that was asked for leaves an entry in the list.
AskedFor ==
  lang \in {"godot", "delphi", "go"} => eng.rolledBack \subseteq asked

IBind ==
  /\ BType /\ Begun /\ HandlesLive /\ Listed /\ OpenOwned /\ Unrevived /\ FailedApart /\ AskedFor
  /\ NoFreedHandle

\* A Go method that is in progress has read the live handle, if there is one
\* still; no other wrapper reads it ahead of its call.
GoSeen ==
  /\ seen \in [Slots -> TxnIds]
  /\ \/ \A i \in Slots : seen[i] = NotRead
     \/ lang = "go" /\ \A i \in Slots : eng.live # 0 => seen[i] \in {NotRead, eng.live}

-----------------------------------------------------------------------------
(* The shapes of a step.                                                   *)

Still(d, e) == Unmoved(d, e) /\ e.freed = d.freed

Ends == {"commit", "rollback", "none"}

\* What a single-call method has done when it ended with "end".
AutoEffect(d, e, end) ==
  /\ SameHandles(d, e) /\ e.freed = d.freed /\ e.revived = d.revived
  /\ e.next_txid = d.next_txid + 1
  /\ e.logged \in {d.logged, d.logged \union {d.next_txid}}
  /\ \/ /\ end = "commit"
        /\ e.committed = d.committed \union {d.next_txid} /\ e.aborted = d.aborted
        /\ e.active = d.active /\ e.rolledBack = d.rolledBack /\ e.holder = d.holder
     \/ /\ end = "rollback"
        /\ e.aborted = d.aborted \union {d.next_txid} /\ e.committed = d.committed
        /\ e.active = d.active \union {d.next_txid}
        /\ e.rolledBack = d.rolledBack \union {d.next_txid}
        /\ e.holder = d.holder
     \/ /\ end = "none"
        /\ e.aborted = d.aborted /\ e.committed = d.committed
        /\ e.active = d.active \union {d.next_txid} /\ e.rolledBack = d.rolledBack
        /\ e.holder \in {d.holder, d.next_txid}

\* A single-call method m: only Rust may leave its transaction open, a
\* failed write is committed where FailedWriteStaysOut says so, and Delphi
\* and the Godot node roll back failed writes only.
AutoShape ==
  /\ eng' \in Databases
  /\ UNCHANGED <<lang, dbo, objs>>
  /\ \/ Still(eng, eng') /\ UNCHANGED <<failed, asked>>
     \/ \E m : \E end \in Ends, bad \in BOOLEAN :
          /\ eng.live # 0 /\ AutoEffect(eng, eng', end)
          /\ failed' = IF bad THEN failed \union {[txn |-> eng.next_txid, op |-> m]} ELSE failed
          /\ asked' = IF bad THEN asked \union {eng.next_txid} ELSE asked
          /\ end = "none" => lang = "rust"
          /\ bad /\ end = "commit" => lang = "godot" \/ (m = "delete" /\ lang \in DeletesAnyway)
          /\ lang \in {"godot", "delphi", "go"} /\ end = "rollback" => bad

\* A new transaction or cursor object.
BeginShape(i) ==
  /\ eng' \in Databases
  /\ UNCHANGED <<lang, dbo, failed, asked>>
  /\ Free(i) /\ lang # "godot"
  /\ \E kind \in {"txn", "cursor"}, t \in TxnIds, h \in Nat :
       /\ objs' = [objs EXCEPT ![i] = Object(kind, h, t)]
       /\ eng.live # 0 => h = eng.live
       /\ lang \in {"go", "delphi"} => kind = "txn"
       /\ \/ t = -1 /\ Unmoved(eng, eng')
          \/ t = eng.next_txid /\ eng.live # 0 /\ Began(eng, eng', t)

\* A step of an object: it reads or writes, it commits or rolls back and is
\* done with or thrown away, or it is thrown away without a call.
ObjectEnded(i) ==
  \/ lang # "rust" /\ objs[i].kind = "txn" /\ objs' = [objs EXCEPT ![i] = Done(i)]
  \/ lang \notin {"go", "delphi"} /\ objs' = [objs EXCEPT ![i] = NoObj]

StepShape(i) ==
  /\ eng' \in Databases
  /\ UNCHANGED <<lang, dbo, failed>>
  /\ IsObject(i) /\ lang # "godot"
  /\ \/ /\ objs' = objs /\ asked' = asked
        /\ Unmoved(eng, eng') \/ Wrote(eng, eng', objs[i].txn)
     \/ /\ ObjectEnded(i) /\ asked' = asked
        /\ lang \in {"js", "rust"} => ~objs[i].done
        /\ CommittedIn(eng, eng', objs[i].txn) \/ (eng.live = 0 /\ Unmoved(eng, eng'))
     \/ /\ ObjectEnded(i) /\ asked' = asked \union Ids(objs[i].txn)
        /\ RolledBackIn(eng, eng', objs[i].txn) \/ (eng.live = 0 /\ Unmoved(eng, eng'))
     \/ /\ objs' = [objs EXCEPT ![i] = NoObj] /\ asked' = asked
        /\ objs[i].done \/ lang = "rust" \/ (lang \in {"go", "delphi"} /\ objs[i].kind = "cursor")
        /\ Still(eng, eng')

\* A Go or Delphi cursor, on a transaction that is another object's or that
\* was committed at once.
CursorShape(i) ==
  /\ eng' \in Databases
  /\ UNCHANGED <<lang, dbo, failed, asked>>
  /\ Free(i) /\ lang \in {"go", "delphi"}
  /\ \E t \in TxnIds, h \in Nat :
       /\ objs' = [objs EXCEPT ![i] = Object("cursor", h, t)]
       /\ eng.live # 0 => h = eng.live
       /\ \/ Unmoved(eng, eng') /\ (t = -1 \/ \E j \in Slots : objs[j].kind = "txn" /\ objs[j].txn = t)
          \/ t = eng.next_txid /\ eng.live # 0 /\ AutoEffect(eng, eng', "commit")

\* A close of the database object.
CloseShape ==
  /\ eng' \in Databases
  /\ UNCHANGED <<lang, objs, failed, asked>>
  /\ \E h \in Nat :
       /\ dbo' = [dbo EXCEPT !.h = h, !.closed = TRUE]
       /\ h = 0 \/ lang \in {"csharp", "unity", "go"}
  /\ ClosedIn(eng, eng') \/ (eng.live = 0 /\ Unmoved(eng, eng'))

-----------------------------------------------------------------------------
(* Each shape keeps the invariant.                                         *)

\* A step that leaves database and objects alone.
LEMMA UnmovedKeeps ==
  ASSUME IBind, eng' \in Databases, Unmoved(eng, eng'), NoFreedHandle',
         UNCHANGED <<lang, dbo, objs, failed>>, asked \subseteq asked'
  PROVE  IBind'
<1> USE DEF IBind, Unmoved, SameHandles, SameLog, IsObject
<1>1. BType'
  BY DEF BType
<1>2. Begun'
  BY DEF Begun
<1>3. HandlesLive' /\ Listed'
  BY DEF HandlesLive, Listed
<1>4. OpenOwned'
  BY DEF OpenOwned, Owner
<1>5. Unrevived'
  BY DEF Unrevived
<1>6. FailedApart' /\ AskedFor'
  BY DEF FailedApart, AskedFor
<1> QED
  BY <1>1, <1>2, <1>3, <1>4, <1>5, <1>6

\* The single-call methods.
LEMMA AutoKeeps == ASSUME IBind, AutoShape PROVE IBind'
<1>1. UNCHANGED <<lang, dbo, objs>> /\ eng' \in Databases
  BY DEF AutoShape
<1>2. CASE Still(eng, eng') /\ UNCHANGED <<failed, asked>>
  <2>1. NoFreedHandle'
    BY <1>1, <1>2 DEF IBind, NoFreedHandle, Still
  <2> QED
    BY <1>1, <1>2, <2>1, UnmovedKeeps DEF Still
<1>3. CASE \E m : \E end \in Ends, bad \in BOOLEAN :
          /\ eng.live # 0 /\ AutoEffect(eng, eng', end)
          /\ failed' = IF bad THEN failed \union {[txn |-> eng.next_txid, op |-> m]} ELSE failed
          /\ asked' = IF bad THEN asked \union {eng.next_txid} ELSE asked
          /\ end = "none" => lang = "rust"
          /\ bad /\ end = "commit" => lang = "godot" \/ (m = "delete" /\ lang \in DeletesAnyway)
          /\ lang \in {"godot", "delphi", "go"} /\ end = "rollback" => bad
  <2> PICK m : \E end \in Ends, bad \in BOOLEAN :
          /\ eng.live # 0 /\ AutoEffect(eng, eng', end)
          /\ failed' = IF bad THEN failed \union {[txn |-> eng.next_txid, op |-> m]} ELSE failed
          /\ asked' = IF bad THEN asked \union {eng.next_txid} ELSE asked
          /\ end = "none" => lang = "rust"
          /\ bad /\ end = "commit" => lang = "godot" \/ (m = "delete" /\ lang \in DeletesAnyway)
          /\ lang \in {"godot", "delphi", "go"} /\ end = "rollback" => bad
    BY <1>3
  <2> PICK end \in Ends, bad \in BOOLEAN :
          /\ eng.live # 0 /\ AutoEffect(eng, eng', end)
          /\ failed' = IF bad THEN failed \union {[txn |-> eng.next_txid, op |-> m]} ELSE failed
          /\ asked' = IF bad THEN asked \union {eng.next_txid} ELSE asked
          /\ end = "none" => lang = "rust"
          /\ bad /\ end = "commit" => lang = "godot" \/ (m = "delete" /\ lang \in DeletesAnyway)
          /\ lang \in {"godot", "delphi", "go"} /\ end = "rollback" => bad
    OBVIOUS
  <2> DEFINE t == eng.next_txid
             f0 == [txn |-> t, op |-> m]
  <2>1. /\ t \in Nat /\ t # 0 /\ eng \in Databases
        /\ \A u \in eng.active \union eng.logged \union eng.committed \union eng.aborted :
             u \in Nat /\ u < t
        /\ \A i \in Slots : objs[i].txn < t /\ objs[i].txn \in Int
        /\ \A f \in failed : f.txn \in Nat /\ f.txn < t
        /\ dbo.txn_handle < t /\ dbo.txn_handle \in Int
    BY DEF IBind, BType, Begun, Databases, IdSets, Objects, DbObjects, TxnIds
  <2>2. f0.txn = t /\ f0.op = m /\ failed' \subseteq failed \union {f0}
    OBVIOUS
  <2> HIDE DEF f0
  <2>3. BType'
    BY <1>1 DEF IBind, BType
  <2>4. Begun'
    <3>1. eng'.next_txid = t + 1
      BY DEF AutoEffect
    <3>2. eng'.active \union eng'.logged \union eng'.committed \union eng'.aborted
            \subseteq (eng.active \union eng.logged \union eng.committed \union eng.aborted) \union {t}
      BY DEF AutoEffect
    <3> HIDE DEF t
    <3> QED
      BY <1>1, <2>1, <2>2, <3>1, <3>2 DEF Begun
  <2>5. HandlesLive'
    BY <1>1 DEF IBind, HandlesLive, AutoEffect, SameHandles, IsObject
  <2>6. Listed'
    BY <1>1, <2>1 DEF IBind, Listed, AutoEffect, SameHandles
  <2>7. OpenOwned'
    <3> SUFFICES ASSUME lang # "rust", NEW u \in eng'.active \ eng'.rolledBack
                 PROVE (dbo.txn_active /\ u = dbo.txn_handle) \/ \E i \in Slots : Owner(i) /\ objs[i].txn = u
      BY <1>1 DEF OpenOwned, Owner, IsObject
    <3>1. u \in eng.active \ eng.rolledBack
      BY DEF AutoEffect
    <3> QED
      BY <3>1 DEF IBind, OpenOwned
  <2>8. Unrevived'
    <3>1. eng'.revived = eng.revived /\ eng'.aborted \subseteq eng.aborted \union {t}
      BY DEF AutoEffect
    <3> HIDE DEF t
    <3> QED
      BY <1>1, <2>1, <3>1 DEF IBind, Unrevived, IsObject
  <2>9. FailedApart'
    <3> SUFFICES ASSUME lang # "godot", NEW f \in failed'
                 PROVE  /\ \A i \in Slots : IsObject(i) => objs[i].txn # f.txn
                        /\ f.txn \in eng'.committed => f.op = "delete" /\ lang \in DeletesAnyway
      BY <1>1 DEF FailedApart, IsObject
    <3>1. CASE f \in failed
      BY <2>1, <3>1 DEF IBind, FailedApart, AutoEffect
    <3>2. CASE f = f0 /\ bad
      <4>1. f0.txn \notin eng.committed
        BY <2>1, <2>2
      <4> QED
        BY <2>1, <2>2, <3>2, <4>1 DEF AutoEffect
    <3> QED
      BY <3>1, <3>2 DEF f0
  <2>10. AskedFor'
    BY <1>1 DEF IBind, AskedFor, AutoEffect
  <2>11. NoFreedHandle'
    BY <1>1 DEF IBind, NoFreedHandle, AutoEffect
  <2> QED
    BY <2>3, <2>4, <2>5, <2>6, <2>7, <2>8, <2>9, <2>10, <2>11 DEF IBind
<1> QED
  BY <1>2, <1>3 DEF AutoShape

\* A slot that takes a new object held none, or one that is done with.
LEMMA FreeIsNoOwner ==
  ASSUME NEW i \in Slots, Free(i)
  PROVE  ~Owner(i)
BY DEF Free, Owner, IsObject

\* What a new object in slot i means for the others.
LEMMA NewObject ==
  ASSUME BType, NEW i \in Slots, NEW kind \in {"txn", "cursor"}, NEW t \in TxnIds,
         NEW h \in Nat, objs' = [objs EXCEPT ![i] = Object(kind, h, t)]
  PROVE  /\ objs' \in [Slots -> Objects]
         /\ \A j \in Slots : j # i => objs'[j] = objs[j]
         /\ objs'[i].kind = kind /\ objs'[i].db = h /\ objs'[i].txn = t /\ objs'[i].done = FALSE
<1>1. Object(kind, h, t) \in Objects
  BY DEF BType, Object, Objects, DbObjects
<1>2. objs' \in [Slots -> Objects] /\ objs'[i] = Object(kind, h, t)
      /\ \A j \in Slots : j # i => objs'[j] = objs[j]
  BY <1>1 DEF BType
<1> QED
  BY <1>2 DEF Object

\* Transaction and cursor objects that begin a transaction.
LEMMA BeginKeeps ==
  ASSUME IBind, NEW i \in Slots, BeginShape(i)
  PROVE  IBind'
<1>1. /\ UNCHANGED <<lang, dbo, failed, asked>> /\ eng' \in Databases
      /\ Free(i) /\ lang # "godot" /\ ~Owner(i)
  BY FreeIsNoOwner DEF BeginShape
<1> PICK kind \in {"txn", "cursor"}, t \in TxnIds, h \in Nat :
       /\ objs' = [objs EXCEPT ![i] = Object(kind, h, t)]
       /\ eng.live # 0 => h = eng.live
       /\ lang \in {"go", "delphi"} => kind = "txn"
       /\ \/ t = -1 /\ Unmoved(eng, eng')
          \/ t = eng.next_txid /\ eng.live # 0 /\ Began(eng, eng', t)
  BY DEF BeginShape
<1>2. /\ objs' \in [Slots -> Objects]
      /\ \A j \in Slots : j # i => objs'[j] = objs[j]
      /\ objs'[i].kind = kind /\ objs'[i].db = h /\ objs'[i].txn = t /\ objs'[i].done = FALSE
  BY NewObject DEF IBind
<1>3. /\ eng.next_txid \in Nat /\ eng.next_txid # 0 /\ eng'.next_txid \in Nat
      /\ eng.next_txid <= eng'.next_txid /\ t < eng'.next_txid
      /\ \A u \in eng.active \union eng.logged \union eng.committed \union eng.aborted :
           u \in Nat /\ u < eng.next_txid
      /\ \A j \in Slots : objs[j].txn < eng.next_txid /\ objs[j].txn \in Int
      /\ \A f \in failed : f.txn \in Nat /\ f.txn < eng.next_txid
      /\ dbo.txn_handle < eng.next_txid /\ dbo.txn_handle \in Int
  <2>1. /\ eng.next_txid \in Nat /\ eng.next_txid # 0
        /\ \A u \in eng.active \union eng.logged \union eng.committed \union eng.aborted :
             u \in Nat /\ u < eng.next_txid
        /\ \A j \in Slots : objs[j].txn < eng.next_txid /\ objs[j].txn \in Int
        /\ \A f \in failed : f.txn \in Nat /\ f.txn < eng.next_txid
        /\ dbo.txn_handle < eng.next_txid /\ dbo.txn_handle \in Int
    BY DEF IBind, BType, Begun, Databases, IdSets, Objects, DbObjects, TxnIds
  <2>2. \/ t = -1 /\ eng'.next_txid = eng.next_txid
        \/ t = eng.next_txid /\ eng'.next_txid = t + 1
    BY DEF Still, Unmoved, Began
  <2> QED
    BY <2>1, <2>2
<1>4. /\ SameHandles(eng, eng') /\ SameLog(eng, eng')
      /\ eng'.rolledBack = eng.rolledBack /\ eng'.holder = eng.holder
      /\ eng.active \subseteq eng'.active /\ eng'.active \subseteq eng.active \union {t}
      /\ t \notin eng.active /\ t \notin eng.aborted
      /\ t = -1 => eng'.active = eng.active
  <2>1. t \notin eng.active /\ t \notin eng.aborted
    BY <1>3 DEF TxnIds
  <2> QED
    BY <1>3, <2>1 DEF Still, Unmoved, Began
<1>5. BType'
  BY <1>1, <1>2 DEF IBind, BType
<1>6. Begun'
  <2>1. \A u \in eng'.active \union eng'.logged \union eng'.committed \union eng'.aborted :
           u \in Nat /\ u < eng'.next_txid
    <3>1. eng'.active = eng.active \/ (eng'.active = eng.active \union {eng.next_txid} /\ t = eng.next_txid)
      BY DEF Still, Unmoved, Began
    <3> QED
      BY <1>3, <1>4, <3>1 DEF SameLog
  <2>2. \A j \in Slots : objs'[j].txn < eng'.next_txid
    BY <1>2, <1>3
  <2>3. \A f \in failed : f.txn \in Nat /\ f.txn < eng'.next_txid
    BY <1>3
  <2>4. dbo.txn_handle < eng'.next_txid /\ eng'.next_txid # 0
    BY <1>3
  <2> QED
    BY <1>1, <2>1, <2>2, <2>3, <2>4 DEF Begun
<1>7. HandlesLive'
  BY <1>1, <1>2, <1>4 DEF IBind, HandlesLive, SameHandles, IsObject
<1>8. Listed'
  <2>1. eng.live = 0 => t = -1
    BY DEF TxnIds
  <2> QED
    BY <1>4, <2>1 DEF IBind, Listed, SameHandles
<1>9. OpenOwned'
  <2> SUFFICES ASSUME lang # "rust", NEW u \in eng'.active \ eng'.rolledBack,
                      ~(dbo.txn_active /\ u = dbo.txn_handle)
               PROVE  \E j \in Slots : Owner(j)' /\ objs'[j].txn = u
    BY <1>1 DEF OpenOwned
  <2>1. CASE u = t
    <3>1. Owner(i)'
      BY <1>1, <1>2 DEF Owner, IsObject
    <3> QED
      BY <1>2, <2>1, <3>1
  <2>2. CASE u \in eng.active \ eng.rolledBack
    <3>1. PICK j \in Slots : Owner(j) /\ objs[j].txn = u
      BY <2>2 DEF IBind, OpenOwned
    <3>2. objs'[j] = objs[j]
      BY <1>1, <1>2, <3>1
    <3>3. Owner(j)'
      BY <1>1, <3>1, <3>2 DEF Owner, IsObject
    <3> QED
      BY <3>1, <3>2, <3>3
  <2> QED
    BY <1>4, <2>1, <2>2
<1>10. Unrevived'
  <2> SUFFICES ASSUME lang \in {"js", "rust"} PROVE Unrevived'
    BY <1>1 DEF Unrevived
  <2>1. eng'.revived = {} /\ (dbo.txn_active => dbo.txn_handle \notin eng'.aborted)
    BY <1>4 DEF IBind, Unrevived, SameLog
  <2>2. t # -1 => \A j \in Slots : objs[j].txn # t
    <3>1. t # -1 => t = eng.next_txid
      OBVIOUS
    <3> QED
      BY <1>3, <3>1
  <2>3. ASSUME NEW j \in Slots, IsObject(j)'
        PROVE  /\ objs'[j].done \/ objs'[j].txn \notin eng'.aborted
               /\ lang = "rust" \/ objs'[j].kind = "cursor" => ~objs'[j].done
    BY <1>2, <1>4, <2>3 DEF IBind, Unrevived, IsObject, SameLog
  <2>4. ASSUME NEW j \in Slots, IsObject(j)', NEW k \in Slots, IsObject(k)', k # j,
               objs'[k].txn = objs'[j].txn
        PROVE  objs'[j].txn = -1
    <3>1. CASE j = i \/ k = i
      BY <1>2, <2>2, <2>4, <3>1
    <3>2. CASE j # i /\ k # i
      BY <1>2, <2>4, <3>2 DEF IBind, Unrevived, IsObject
    <3> QED
      BY <3>1, <3>2
  <2> QED
    BY <1>1, <2>1, <2>3, <2>4 DEF Unrevived
<1>11. FailedApart'
  <2> SUFFICES ASSUME NEW f \in failed
               PROVE  /\ \A j \in Slots : IsObject(j)' => objs'[j].txn # f.txn
                      /\ f.txn \in eng'.committed => f.op = "delete" /\ lang \in DeletesAnyway
    BY <1>1 DEF FailedApart
  <2>1. t # f.txn
    <3>1. t = -1 \/ t = eng.next_txid
      OBVIOUS
    <3> QED
      BY <1>3, <3>1
  <2>2. \A j \in Slots : IsObject(j)' => objs'[j].txn # f.txn
    BY <1>1, <1>2, <2>1 DEF IBind, FailedApart, IsObject
  <2> QED
    BY <1>1, <1>4, <2>2 DEF IBind, FailedApart, SameLog
<1>12. AskedFor' /\ NoFreedHandle'
  BY <1>1, <1>4 DEF IBind, AskedFor, NoFreedHandle
<1> QED
  BY <1>5, <1>6, <1>7, <1>8, <1>9, <1>10, <1>11, <1>12 DEF IBind

\* What is left of an object that was ended or thrown away.
Gone(i) == objs'[i].kind = "none" /\ objs'[i].txn = 0 /\ objs'[i].done = FALSE
DoneWith(i) ==
  /\ lang # "rust" /\ objs[i].kind = "txn" /\ objs'[i].kind = "txn" /\ objs'[i].done = TRUE
  /\ objs'[i].db = objs[i].db /\ objs'[i].txn = objs[i].txn

\* Ending an object touches its own slot only.
LEMMA EndedObject ==
  ASSUME BType, NEW i \in Slots, ObjectEnded(i) \/ objs' = [objs EXCEPT ![i] = NoObj]
  PROVE  /\ objs' \in [Slots -> Objects]
         /\ \A j \in Slots : j # i => objs'[j] = objs[j]
         /\ Gone(i) \/ DoneWith(i)
<1>1. NoObj \in Objects /\ Done(i) \in Objects
  BY DEF BType, NoObj, Done, Objects, TxnIds
<1>2. CASE objs' = [objs EXCEPT ![i] = NoObj]
  BY <1>1, <1>2 DEF BType, Gone, NoObj
<1>3. CASE lang # "rust" /\ objs[i].kind = "txn" /\ objs' = [objs EXCEPT ![i] = Done(i)]
  <2>1. objs[i] \in Objects
    BY DEF BType
  <2>2. objs' \in [Slots -> Objects] /\ objs'[i] = Done(i) /\ \A j \in Slots : j # i => objs'[j] = objs[j]
    BY <1>1, <1>3 DEF BType
  <2> QED
    BY <1>3, <2>1, <2>2 DEF DoneWith, Done, Objects
<1> QED
  BY <1>2, <1>3 DEF ObjectEnded

\* An object is ended or thrown away, and the transactions that are still
\* open are others or were not its own.
LEMMA EndKeeps ==
  ASSUME IBind, NEW i \in Slots, IsObject(i), lang # "godot",
         UNCHANGED <<lang, dbo, failed>>, asked \subseteq asked',
         ObjectEnded(i) \/ objs' = [objs EXCEPT ![i] = NoObj],
         eng' \in Databases, SameHandles(eng, eng'), eng'.next_txid = eng.next_txid,
         eng'.active \subseteq eng.active, eng'.logged = eng.logged,
         eng'.committed \subseteq eng.committed \union Ids(objs[i].txn),
         eng'.aborted \subseteq eng.aborted \union Ids(objs[i].txn),
         lang \in {"js", "rust"} => eng'.revived = eng.revived,
         \A u \in eng'.active \ eng'.rolledBack :
           u \in eng.active \ eng.rolledBack /\ (lang # "rust" /\ u = objs[i].txn => ~Owner(i)),
         Listed', AskedFor', NoFreedHandle'
  PROVE  IBind'
<1> DEFINE t == objs[i].txn
<1>1. /\ objs' \in [Slots -> Objects]
      /\ \A j \in Slots : j # i => objs'[j] = objs[j]
      /\ Gone(i) \/ DoneWith(i)
  BY EndedObject DEF IBind
<1>2. /\ eng.next_txid \in Nat /\ eng.next_txid # 0
      /\ \A u \in eng.active \union eng.logged \union eng.committed \union eng.aborted :
           u \in Nat /\ u < eng.next_txid
      /\ \A j \in Slots : objs[j].txn < eng.next_txid /\ objs[j].txn \in TxnIds
      /\ dbo.txn_handle < eng.next_txid
      /\ \A f \in failed : f.txn \in Nat /\ f.txn < eng.next_txid
  BY DEF IBind, BType, Begun, Databases, IdSets, Objects
<1>3. t \in TxnIds /\ t < eng.next_txid
  BY <1>2
<1>4. BType'
  BY <1>1 DEF IBind, BType
<1>5. Begun'
  <2>1. \A u \in Ids(t) : u \in Nat /\ u < eng.next_txid
    BY <1>3 DEF Ids, TxnIds
  <2>2. \A j \in Slots : objs'[j].txn < eng.next_txid
    BY <1>1, <1>2 DEF Gone, DoneWith
  <2>3. \A u \in eng'.active \union eng'.logged \union eng'.committed \union eng'.aborted :
           u < eng.next_txid
    BY <1>2, <2>1
  <2> QED
    BY <1>2, <2>2, <2>3 DEF Begun
<1>6. HandlesLive'
  BY <1>1 DEF IBind, HandlesLive, SameHandles, IsObject, Gone, DoneWith
<1>7. OpenOwned'
  <2> SUFFICES ASSUME lang # "rust", NEW u \in eng'.active \ eng'.rolledBack
               PROVE  \E j \in Slots : Owner(j)' /\ objs'[j].txn = u
    BY DEF OpenOwned
  <2>1. PICK j \in Slots : Owner(j) /\ objs[j].txn = u
    BY DEF IBind, OpenOwned, HandlesLive
  <2>2. j # i
    BY <2>1
  <2>3. Owner(j)' /\ objs'[j].txn = u
    BY <1>1, <2>1, <2>2 DEF Owner, IsObject
  <2> QED
    BY <2>3
<1>8. Unrevived'
  <2> SUFFICES ASSUME lang \in {"js", "rust"} PROVE Unrevived'
    BY DEF Unrevived
  <2>1. eng'.revived = {} /\ ~dbo.txn_active
    BY DEF IBind, Unrevived, HandlesLive
  <2>2. ASSUME NEW j \in Slots, IsObject(j)'
        PROVE  /\ objs'[j].done \/ objs'[j].txn \notin eng'.aborted
               /\ lang = "rust" \/ objs'[j].kind = "cursor" => ~objs'[j].done
    <3>1. CASE j = i
      BY <1>1, <2>2, <3>1 DEF Gone, DoneWith, IsObject
    <3>2. CASE j # i
      <4>1. objs'[j] = objs[j] /\ IsObject(j)
        BY <1>1, <2>2, <3>2 DEF IsObject
      <4>2. objs[j].txn \notin Ids(t)
        BY <3>2, <4>1 DEF IBind, Unrevived, Ids
      <4> QED
        BY <4>1, <4>2 DEF IBind, Unrevived
    <3> QED
      BY <3>1, <3>2
  <2>3. ASSUME NEW j \in Slots, IsObject(j)', NEW k \in Slots, IsObject(k)', k # j,
               objs'[k].txn = objs'[j].txn
        PROVE  objs'[j].txn = -1
    <3>1. \A l \in Slots : IsObject(l)' => IsObject(l) /\ objs'[l].txn = objs[l].txn
      BY <1>1 DEF IsObject, Gone, DoneWith
    <3> QED
      BY <2>3, <3>1 DEF IBind, Unrevived
  <2> QED
    BY <2>1, <2>2, <2>3 DEF Unrevived
<1>9. FailedApart'
  <2> SUFFICES ASSUME NEW f \in failed
               PROVE  /\ \A j \in Slots : IsObject(j)' => objs'[j].txn # f.txn
                      /\ f.txn \in eng'.committed => f.op = "delete" /\ lang \in DeletesAnyway
    BY DEF FailedApart
  <2>1. f.txn # t /\ f.txn \notin Ids(t)
    BY DEF IBind, FailedApart, Ids
  <2>2. \A j \in Slots : IsObject(j)' => objs'[j].txn # f.txn
    BY <1>1 DEF IBind, FailedApart, IsObject, Gone, DoneWith
  <2> QED
    BY <2>1, <2>2 DEF IBind, FailedApart
<1> QED
  BY <1>4, <1>5, <1>6, <1>7, <1>8, <1>9 DEF IBind

\* The methods of transaction and cursor objects.
LEMMA StepKeeps ==
  ASSUME IBind, NEW i \in Slots, StepShape(i)
  PROVE  IBind'
<1> DEFINE t == objs[i].txn
<1>1. /\ eng' \in Databases /\ UNCHANGED <<lang, dbo, failed>> /\ IsObject(i) /\ lang # "godot"
      /\ NoFreedHandle'
  BY DEF StepShape, NoFreedHandle
<1>2. CASE objs' = objs /\ asked' = asked /\ Unmoved(eng, eng')
  BY <1>1, <1>2, UnmovedKeeps
<1>3. CASE objs' = objs /\ asked' = asked /\ Wrote(eng, eng', t)
  <2> USE DEF Wrote, SameHandles, IsObject
  <2>1. BType' /\ HandlesLive'
    BY <1>1, <1>3 DEF IBind, BType, HandlesLive
  <2>2. Begun'
    BY <1>1, <1>3 DEF IBind, Begun
  <2>3. Listed'
    BY <1>1, <1>3 DEF IBind, Listed
  <2>4. OpenOwned'
    BY <1>1, <1>3 DEF IBind, OpenOwned, Owner
  <2>5. Unrevived' /\ FailedApart' /\ AskedFor'
    BY <1>1, <1>3 DEF IBind, Unrevived, FailedApart, AskedFor
  <2> QED
    BY <1>1, <2>1, <2>2, <2>3, <2>4, <2>5 DEF IBind
<1>4. CASE /\ ObjectEnded(i) /\ asked' = asked
           /\ lang \in {"js", "rust"} => ~objs[i].done
           /\ CommittedIn(eng, eng', t)
  <2>1. Listed' /\ AskedFor'
    BY <1>1, <1>4 DEF IBind, Listed, AskedFor, CommittedIn, SameHandles, Unlocked
  <2>2. lang \in {"js", "rust"} => eng'.revived = eng.revived
    BY <1>1, <1>4 DEF IBind, Unrevived, CommittedIn
  <2>3. \A u \in eng'.active \ eng'.rolledBack : u \in eng.active \ eng.rolledBack /\ u # t
    BY <1>4 DEF CommittedIn
  <2>4. /\ SameHandles(eng, eng') /\ eng'.next_txid = eng.next_txid
        /\ eng'.active \subseteq eng.active /\ eng'.logged = eng.logged
        /\ eng'.committed \subseteq eng.committed \union Ids(t) /\ eng'.aborted = eng.aborted
    BY <1>4 DEF CommittedIn
  <2> QED
    BY <1>1, <1>4, <2>1, <2>2, <2>3, <2>4, EndKeeps
<1>5. CASE ObjectEnded(i) /\ asked' = asked \union Ids(t) /\ RolledBackIn(eng, eng', t)
  <2>1. t \in TxnIds /\ eng.active \subseteq Nat
    BY DEF IBind, BType, Objects, Databases, IdSets
  <2>2. AskedFor'
    <3>1. eng'.rolledBack \subseteq eng.rolledBack \union Ids(t)
      BY <1>5, <2>1 DEF RolledBackIn, Ids
    <3> QED
      BY <1>1, <1>5, <3>1 DEF IBind, AskedFor
  <2>3. Listed'
    BY <1>5 DEF IBind, Listed, RolledBackIn, SameHandles, Unlocked
  <2>4. \A u \in eng'.active \ eng'.rolledBack : u \in eng.active \ eng.rolledBack /\ u # t
    BY <1>5 DEF RolledBackIn
  <2>5. /\ SameHandles(eng, eng') /\ eng'.next_txid = eng.next_txid
        /\ eng'.active \subseteq eng.active /\ eng'.logged = eng.logged
        /\ eng'.committed = eng.committed /\ eng'.aborted \subseteq eng.aborted \union Ids(t)
        /\ eng'.revived = eng.revived
    BY <1>5 DEF RolledBackIn
  <2> QED
    BY <1>1, <1>5, <2>2, <2>3, <2>4, <2>5, EndKeeps
<1>6. CASE /\ ObjectEnded(i) \/ objs' = [objs EXCEPT ![i] = NoObj]
           /\ asked \subseteq asked' /\ Unmoved(eng, eng')
           /\ eng.live = 0 \/ objs[i].done \/ lang = "rust"
                \/ (lang \in {"go", "delphi"} /\ objs[i].kind = "cursor")
  <2>1. Listed' /\ AskedFor'
    BY <1>1, <1>6 DEF IBind, Listed, AskedFor, Unmoved, SameHandles
  <2>2. \A u \in eng'.active \ eng'.rolledBack :
           u \in eng.active \ eng.rolledBack /\ (lang # "rust" /\ u = t => ~Owner(i))
    BY <1>6 DEF IBind, Listed, Unmoved, Owner
  <2>3. /\ SameHandles(eng, eng') /\ eng'.next_txid = eng.next_txid
        /\ eng'.active = eng.active /\ SameLog(eng, eng')
    BY <1>6 DEF Unmoved
  <2> QED
    BY <1>1, <1>6, <2>1, <2>2, <2>3, EndKeeps DEF SameLog
<1> QED
  BY <1>2, <1>3, <1>4, <1>5, <1>6 DEF StepShape, Still

\* The cursors of Go and Delphi.
LEMMA CursorKeeps ==
  ASSUME IBind, NEW i \in Slots, CursorShape(i)
  PROVE  IBind'
<1>1. /\ UNCHANGED <<lang, dbo, failed, asked>> /\ eng' \in Databases
      /\ Free(i) /\ lang \in {"go", "delphi"} /\ ~Owner(i)
  BY FreeIsNoOwner DEF CursorShape
<1> PICK t \in TxnIds, h \in Nat :
       /\ objs' = [objs EXCEPT ![i] = Object("cursor", h, t)]
       /\ eng.live # 0 => h = eng.live
       /\ \/ Unmoved(eng, eng') /\ (t = -1 \/ \E j \in Slots : objs[j].kind = "txn" /\ objs[j].txn = t)
          \/ t = eng.next_txid /\ eng.live # 0 /\ AutoEffect(eng, eng', "commit")
  BY DEF CursorShape
<1>2. /\ objs' \in [Slots -> Objects]
      /\ \A j \in Slots : j # i => objs'[j] = objs[j]
      /\ objs'[i].kind = "cursor" /\ objs'[i].db = h /\ objs'[i].txn = t /\ objs'[i].done = FALSE
  BY NewObject DEF IBind
<1>3. /\ eng.next_txid \in Nat /\ eng.next_txid # 0
      /\ \A u \in eng.active \union eng.logged \union eng.committed \union eng.aborted :
           u \in Nat /\ u < eng.next_txid
      /\ \A j \in Slots : objs[j].txn < eng.next_txid /\ objs[j].txn \in Int
      /\ \A f \in failed : f.txn \in Nat /\ f.txn < eng.next_txid
      /\ dbo.txn_handle < eng.next_txid /\ dbo.txn_handle \in Int
  BY DEF IBind, BType, Begun, Databases, IdSets, Objects, DbObjects, TxnIds
<1>4. /\ SameHandles(eng, eng')
      /\ eng'.active = eng.active /\ eng'.rolledBack = eng.rolledBack /\ eng'.holder = eng.holder
      /\ eng'.aborted = eng.aborted
  BY DEF Still, Unmoved, SameLog, AutoEffect
<1>5. \/ /\ eng'.next_txid = eng.next_txid /\ eng'.committed = eng.committed /\ eng'.logged = eng.logged
         /\ t = -1 \/ \E j \in Slots : objs[j].kind = "txn" /\ objs[j].txn = t
      \/ /\ t = eng.next_txid /\ eng'.next_txid = t + 1 /\ eng'.committed = eng.committed \union {t}
         /\ eng'.logged \in {eng.logged, eng.logged \union {t}}
  BY DEF Still, Unmoved, SameLog, AutoEffect
<1>6. BType'
  BY <1>1, <1>2 DEF IBind, BType
<1>7. Begun'
  <2>1. eng.next_txid <= eng'.next_txid /\ t < eng'.next_txid /\ eng'.next_txid \in Nat
    BY <1>3, <1>5
  <2>2. \A u \in eng'.active \union eng'.logged \union eng'.committed \union eng'.aborted :
           u \in Nat /\ u < eng'.next_txid
    BY <1>3, <1>4, <1>5
  <2>3. \A j \in Slots : objs'[j].txn < eng'.next_txid
    BY <1>2, <1>3, <2>1
  <2>4. \A f \in failed : f.txn \in Nat /\ f.txn < eng'.next_txid
    BY <1>3, <2>1
  <2>5. dbo.txn_handle < eng'.next_txid /\ eng'.next_txid # 0
    BY <1>3, <2>1
  <2> QED
    BY <1>1, <2>2, <2>3, <2>4, <2>5 DEF Begun
<1>8. HandlesLive' /\ Listed'
  BY <1>1, <1>2, <1>4 DEF IBind, HandlesLive, Listed, SameHandles, IsObject
<1>9. OpenOwned'
  <2> SUFFICES ASSUME NEW u \in eng.active \ eng.rolledBack,
                      ~(dbo.txn_active /\ u = dbo.txn_handle)
               PROVE  \E j \in Slots : Owner(j)' /\ objs'[j].txn = u
    BY <1>1, <1>4 DEF OpenOwned
  <2>1. PICK j \in Slots : Owner(j) /\ objs[j].txn = u
    BY <1>1 DEF IBind, OpenOwned
  <2>2. objs'[j] = objs[j]
    BY <1>1, <1>2, <2>1
  <2>3. Owner(j)'
    BY <1>1, <2>1, <2>2 DEF Owner, IsObject
  <2> QED
    BY <2>1, <2>2, <2>3
<1>10. Unrevived'
  BY <1>1 DEF Unrevived
<1>11. FailedApart'
  <2> SUFFICES ASSUME NEW f \in failed
               PROVE  /\ \A j \in Slots : IsObject(j)' => objs'[j].txn # f.txn
                      /\ f.txn \in eng'.committed => f.op = "delete" /\ lang \in DeletesAnyway
    BY <1>1 DEF FailedApart
  <2>1. \A j \in Slots : IsObject(j) => objs[j].txn # f.txn
    BY <1>1 DEF IBind, FailedApart
  <2>2. t # f.txn
    <3>1. CASE \E j \in Slots : objs[j].kind = "txn" /\ objs[j].txn = t
      BY <2>1, <3>1 DEF IsObject
    <3>2. CASE t = -1 \/ t = eng.next_txid
      BY <1>3, <3>2
    <3> QED
      BY <1>5, <3>1, <3>2
  <2>3. \A j \in Slots : IsObject(j)' => objs'[j].txn # f.txn
    BY <1>2, <2>1, <2>2 DEF IsObject
  <2>4. f.txn \in eng'.committed => f.txn \in eng.committed
    BY <1>5, <2>2
  <2> QED
    BY <1>1, <2>3, <2>4 DEF IBind, FailedApart
<1>12. AskedFor' /\ NoFreedHandle'
  BY <1>1, <1>4 DEF IBind, AskedFor, NoFreedHandle
<1> QED
  BY <1>6, <1>7, <1>8, <1>9, <1>10, <1>11, <1>12 DEF IBind

\* The database is closed.
LEMMA CloseKeeps == ASSUME IBind, CloseShape, lang # "godot" PROVE IBind'
<1> PICK h \in Nat : /\ dbo' = [dbo EXCEPT !.h = h, !.closed = TRUE]
                     /\ h = 0 \/ lang \in {"csharp", "unity", "go"}
  BY DEF CloseShape
<1>1. /\ dbo' \in DbObjects /\ dbo'.h = h /\ dbo'.closed = TRUE
      /\ dbo'.txn_handle = dbo.txn_handle /\ dbo'.txn_active = dbo.txn_active
  BY DEF IBind, BType, DbObjects
<1>2. /\ eng' \in Databases /\ UNCHANGED <<lang, objs, failed, asked>>
      /\ eng'.live = 0 /\ SameLog(eng, eng') /\ eng'.next_txid = eng.next_txid
      /\ eng'.active = {} /\ eng'.rolledBack = {} /\ eng'.holder = 0
  BY DEF CloseShape, ClosedIn, Still, Unmoved, SameHandles, IBind, Listed
<1>3. BType'
  BY <1>1, <1>2 DEF IBind, BType
<1>4. Begun'
  BY <1>1, <1>2 DEF IBind, Begun, SameLog
<1>5. HandlesLive' /\ Listed'
  BY <1>1, <1>2 DEF IBind, HandlesLive, Listed, IsObject
<1>6. OpenOwned' /\ AskedFor' /\ NoFreedHandle'
  BY <1>2 DEF IBind, OpenOwned, AskedFor, NoFreedHandle
<1>7. Unrevived'
  BY <1>1, <1>2 DEF IBind, Unrevived, SameLog, IsObject
<1>8. FailedApart'
  BY <1>2 DEF IBind, FailedApart, SameLog, IsObject
<1> QED
  BY <1>3, <1>4, <1>5, <1>6, <1>7, <1>8 DEF IBind

-----------------------------------------------------------------------------
(* The methods have these shapes.                                          *)

\* What a single-call method does: nothing, if it gets no transaction, and
\* otherwise what its end makes of a new one.
LEMMA SingleCallDoes ==
  ASSUME IBind, dbo.h = eng.live, NEW m, NEW o, NEW end \in [Statuses -> Ends],
         SingleCall(m, o, end)
  PROVE  /\ eng' \in Databases /\ UNCHANGED <<lang, dbo, objs>>
         /\ \/ Still(eng, eng') /\ UNCHANGED <<failed, asked>>
            \/ \E st \in Statuses :
                 /\ eng.live # 0 /\ AutoEffect(eng, eng', end[st])
                 /\ failed' = IF m \in Writes /\ st # "OK"
                              THEN failed \union {[txn |-> eng.next_txid, op |-> m]} ELSE failed
                 /\ asked' = IF m \in Writes /\ st # "OK"
                             THEN asked \union {eng.next_txid} ELSE asked
<1> DEFINE h == dbo.h
           t == BegunId(eng, h)
           d1 == garry_txn_begin(eng, h)
           d2 == Called(d1, h, t, m, o)
           st == Status(d1, h, t, m, o)
           bad == m \in Writes /\ st # "OK"
<1>1. /\ eng' = Ended(d2, h, t, end[st])
      /\ failed' = IF bad THEN failed \union {[txn |-> u, op |-> m] : u \in Ids(t)} ELSE failed
      /\ asked' = IF bad THEN asked \union Ids(t) ELSE asked
      /\ UNCHANGED <<lang, dbo, objs>>
  BY DEF SingleCall
<1>2. st \in Statuses
  BY DEF Status, SetStatus, DeleteStatus, ReadStatus, Statuses
<1>3. end[st] \in Ends
  BY <1>2
<1> HIDE DEF st
<1>4. /\ eng \in Databases /\ h \in Nat /\ eng.next_txid \in Nat /\ eng.live = h
      /\ \A u \in eng.active \union eng.logged \union eng.committed \union eng.aborted :
           u \in Nat /\ u < eng.next_txid
      /\ eng.rolledBack \subseteq eng.active
      /\ eng.holder \in Nat /\ (eng.holder # 0 => eng.holder < eng.next_txid)
      /\ eng.next_txid # 0
  BY DEF IBind, BType, Databases, IdSets, DbObjects, Begun, Listed
<1>5. /\ d1 \in Databases
      /\ \/ t = -1 /\ d1 = eng
         \/ h # 0 /\ t = eng.next_txid /\ Began(eng, d1, eng.next_txid)
  BY <1>4, BeginDoes
<1>6. t \in TxnIds /\ d1.live = h
  BY <1>4, <1>5 DEF TxnIds, Began, SameHandles
<1> HIDE DEF t, d1
<1>7. d2 \in Databases /\ (d2 = d1 \/ Wrote(d1, d2, t))
  <2>1. CASE m \in Writes
    <3>1. d2 = WriteCall(d1, h, t, o)
      BY <2>1 DEF Called
    <3> HIDE DEF d2
    <3> QED
      BY <1>4, <1>5, <1>6, <3>1, WriteDoes
  <2>2. CASE m \notin Writes
    BY <1>5, <1>6, <2>2 DEF Called, ReadCall, Call
  <2> QED
    BY <2>1, <2>2
<1> HIDE DEF d2
<1>8. d2.live = h
  BY <1>6, <1>7 DEF Wrote, SameHandles
<1>9. CASE h = 0
  <2>1. t = -1 /\ d1 = eng
    BY <1>5, <1>9
  <2>2. d2 = eng
    BY <1>4, <1>7, <2>1 DEF Wrote
  <2>3. eng' = eng
    BY <1>1, <1>3, <1>9, <2>2 DEF Ended, garry_txn_commit, garry_txn_rollback, Call, Ends
  <2>4. UNCHANGED <<failed, asked>>
    BY <1>1, <2>1 DEF Ids
  <2> QED
    BY <1>1, <1>4, <2>3, <2>4 DEF Still, Unmoved, SameHandles, SameLog
<1>10. CASE h # 0
  <2>1. /\ eng' \in Databases
        /\ \/ end[st] = "commit" /\ CommittedIn(d2, eng', t)
           \/ end[st] = "rollback" /\ RolledBackIn(d2, eng', t)
           \/ end[st] = "none" /\ eng' = d2
    <3>1. CASE end[st] = "commit"
      <4>1. eng' = garry_txn_commit(d2, h, t)
        BY <1>1, <3>1 DEF Ended
      <4> QED
        BY <1>6, <1>7, <1>8, <1>10, <3>1, <4>1, CommitDoes
    <3>2. CASE end[st] = "rollback"
      <4>1. eng' = garry_txn_rollback(d2, h, t)
        BY <1>1, <3>2 DEF Ended
      <4> QED
        BY <1>6, <1>7, <1>8, <1>10, <3>2, <4>1, RollbackDoes
    <3>3. CASE end[st] = "none"
      BY <1>1, <1>7, <3>3 DEF Ended
    <3> QED
      BY <1>3, <3>1, <3>2, <3>3 DEF Ends
  <2>2. CASE t = -1 /\ d1 = eng
    <3>1. d2 = eng
      BY <1>4, <1>7, <2>2 DEF Wrote
    <3>2. Ids(t) = {} /\ t \notin eng.active /\ t # eng.holder /\ t \notin eng.aborted
      BY <1>4, <2>2 DEF Ids
    <3>3. Still(eng, eng')
      <4>1. /\ eng.active \ {t} = eng.active /\ eng.rolledBack \ {t} = eng.rolledBack
            /\ eng.revived \union ({t} \intersect (eng.aborted \ eng.committed)) = eng.revived
            /\ Unlocked(eng, t) = eng.holder
            /\ eng.committed \union Ids(t) = eng.committed /\ eng.aborted \union Ids(t) = eng.aborted
        BY <1>4, <3>2 DEF Unlocked
      <4>2. CASE CommittedIn(eng, eng', t)
        BY <4>1, <4>2 DEF Still, Unmoved, CommittedIn, SameLog
      <4>3. CASE RolledBackIn(eng, eng', t)
        BY <3>2, <4>1, <4>3 DEF Still, Unmoved, RolledBackIn, SameLog
      <4>4. CASE eng' = eng
        BY <4>4 DEF Still, Unmoved, SameHandles, SameLog
      <4> QED
        BY <2>1, <3>1, <4>2, <4>3, <4>4
    <3>4. UNCHANGED <<failed, asked>>
      BY <1>1, <3>2
    <3> QED
      BY <1>1, <2>1, <3>3, <3>4
  <2>3. CASE t = eng.next_txid /\ Began(eng, d1, t)
    <3>1. Ids(t) = {t} /\ t \notin eng.active /\ t \notin eng.rolledBack
          /\ t \notin eng.aborted /\ t # eng.holder
      BY <1>4, <2>3 DEF Ids
    <3>2. /\ failed' = IF bad THEN failed \union {[txn |-> t, op |-> m]} ELSE failed
          /\ asked' = IF bad THEN asked \union {t} ELSE asked
      BY <1>1, <3>1
    <3>3. /\ SameHandles(eng, d2) /\ d2.freed = eng.freed /\ d2.next_txid = t + 1
          /\ d2.logged \in {eng.logged, eng.logged \union {t}} /\ d2.committed = eng.committed
          /\ d2.aborted = eng.aborted /\ d2.revived = eng.revived
          /\ d2.active = eng.active \union {t} /\ d2.rolledBack = eng.rolledBack
          /\ d2.holder = eng.holder \/ (d2.holder = t /\ eng.holder = 0)
      BY <1>7, <2>3, <3>1 DEF Wrote, Began, SameHandles, SameLog
    <3>4. Unlocked(d2, t) = eng.holder
      BY <3>1, <3>3 DEF Unlocked
    <3>5. AutoEffect(eng, eng', end[st])
      <4>1. CASE end[st] = "commit" /\ CommittedIn(d2, eng', t)
        BY <2>3, <3>1, <3>3, <3>4, <4>1 DEF AutoEffect, CommittedIn, SameHandles
      <4>2. CASE end[st] = "rollback" /\ RolledBackIn(d2, eng', t)
        BY <2>3, <3>1, <3>3, <3>4, <4>2 DEF AutoEffect, RolledBackIn, SameHandles
      <4>3. CASE end[st] = "none" /\ eng' = d2
        BY <2>3, <3>3, <4>3 DEF AutoEffect, SameHandles
      <4> QED
        BY <2>1, <4>1, <4>2, <4>3
    <3> QED
      BY <1>1, <1>2, <1>4, <1>10, <2>1, <2>3, <3>2, <3>5
  <2> QED
    BY <1>5, <2>2, <2>3
<1> QED
  BY <1>9, <1>10

\* The ends a method may choose, by wrapper.
EndAllowed(m, end) ==
  \/ end = Commits /\ (m \in Writes => lang = "godot" \/ (m = "delete" /\ lang \in DeletesAnyway))
  \/ end = RollsBack /\ m \notin Writes /\ lang \notin {"godot", "delphi", "go"}
  \/ end = CommitsOk /\ (m \in Writes \/ lang \notin {"godot", "delphi", "go"})
  \/ end = CommitsOkOnly /\ lang = "rust"

\* Every single-call method keeps the invariant.
LEMMA SingleCallKeeps ==
  ASSUME IBind, dbo.h = eng.live, NEW m, NEW o, NEW end, EndAllowed(m, end),
         SingleCall(m, o, end)
  PROVE  IBind'
<1>1. /\ end \in [Statuses -> Ends]
      /\ \A st \in Statuses :
           /\ end[st] = "none" => lang = "rust"
           /\ m \in Writes /\ st # "OK" /\ end[st] = "commit"
                => lang = "godot" \/ (m = "delete" /\ lang \in DeletesAnyway)
           /\ lang \in {"godot", "delphi", "go"} /\ end[st] = "rollback" => m \in Writes /\ st # "OK"
  <2>1. CASE end = Commits /\ (m \in Writes => lang = "godot" \/ (m = "delete" /\ lang \in DeletesAnyway))
    BY <2>1 DEF Commits, Ends
  <2>2. CASE end = RollsBack /\ m \notin Writes /\ lang \notin {"godot", "delphi", "go"}
    BY <2>2 DEF RollsBack, Ends
  <2>3. CASE end = CommitsOk /\ (m \in Writes \/ lang \notin {"godot", "delphi", "go"})
    BY <2>3 DEF CommitsOk, Ends
  <2>4. CASE end = CommitsOkOnly /\ lang = "rust"
    BY <2>4 DEF CommitsOkOnly, Ends
  <2> QED
    BY <2>1, <2>2, <2>3, <2>4 DEF EndAllowed
<1>2. AutoShape
  <2>1. /\ eng' \in Databases /\ UNCHANGED <<lang, dbo, objs>>
        /\ \/ Still(eng, eng') /\ UNCHANGED <<failed, asked>>
           \/ \E st \in Statuses :
                 /\ eng.live # 0 /\ AutoEffect(eng, eng', end[st])
                 /\ failed' = IF m \in Writes /\ st # "OK"
                              THEN failed \union {[txn |-> eng.next_txid, op |-> m]} ELSE failed
                 /\ asked' = IF m \in Writes /\ st # "OK"
                             THEN asked \union {eng.next_txid} ELSE asked
    BY <1>1, SingleCallDoes
  <2>2. CASE Still(eng, eng') /\ UNCHANGED <<failed, asked>>
    BY <2>1, <2>2 DEF AutoShape
  <2>3. ASSUME NEW st \in Statuses,
               /\ eng.live # 0 /\ AutoEffect(eng, eng', end[st])
               /\ failed' = IF m \in Writes /\ st # "OK"
                            THEN failed \union {[txn |-> eng.next_txid, op |-> m]} ELSE failed
               /\ asked' = IF m \in Writes /\ st # "OK"
                           THEN asked \union {eng.next_txid} ELSE asked
        PROVE  AutoShape
    <3> DEFINE bad == m \in Writes /\ st # "OK"
    <3>1. end[st] \in Ends /\ bad \in BOOLEAN
      BY <1>1
    <3>2. /\ eng.live # 0 /\ AutoEffect(eng, eng', end[st])
          /\ failed' = IF bad THEN failed \union {[txn |-> eng.next_txid, op |-> m]} ELSE failed
          /\ asked' = IF bad THEN asked \union {eng.next_txid} ELSE asked
          /\ end[st] = "none" => lang = "rust"
          /\ bad /\ end[st] = "commit" => lang = "godot" \/ (m = "delete" /\ lang \in DeletesAnyway)
          /\ lang \in {"godot", "delphi", "go"} /\ end[st] = "rollback" => bad
      BY <1>1, <2>3
    <3> HIDE DEF bad
    <3> QED
      BY <2>1, <3>1, <3>2 DEF AutoShape
  <2> QED
    BY <2>1, <2>2, <2>3
<1> QED
  BY <1>2, AutoKeeps

\* A new object of a wrapper whose database object is open.
LEMMA BeginObjectKeeps ==
  ASSUME IBind, dbo.h = eng.live, lang # "godot", NEW i \in Slots, NEW kind \in {"txn", "cursor"},
         lang \in {"go", "delphi"} => kind = "txn", BeginObject(i, kind)
  PROVE  IBind'
<1> DEFINE t == BegunId(eng, dbo.h)
<1>1. /\ eng' = garry_txn_begin(eng, dbo.h) /\ Free(i)
      /\ objs' = [objs EXCEPT ![i] = Object(kind, dbo.h, t)]
      /\ UNCHANGED <<lang, dbo, failed, asked>>
  BY DEF BeginObject
<1>2. eng \in Databases /\ dbo.h \in Nat /\ eng.next_txid \in Nat
  BY DEF IBind, BType, Databases, DbObjects
<1>3. /\ eng' \in Databases
      /\ \/ t = -1 /\ eng' = eng
         \/ dbo.h # 0 /\ t = eng.next_txid /\ Began(eng, eng', t)
  BY <1>1, <1>2, BeginDoes
<1> HIDE DEF t
<1>4. \/ t = -1 /\ Unmoved(eng, eng')
      \/ t = eng.next_txid /\ eng.live # 0 /\ Began(eng, eng', t)
  BY <1>3 DEF Unmoved, SameHandles, SameLog
<1>5. t \in TxnIds
  BY <1>2, <1>4 DEF TxnIds
<1>6. BeginShape(i)
  BY <1>1, <1>2, <1>3, <1>4, <1>5 DEF BeginShape
<1> QED
  BY <1>6, BeginKeeps

\* A handle an object calls with.
Reaches(h) == h \in Nat /\ (eng.live # 0 => h = eng.live)

\* The copy of the handle in an object is the live one while there is one.
LEMMA ObjectReaches ==
  ASSUME IBind, NEW i \in Slots, IsObject(i)
  PROVE  Reaches(objs[i].db)
<1>1. objs[i] \in Objects
  BY DEF IBind, BType
<1> QED
  BY <1>1 DEF IBind, HandlesLive, Reaches, Objects

\* So is the database object's own handle.
LEMMA DatabaseReaches ==
  ASSUME IBind, dbo.h = eng.live
  PROVE  Reaches(dbo.h)
BY DEF IBind, BType, DbObjects, Reaches

\* Reads and writes through an object.
LEMMA CallKeeps ==
  ASSUME IBind, NEW i \in Slots, IsObject(i), lang # "godot", NEW h, Reaches(h), NEW o,
         \/ Step(i, ReadCall(eng, h), objs[i], FALSE)
         \/ Step(i, WriteCall(eng, h, objs[i].txn, o), objs[i], FALSE)
  PROVE  IBind'
<1>1. /\ eng' = ReadCall(eng, h) \/ eng' = WriteCall(eng, h, objs[i].txn, o)
      /\ objs' = [objs EXCEPT ![i] = objs[i]] /\ asked' = asked
      /\ UNCHANGED <<lang, dbo, failed>>
  BY DEF Step
<1>2. objs' = objs
  BY <1>1 DEF IBind, BType
<1>3. eng \in Databases /\ h \in Nat
  BY DEF IBind, BType, Reaches
<1>4. /\ eng' \in Databases
      /\ Unmoved(eng, eng') \/ Wrote(eng, eng', objs[i].txn)
  <2>1. CASE h = 0 \/ h # eng.live
    <3>1. Missed(eng, h, eng')
      BY <1>1, <1>3, <2>1, CallMisses DEF ReadCall, WriteCall
    <3> QED
      BY <2>1, <3>1 DEF Missed, Reaches
  <2>2. CASE h # 0 /\ h = eng.live
    <3>1. CASE eng' = ReadCall(eng, h)
      <4>1. eng' = eng
        BY <2>2, <3>1 DEF ReadCall, Call
      <4> QED
        BY <1>3, <4>1 DEF Unmoved, SameHandles, SameLog
    <3>2. CASE eng' = WriteCall(eng, h, objs[i].txn, o)
      <4>1. eng' \in Databases /\ (eng' = eng \/ Wrote(eng, eng', objs[i].txn))
        BY <1>3, <2>2, <3>2, WriteDoes
      <4> QED
        BY <4>1 DEF Unmoved, SameHandles, SameLog, Wrote
    <3> QED
      BY <1>1, <3>1, <3>2
  <2> QED
    BY <2>1, <2>2
<1>5. StepShape(i)
  BY <1>1, <1>2, <1>4 DEF StepShape
<1> QED
  BY <1>5, StepKeeps

\* A step of a cursor.
LEMMA CursorNextKeeps ==
  ASSUME IBind, NEW i \in Slots, IsObject(i), lang # "godot", NEW h,
         Step(i, CursorCall(eng, h), objs[i], FALSE)
  PROVE  IBind'
<1>1. /\ eng' = CursorCall(eng, h)
      /\ objs' = [objs EXCEPT ![i] = objs[i]] /\ asked' = asked
      /\ UNCHANGED <<lang, dbo, failed>>
  BY DEF Step
<1>2. objs' = objs
  BY <1>1 DEF IBind, BType
<1>3. eng \in Databases
  BY DEF IBind, BType
<1>4. eng' \in Databases /\ Unmoved(eng, eng')
  <2>1. CASE eng' = eng
    BY <1>3, <2>1 DEF Unmoved, SameHandles, SameLog
  <2>2. CASE eng' = [eng EXCEPT !.freed = @ \union {"cursor"}]
    <3>1. eng' \in Databases
      BY <1>3, <2>2 DEF Databases, Uses
    <3>2. Unmoved(eng, eng')
      BY <1>3, <2>2 DEF Databases, Unmoved, SameHandles, SameLog
    <3> QED
      BY <3>1, <3>2
  <2> QED
    BY <1>1, <2>1, <2>2 DEF CursorCall
<1>5. StepShape(i)
  BY <1>1, <1>2, <1>4 DEF StepShape
<1> QED
  BY <1>5, StepKeeps

\* An object commits or rolls back.
LEMMA EndingKeeps ==
  ASSUME IBind, NEW i \in Slots, IsObject(i), lang # "godot", NEW h, Reaches(h), NEW ob,
         \/ lang # "rust" /\ objs[i].kind = "txn" /\ ob = Done(i)
         \/ lang \notin {"go", "delphi"} /\ ob = NoObj,
         \/ Step(i, garry_txn_rollback(eng, h, objs[i].txn), ob, TRUE)
         \/ /\ Step(i, garry_txn_commit(eng, h, objs[i].txn), ob, FALSE)
            /\ lang \in {"js", "rust"} => ~objs[i].done
  PROVE  IBind'
<1> DEFINE t == objs[i].txn
<1>1. objs' = [objs EXCEPT ![i] = ob] /\ UNCHANGED <<lang, dbo, failed>>
  BY DEF Step
<1>2. ObjectEnded(i)
  BY <1>1 DEF ObjectEnded
<1>3. eng \in Databases /\ h \in Nat /\ t \in TxnIds
  BY DEF IBind, BType, Reaches, Objects
<1>4. ASSUME h = 0 \/ h # eng.live, NEW c, eng' = Call(eng, h, c)
      PROVE  /\ eng' \in Databases /\ Unmoved(eng, eng') /\ eng.live = 0
  <2>1. Missed(eng, h, eng')
    BY <1>3, <1>4, CallMisses
  <2> QED
    BY <1>4, <2>1 DEF Missed, Reaches
<1>5. CASE Step(i, garry_txn_rollback(eng, h, t), ob, TRUE)
  <2>1. eng' = garry_txn_rollback(eng, h, t) /\ asked' = asked \union Ids(t)
    BY <1>5 DEF Step
  <2>2. /\ eng' \in Databases
        /\ RolledBackIn(eng, eng', t) \/ (eng.live = 0 /\ Unmoved(eng, eng'))
    <3>1. CASE h = 0 \/ h # eng.live
      BY <1>4, <2>1, <3>1 DEF garry_txn_rollback
    <3>2. CASE h # 0 /\ h = eng.live
      <4>1. eng' \in Databases /\ RolledBackIn(eng, eng', t)
        BY <1>3, <2>1, <3>2, RollbackDoes
      <4> QED
        BY <4>1 DEF RolledBackIn
    <3> QED
      BY <3>1, <3>2
  <2>3. StepShape(i)
    BY <1>1, <1>2, <2>1, <2>2 DEF StepShape
  <2> QED
    BY <2>3, StepKeeps
<1>6. CASE /\ Step(i, garry_txn_commit(eng, h, t), ob, FALSE)
           /\ lang \in {"js", "rust"} => ~objs[i].done
  <2>1. eng' = garry_txn_commit(eng, h, t) /\ asked' = asked
    BY <1>6 DEF Step
  <2>2. /\ eng' \in Databases
        /\ CommittedIn(eng, eng', t) \/ (eng.live = 0 /\ Unmoved(eng, eng'))
    <3>1. CASE h = 0 \/ h # eng.live
      BY <1>4, <2>1, <3>1 DEF garry_txn_commit
    <3>2. CASE h # 0 /\ h = eng.live
      <4>1. eng' \in Databases /\ CommittedIn(eng, eng', t)
        BY <1>3, <2>1, <3>2, CommitDoes
      <4> QED
        BY <4>1 DEF CommittedIn
    <3> QED
      BY <3>1, <3>2
  <2>3. StepShape(i)
    BY <1>1, <1>2, <1>6, <2>1, <2>2 DEF StepShape
  <2> QED
    BY <2>3, StepKeeps
<1> QED
  BY <1>5, <1>6

\* An object is thrown away without a call.
LEMMA DropKeeps ==
  ASSUME IBind, NEW i \in Slots, IsObject(i), lang # "godot",
         objs[i].done \/ lang = "rust" \/ (lang \in {"go", "delphi"} /\ objs[i].kind = "cursor"),
         Step(i, eng, NoObj, FALSE)
  PROVE  IBind'
<1>1. /\ eng' = eng /\ objs' = [objs EXCEPT ![i] = NoObj] /\ asked' = asked
      /\ UNCHANGED <<lang, dbo, failed>>
  BY DEF Step
<1>2. eng' \in Databases /\ Still(eng, eng')
  BY <1>1 DEF IBind, BType, Still, Unmoved, SameHandles, SameLog
<1>3. StepShape(i)
  BY <1>1, <1>2 DEF StepShape
<1> QED
  BY <1>3, StepKeeps

\* The database object closes its handle.
LEMMA ClosingKeeps ==
  ASSUME IBind, lang # "godot", dbo.h = eng.live \/ eng.live = 0, NEW h \in Nat,
         h = 0 \/ lang \in {"csharp", "unity", "go"}, ClosingWith(h)
  PROVE  IBind'
<1>1. /\ eng' = garry_database_close(eng, dbo.h)
      /\ dbo' = [dbo EXCEPT !.h = h, !.closed = TRUE]
      /\ UNCHANGED <<lang, objs, failed, asked>>
  BY DEF ClosingWith
<1>2. eng \in Databases
  BY DEF IBind, BType
<1>3. eng' \in Databases /\ (ClosedIn(eng, eng') \/ (eng.live = 0 /\ Unmoved(eng, eng')))
  <2>1. CASE eng.live = 0
    <3>1. Missed(eng, dbo.h, eng')
      BY <1>1, <1>2, <2>1, CallMisses DEF garry_database_close
    <3> QED
      BY <2>1, <3>1 DEF Missed
  <2>2. CASE eng.live # 0
    BY <1>1, <1>2, <2>2, CloseDoes
  <2> QED
    BY <2>1, <2>2
<1>4. CloseShape
  BY <1>1, <1>3 DEF CloseShape
<1> QED
  BY <1>4, CloseKeeps

-----------------------------------------------------------------------------
(* The wrappers, one by one.                                               *)

\* Node.js.
LEMMA JsKeeps == ASSUME IBind, JsNext PROVE IBind'
<1>1. lang = "js" /\ dbo.h = eng.live
  BY DEF JsNext, JsGet, JsExists, JsGetData, JsClose, JsSet, JsDelete, JsBeginTransaction,
         JsTxnGet, JsTxnExists, JsTxnCommit, JsTxnRollback, JsTxnDestroy, JsCursorNext,
         JsCursorClose, JsCursorDestroy, JsTxnWrite, JsOpenCursor, JsOpen, JsUnfinished,
         IBind, HandlesLive
<1>2. CASE JsGet \/ JsExists \/ JsGetData
  BY <1>1, <1>2, SingleCallKeeps DEF JsGet, JsExists, JsGetData, EndAllowed, Writes
<1>3. CASE JsClose
  BY <1>1, <1>3, ClosingKeeps DEF JsClose
<1>4. ASSUME NEW o \in Outcomes, JsSet(o) \/ JsDelete(o) PROVE IBind'
  BY <1>1, <1>4, SingleCallKeeps DEF JsSet, JsDelete, EndAllowed, Writes
<1>5. ASSUME NEW i \in Slots, JsBeginTransaction(i) PROVE IBind'
  BY <1>1, <1>5, BeginObjectKeeps DEF JsBeginTransaction
<1>6. ASSUME NEW i \in Slots, NEW o \in Outcomes, JsTxnGet(i) \/ JsTxnExists(i) \/ JsTxnWrite(i, o)
      PROVE  IBind'
  <2>1. IsObject(i)
    BY <1>6 DEF JsTxnGet, JsTxnExists, JsTxnWrite, JsUnfinished, Txn, IsObject
  <2>2. Reaches(objs[i].db)
    BY <1>1, <2>1, ObjectReaches
  <2> QED
    BY <1>1, <1>6, <2>1, <2>2, CallKeeps DEF JsTxnGet, JsTxnExists, JsTxnWrite, Reading, Writing
<1>7. ASSUME NEW i \in Slots, JsTxnCommit(i) \/ JsTxnRollback(i) PROVE IBind'
  <2>1. IsObject(i) /\ Txn(i) /\ ~objs[i].done
    BY <1>7 DEF JsTxnCommit, JsTxnRollback, JsUnfinished, Txn, IsObject
  <2>2. Reaches(objs[i].db)
    BY <1>1, <2>1, ObjectReaches
  <2> QED
    BY <1>1, <1>7, <2>1, <2>2, EndingKeeps DEF JsTxnCommit, JsTxnRollback, Committed, RolledBack, Txn
<1>8. ASSUME NEW i \in Slots, JsTxnDestroy(i) PROVE IBind'
  <2>1. IsObject(i)
    BY <1>8 DEF JsTxnDestroy, Txn, IsObject
  <2>2. Reaches(objs[i].db)
    BY <1>1, <2>1, ObjectReaches
  <2>3. CASE objs[i].done
    BY <1>1, <1>8, <2>1, <2>3, DropKeeps DEF JsTxnDestroy
  <2>4. CASE ~objs[i].done
    BY <1>1, <1>8, <2>1, <2>2, <2>4, EndingKeeps DEF JsTxnDestroy, RolledBack
  <2> QED
    BY <2>3, <2>4
<1>9. ASSUME NEW i \in Slots, JsCursorNext(i) PROVE IBind'
  <2>1. IsObject(i)
    BY <1>9 DEF JsCursorNext, Cursor, IsObject
  <2> QED
    BY <1>1, <1>9, <2>1, CursorNextKeeps DEF JsCursorNext
<1>10. ASSUME NEW i \in Slots, JsCursorClose(i) \/ JsCursorDestroy(i) PROVE IBind'
  <2>1. IsObject(i) /\ objs[i].kind = "cursor"
    BY <1>10 DEF JsCursorClose, JsCursorDestroy, Cursor, IsObject
  <2>2. ~objs[i].done
    BY <1>1, <2>1 DEF IBind, Unrevived
  <2>3. Reaches(objs[i].db)
    BY <1>1, <2>1, ObjectReaches
  <2> QED
    BY <1>1, <1>10, <2>1, <2>2, <2>3, EndingKeeps DEF JsCursorClose, JsCursorDestroy, Committed, RolledBack
<1>11. ASSUME NEW i \in Slots, NEW made \in BOOLEAN, JsOpenCursor(i, made) PROVE IBind'
  <2>1. CASE made
    BY <1>1, <1>11, <2>1, BeginObjectKeeps DEF JsOpenCursor
  <2>2. CASE ~made
    BY <1>1, <1>11, <2>2, SingleCallKeeps DEF JsOpenCursor, EndAllowed, Writes
  <2> QED
    BY <2>1, <2>2
<1>12. Outcomes # {}
  BY DEF Outcomes
<1> QED
  BY <1>2, <1>3, <1>4, <1>5, <1>6, <1>7, <1>8, <1>9, <1>10, <1>11, <1>12 DEF JsNext

\* C#.
LEMMA CsKeeps == ASSUME IBind, CsNext PROVE IBind'
<1>1. lang = "csharp"
  BY DEF CsNext, CsGet, CsExists, CsGetObject, CsQuery, CsDispose, CsSet, CsDelete, CsSetObject,
         CsBeginTransaction, CsTxnGet, CsTxnGetObject, CsTxnCommit, CsTxnRollback, CsTxnDispose,
         CsTxnWrite, CsTxnSetObject, CsOpen, CsTxn
<1>2. CsOpen => dbo.h = eng.live
  BY DEF CsOpen, IBind, HandlesLive
<1>3. CASE CsGet \/ CsExists \/ CsGetObject \/ CsQuery
  BY <1>1, <1>2, <1>3, SingleCallKeeps
     DEF CsGet, CsExists, CsGetObject, CsQuery, EndAllowed, Writes
<1>4. CASE CsDispose
  <2>1. dbo.h \in Nat
    BY DEF IBind, BType, DbObjects
  <2> QED
    BY <1>1, <1>2, <1>4, <2>1, ClosingKeeps DEF CsDispose
<1>5. ASSUME NEW o \in Outcomes, CsSet(o) \/ CsDelete(o) \/ CsSetObject(o) PROVE IBind'
  BY <1>1, <1>2, <1>5, SingleCallKeeps
     DEF CsSet, CsDelete, CsSetObject, EndAllowed, Writes, DeletesAnyway
<1>6. ASSUME NEW i \in Slots, CsBeginTransaction(i) PROVE IBind'
  BY <1>1, <1>2, <1>6, BeginObjectKeeps DEF CsBeginTransaction
<1>7. ASSUME NEW i \in Slots, CsTxn(i)
      PROVE  IsObject(i) /\ objs[i].kind = "txn" /\ Reaches(objs[i].db)
  BY <1>1, <1>7, ObjectReaches DEF CsTxn, Txn, IsObject
<1>8. ASSUME NEW i \in Slots, NEW o \in Outcomes,
             CsTxnGet(i) \/ CsTxnGetObject(i) \/ CsTxnWrite(i, o) \/ CsTxnSetObject(i, o)
      PROVE  IBind'
  BY <1>1, <1>7, <1>8, CallKeeps
     DEF CsTxnGet, CsTxnGetObject, CsTxnWrite, CsTxnSetObject, Reading, Writing
<1>9. ASSUME NEW i \in Slots, CsTxnCommit(i) \/ CsTxnRollback(i) PROVE IBind'
  BY <1>1, <1>7, <1>9, EndingKeeps DEF CsTxnCommit, CsTxnRollback, Committed, RolledBack
<1>10. ASSUME NEW i \in Slots, CsTxnDispose(i) PROVE IBind'
  <2>1. CASE objs[i].done
    BY <1>1, <1>7, <1>10, <2>1, DropKeeps DEF CsTxnDispose
  <2>2. CASE ~objs[i].done
    BY <1>1, <1>7, <1>10, <2>2, EndingKeeps DEF CsTxnDispose, RolledBack
  <2> QED
    BY <2>1, <2>2
<1>11. Outcomes # {}
  BY DEF Outcomes
<1> QED
  BY <1>3, <1>4, <1>5, <1>6, <1>8, <1>9, <1>10, <1>11 DEF CsNext

\* Unity.
LEMMA UnityKeeps == ASSUME IBind, UnityNext PROVE IBind'
<1>1. lang = "unity"
  BY DEF UnityNext, UnityGet, UnityExists, UnityGetObject, UnityQuery, UnityDispose, UnitySet,
         UnityDelete, UnitySetObject, UnityBeginTransaction, UnityTxnGet, UnityTxnGetObject,
         UnityTxnCommit, UnityTxnRollback, UnityTxnDispose, UnityTxnWrite, UnityTxnSetObject,
         UnityOpen, UnityTxn
<1>2. UnityOpen => dbo.h = eng.live
  BY DEF UnityOpen, IBind, HandlesLive
<1>3. CASE UnityGet \/ UnityExists \/ UnityGetObject \/ UnityQuery
  BY <1>1, <1>2, <1>3, SingleCallKeeps
     DEF UnityGet, UnityExists, UnityGetObject, UnityQuery, EndAllowed, Writes
<1>4. CASE UnityDispose
  <2>1. dbo.h \in Nat
    BY DEF IBind, BType, DbObjects
  <2> QED
    BY <1>1, <1>2, <1>4, <2>1, ClosingKeeps DEF UnityDispose
<1>5. ASSUME NEW o \in Outcomes, UnitySet(o) \/ UnityDelete(o) \/ UnitySetObject(o) PROVE IBind'
  BY <1>1, <1>2, <1>5, SingleCallKeeps
     DEF UnitySet, UnityDelete, UnitySetObject, EndAllowed, Writes, DeletesAnyway
<1>6. ASSUME NEW i \in Slots, UnityBeginTransaction(i) PROVE IBind'
  BY <1>1, <1>2, <1>6, BeginObjectKeeps DEF UnityBeginTransaction
<1>7. ASSUME NEW i \in Slots, UnityTxn(i)
      PROVE  IsObject(i) /\ objs[i].kind = "txn" /\ Reaches(objs[i].db)
  BY <1>1, <1>7, ObjectReaches DEF UnityTxn, Txn, IsObject
<1>8. ASSUME NEW i \in Slots, NEW o \in Outcomes,
             UnityTxnGet(i) \/ UnityTxnGetObject(i) \/ UnityTxnWrite(i, o) \/ UnityTxnSetObject(i, o)
      PROVE  IBind'
  BY <1>1, <1>7, <1>8, CallKeeps
     DEF UnityTxnGet, UnityTxnGetObject, UnityTxnWrite, UnityTxnSetObject, Reading, Writing
<1>9. ASSUME NEW i \in Slots, UnityTxnCommit(i) \/ UnityTxnRollback(i) PROVE IBind'
  BY <1>1, <1>7, <1>9, EndingKeeps DEF UnityTxnCommit, UnityTxnRollback, Committed, RolledBack
<1>10. ASSUME NEW i \in Slots, UnityTxnDispose(i) PROVE IBind'
  <2>1. CASE objs[i].done
    BY <1>1, <1>7, <1>10, <2>1, DropKeeps DEF UnityTxnDispose
  <2>2. CASE ~objs[i].done
    BY <1>1, <1>7, <1>10, <2>2, EndingKeeps DEF UnityTxnDispose, RolledBack
  <2> QED
    BY <2>1, <2>2
<1>11. Outcomes # {}
  BY DEF Outcomes
<1> QED
  BY <1>3, <1>4, <1>5, <1>6, <1>8, <1>9, <1>10, <1>11 DEF UnityNext

\* Rust.
LEMMA RustKeeps == ASSUME IBind, RustNext PROVE IBind'
<1>1. lang = "rust" /\ dbo.h = eng.live
  BY DEF RustNext, RustGet, RustExists, RustCount, RustDropDatabase, RustSet, RustDelete,
         RustSetBytes, RustGetBytes, RustGetVersionsForKey, RustGetVersions, RustBeginTransaction,
         RustTxnGet, RustTxnExists, RustTxnCommit, RustTxnRollback, RustTxnDrop, RustCursorNext,
         RustCursorDrop, RustTxnWrite, RustCursorOpen, RustDb, RustTxn, IBind, HandlesLive
<1>2. CASE RustGet \/ RustExists \/ RustCount
  BY <1>1, <1>2, SingleCallKeeps DEF RustGet, RustExists, RustCount, EndAllowed, Writes
<1>3. CASE RustDropDatabase
  BY <1>1, <1>3, ClosingKeeps DEF RustDropDatabase
<1>4. ASSUME NEW o \in Outcomes, RustSet(o) \/ RustDelete(o) \/ RustSetBytes(o) PROVE IBind'
  BY <1>1, <1>4, SingleCallKeeps
     DEF RustSet, RustDelete, RustSetBytes, EndAllowed, Writes, DeletesAnyway
<1>5. ASSUME NEW f \in Found, RustGetBytes(f) \/ RustGetVersionsForKey(f) \/ RustGetVersions(f)
      PROVE  IBind'
  BY <1>1, <1>5, SingleCallKeeps
     DEF RustGetBytes, RustGetVersionsForKey, RustGetVersions, EndAllowed, Writes
<1>6. ASSUME NEW i \in Slots, RustBeginTransaction(i) PROVE IBind'
  BY <1>1, <1>6, BeginObjectKeeps DEF RustBeginTransaction
<1>7. ASSUME NEW i \in Slots, Txn(i) \/ Cursor(i)
      PROVE  IsObject(i) /\ Reaches(objs[i].db) /\ ~objs[i].done
  BY <1>1, <1>7, ObjectReaches DEF Txn, Cursor, IsObject, IBind, Unrevived
<1>8. ASSUME NEW i \in Slots, NEW o \in Outcomes, RustTxnGet(i) \/ RustTxnExists(i) \/ RustTxnWrite(i, o)
      PROVE  IBind'
  BY <1>1, <1>7, <1>8, CallKeeps
     DEF RustTxnGet, RustTxnExists, RustTxnWrite, RustTxn, Reading, Writing
<1>9. ASSUME NEW i \in Slots, RustTxnCommit(i) \/ RustTxnRollback(i) \/ RustCursorDrop(i) PROVE IBind'
  BY <1>1, <1>7, <1>9, EndingKeeps
     DEF RustTxnCommit, RustTxnRollback, RustCursorDrop, RustTxn, Committed, RolledBack
<1>10. ASSUME NEW i \in Slots, RustTxnDrop(i) PROVE IBind'
  BY <1>1, <1>7, <1>10, DropKeeps DEF RustTxnDrop, RustTxn
<1>11. ASSUME NEW i \in Slots, RustCursorNext(i) PROVE IBind'
  BY <1>1, <1>7, <1>11, CursorNextKeeps DEF RustCursorNext
<1>12. ASSUME NEW i \in Slots, NEW made \in BOOLEAN, RustCursorOpen(i, made) PROVE IBind'
  <2>1. CASE made
    BY <1>1, <1>12, <2>1, BeginObjectKeeps DEF RustCursorOpen
  <2>2. CASE ~made
    BY <1>1, <1>12, <2>2, SingleCallKeeps DEF RustCursorOpen, EndAllowed, Writes
  <2> QED
    BY <2>1, <2>2
<1>13. Outcomes # {}
  BY DEF Outcomes
<1> QED
  BY <1>2, <1>3, <1>4, <1>5, <1>6, <1>8, <1>9, <1>10, <1>11, <1>12, <1>13 DEF RustNext

\* Go.
LEMMA GoKeeps == ASSUME IBind, GoSeen, GoNext PROVE IBind'
<1>1. lang = "go"
  BY DEF GoNext, GoClose, GoCloseForgets, GoReadHandle, GoIdle, GoBegin, GoGet, GoGetDefault,
         GoGetStr, GoNavigate, GoForEach, GoCommit, GoRollback, GoCursorNext, GoCursorClose,
         GoWrite, GoSetStr, GoCursorOpen, GoReading, GoWriting, GoTxn, GoCalls
<1>2. CASE GoClose
  <2>1. dbo.h \in Nat /\ (dbo.h = eng.live \/ eng.live = 0)
    BY <1>1 DEF IBind, BType, DbObjects, HandlesLive
  <2> QED
    BY <1>1, <1>2, <2>1, ClosingKeeps DEF GoClose
<1>3. CASE GoCloseForgets
  <2>1. /\ dbo.closed /\ eng.live = 0 /\ dbo' = [dbo EXCEPT !.h = 0]
        /\ UNCHANGED <<lang, eng, objs, failed, asked>>
    BY <1>1, <1>3 DEF GoCloseForgets, IBind, HandlesLive
  <2>2. dbo' = [dbo EXCEPT !.h = 0, !.closed = TRUE]
    BY <2>1 DEF IBind, BType, DbObjects
  <2>3. eng' \in Databases /\ Unmoved(eng, eng')
    BY <2>1 DEF IBind, BType, Unmoved, SameHandles, SameLog
  <2>4. 0 \in Nat
    OBVIOUS
  <2>5. CloseShape
    BY <2>1, <2>2, <2>3, <2>4 DEF CloseShape
  <2> QED
    BY <1>1, <2>5, CloseKeeps
<1>4. ASSUME NEW i \in Slots, GoCalls(i) PROVE Reaches(seen[i])
  BY <1>4 DEF GoCalls, GoSeen, Reaches, NotRead, TxnIds
<1>5. ASSUME NEW i \in Slots, GoReadHandle(i) PROVE IBind'
  <2>1. UNCHANGED <<lang, dbo, objs, failed, asked>> /\ eng' = eng
    BY <1>5 DEF GoReadHandle
  <2>2. eng' \in Databases /\ Unmoved(eng, eng') /\ NoFreedHandle'
    BY <2>1 DEF IBind, BType, Unmoved, SameHandles, SameLog, NoFreedHandle
  <2> QED
    BY <2>1, <2>2, UnmovedKeeps
<1>6. ASSUME NEW i \in Slots, GoBegin(i) PROVE IBind'
  <2> DEFINE h == seen[i]
             t == BegunId(eng, h)
  <2>1. Reaches(h) /\ h \in Nat
    BY <1>4, <1>6 DEF GoBegin, Reaches
  <2>2. /\ eng' = garry_txn_begin(eng, h) /\ objs' = [objs EXCEPT ![i] = Object("txn", h, t)]
        /\ Free(i) /\ UNCHANGED <<lang, dbo, failed, asked>>
    BY <1>6 DEF GoBegin, Step
  <2>3. eng \in Databases /\ eng.next_txid \in Nat
    BY DEF IBind, BType, Databases
  <2> HIDE DEF h
  <2>4. /\ eng' \in Databases
        /\ \/ t = -1 /\ Unmoved(eng, eng')
           \/ t = eng.next_txid /\ eng.live # 0 /\ Began(eng, eng', t)
    <3>1. CASE h = 0 \/ h # eng.live
      <4>1. Missed(eng, h, eng')
        BY <2>2, <2>3, <3>1, CallMisses DEF garry_txn_begin
      <4>2. t = -1
        BY <3>1 DEF BegunId
      <4> QED
        BY <4>1, <4>2 DEF Missed
    <3>2. CASE h # 0 /\ h = eng.live
      <4>1. /\ eng' \in Databases
            /\ \/ t = -1 /\ eng' = eng
               \/ h # 0 /\ t = eng.next_txid /\ Began(eng, eng', eng.next_txid)
        BY <2>1, <2>2, <2>3, <3>2, BeginDoes
      <4> QED
        BY <3>2, <4>1 DEF Unmoved, SameHandles, SameLog
    <3> QED
      BY <3>1, <3>2
  <2> HIDE DEF t
  <2>5. t \in TxnIds
    BY <2>3, <2>4 DEF TxnIds
  <2>6. BeginShape(i)
    BY <1>1, <2>1, <2>2, <2>4, <2>5 DEF BeginShape, Reaches
  <2> QED
    BY <2>6, BeginKeeps
<1>7. ASSUME NEW i \in Slots, GoTxn(i)
      PROVE  IsObject(i) /\ objs[i].kind = "txn" /\ Reaches(seen[i])
  BY <1>4, <1>7 DEF GoTxn, Txn, IsObject
<1>8. ASSUME NEW i \in Slots, NEW o \in Outcomes, GoReading(i) \/ GoWriting(i, o) PROVE IBind'
  BY <1>1, <1>7, <1>8, CallKeeps DEF GoReading, GoWriting
<1>9. ASSUME NEW i \in Slots, GoCommit(i) \/ GoRollback(i) PROVE IBind'
  BY <1>1, <1>7, <1>9, EndingKeeps DEF GoCommit, GoRollback
<1>10. ASSUME NEW i \in Slots, GoCursorNext(i) PROVE IBind'
  BY <1>1, <1>10, CursorNextKeeps DEF GoCursorNext, Cursor, IsObject
<1>11. ASSUME NEW i \in Slots, GoCursorClose(i) PROVE IBind'
  BY <1>1, <1>11, DropKeeps DEF GoCursorClose, Cursor, IsObject
<1>12. ASSUME NEW i \in Slots, NEW j \in Slots, GoCursorOpen(i, j) PROVE IBind'
  <2> DEFINE h == seen[i]
  <2>1. /\ eng' = ReadCall(eng, h) /\ asked' = asked /\ Free(j)
        /\ objs' = [objs EXCEPT ![j] = Object("cursor", h, objs[i].txn)]
        /\ UNCHANGED <<lang, dbo, failed>>
    BY <1>12 DEF GoCursorOpen, Step
  <2>2. objs[i].txn \in TxnIds /\ objs[i].kind = "txn" /\ Reaches(h) /\ eng \in Databases
    BY <1>7, <1>12 DEF IBind, BType, Objects, GoCursorOpen, GoTxn, Txn
  <2> HIDE DEF h
  <2>3. eng' \in Databases /\ Unmoved(eng, eng')
    <3>1. CASE h = 0 \/ h # eng.live
      BY <2>1, <2>2, <3>1, CallMisses DEF ReadCall, Missed
    <3>2. CASE h # 0 /\ h = eng.live
      BY <2>1, <2>2, <3>2 DEF ReadCall, Call, Unmoved, SameHandles, SameLog
    <3> QED
      BY <3>1, <3>2
  <2>4. CursorShape(j)
    BY <1>1, <2>1, <2>2, <2>3 DEF CursorShape, Reaches
  <2> QED
    BY <2>4, CursorKeeps
<1>13. Outcomes # {}
  BY DEF Outcomes
<1> QED
  BY <1>2, <1>3, <1>5, <1>6, <1>8, <1>9, <1>10, <1>11, <1>12, <1>13
     DEF GoNext, GoGet, GoGetDefault, GoGetStr, GoNavigate, GoForEach, GoWrite, GoSetStr

\* A call of the library leaves the live handle alone, but for close.
LEMMA CallLive ==
  ASSUME NEW d \in Databases, NEW e, NEW h, NEW t, NEW o,
         \/ e = d \/ e = garry_txn_begin(d, h) \/ e = ReadCall(d, h) \/ e = WriteCall(d, h, t, o)
         \/ e = garry_txn_commit(d, h, t) \/ e = garry_txn_rollback(d, h, t)
         \/ e = CursorCall(d, h) \/ e = garry_database_close(d, h)
  PROVE  e.live \in {0, d.live}
<1>1. CASE h # 0 /\ h # d.live /\ e = [d EXCEPT !.freed = @ \union {"handle"}]
  BY <1>1 DEF Databases
<1>2. CASE e = garry_txn_begin(d, h)
  BY <1>1, <1>2 DEF garry_txn_begin, Call, Databases
<1>3. CASE e = ReadCall(d, h) \/ e = CursorCall(d, h)
  BY <1>1, <1>3 DEF ReadCall, CursorCall, Call, Databases
<1>4. CASE e = WriteCall(d, h, t, o)
  BY <1>1, <1>4 DEF WriteCall, Call, Databases
<1>5. CASE e = garry_txn_commit(d, h, t)
  BY <1>1, <1>5 DEF garry_txn_commit, Call, Databases
<1>6. CASE e = garry_txn_rollback(d, h, t)
  BY <1>1, <1>6 DEF garry_txn_rollback, Call, Databases
<1>7. CASE e = garry_database_close(d, h)
  BY <1>1, <1>7 DEF garry_database_close, Call, Databases
<1> QED
  BY <1>2, <1>3, <1>4, <1>5, <1>6, <1>7

\* No step of Go makes a handle.
LEMMA GoLive ==
  ASSUME IBind, GoNext
  PROVE  eng'.live \in {0, eng.live}
<1>1. eng \in Databases
  BY DEF IBind, BType
<1>2. PICK h, t, o :
        \/ eng' = eng \/ eng' = garry_txn_begin(eng, h) \/ eng' = ReadCall(eng, h)
        \/ eng' = WriteCall(eng, h, t, o) \/ eng' = garry_txn_commit(eng, h, t)
        \/ eng' = garry_txn_rollback(eng, h, t) \/ eng' = CursorCall(eng, h)
        \/ eng' = garry_database_close(eng, h)
  BY DEF GoNext, GoClose, GoCloseForgets, GoReadHandle, GoBegin, GoGet, GoGetDefault,
         GoGetStr, GoNavigate, GoForEach, GoCommit, GoRollback, GoCursorNext, GoCursorClose,
         GoWrite, GoSetStr, GoCursorOpen, GoReading, GoWriting, Step, ClosingWith
<1> QED
  BY <1>1, <1>2, CallLive

\* What Go methods have read stays the live handle or one that was closed: a
\* step of Go opens no other database.
LEMMA GoSeenKept ==
  ASSUME IBind, GoSeen, GoNext
  PROVE  GoSeen'
<1>1. lang = "go" /\ lang' = lang
  BY DEF GoNext, GoClose, GoCloseForgets, GoReadHandle, GoIdle, GoBegin, GoGet, GoGetDefault,
         GoGetStr, GoNavigate, GoForEach, GoCommit, GoRollback, GoCursorNext, GoCursorClose,
         GoWrite, GoSetStr, GoCursorOpen, GoReading, GoWriting, GoTxn, GoCalls, Step, ClosingWith
<1>2. /\ seen \in [Slots -> TxnIds]
      /\ \A i \in Slots : eng.live # 0 => seen[i] \in {NotRead, eng.live}
  BY DEF GoSeen
<1>3. eng'.live \in {0, eng.live}
  BY GoLive
<1>4. \/ seen' = seen
      \/ \E i \in Slots : seen' = [seen EXCEPT ![i] = NotRead]
      \/ eng' = eng /\ \E i \in Slots : seen' = [seen EXCEPT ![i] = dbo.h]
  BY DEF GoNext, GoClose, GoCloseForgets, GoReadHandle, GoIdle, GoBegin, GoGet, GoGetDefault,
         GoGetStr, GoNavigate, GoForEach, GoCommit, GoRollback, GoCursorNext, GoCursorClose,
         GoWrite, GoSetStr, GoCursorOpen, GoReading, GoWriting, GoTxn, GoCalls
<1>5. NotRead \in TxnIds /\ dbo.h \in TxnIds
  BY DEF IBind, BType, DbObjects, TxnIds, NotRead
<1>6. eng.live # 0 => dbo.h = eng.live
  BY <1>1 DEF IBind, HandlesLive
<1>7. /\ seen' \in [Slots -> TxnIds]
      /\ \A i \in Slots : eng'.live # 0 => seen'[i] \in {NotRead, eng'.live}
  <2>1. CASE seen' = seen
    BY <1>2, <1>3, <2>1
  <2>2. CASE \E i \in Slots : seen' = [seen EXCEPT ![i] = NotRead]
    BY <1>2, <1>3, <1>5, <2>2
  <2>3. CASE eng' = eng /\ \E i \in Slots : seen' = [seen EXCEPT ![i] = dbo.h]
    BY <1>2, <1>5, <1>6, <2>3
  <2> QED
    BY <1>4, <2>1, <2>2, <2>3
<1> QED
  BY <1>1, <1>7 DEF GoSeen

\* Delphi.  A cursor's transaction is begun and committed in one method.
LEMMA DelphiKeeps == ASSUME IBind, DelphiNext PROVE IBind'
<1>1. lang = "delphi" /\ dbo.h = eng.live
  BY DEF DelphiNext, DelphiGet, DelphiExists, DelphiCount, DelphiFirst, DelphiLast, DelphiNextKey,
         DelphiPrevKey, DelphiDestroy, DelphiSetKeyValue, DelphiDelete, DelphiBeginTxn, DelphiCommit,
         DelphiRollback, DelphiOpenCursor, DelphiCursorNext, DelphiCursorDestroy, DelphiDb, DelphiTxn,
         IBind, HandlesLive
<1>2. CASE \/ DelphiGet \/ DelphiExists \/ DelphiCount \/ DelphiFirst \/ DelphiLast
           \/ DelphiNextKey \/ DelphiPrevKey
  BY <1>1, <1>2, SingleCallKeeps
     DEF DelphiGet, DelphiExists, DelphiCount, DelphiFirst, DelphiLast, DelphiNextKey,
         DelphiPrevKey, EndAllowed, Writes
<1>3. CASE DelphiDestroy
  BY <1>1, <1>3, ClosingKeeps DEF DelphiDestroy
<1>4. ASSUME NEW o \in Outcomes, DelphiSetKeyValue(o) \/ DelphiDelete(o) PROVE IBind'
  BY <1>1, <1>4, SingleCallKeeps
     DEF DelphiSetKeyValue, DelphiDelete, EndAllowed, Writes, DeletesAnyway
<1>5. ASSUME NEW i \in Slots, DelphiBeginTxn(i) PROVE IBind'
  BY <1>1, <1>5, BeginObjectKeeps DEF DelphiBeginTxn
<1>6. ASSUME NEW i \in Slots, DelphiCommit(i) \/ DelphiRollback(i) PROVE IBind'
  <2>1. IsObject(i) /\ objs[i].kind = "txn"
    BY <1>6 DEF DelphiCommit, DelphiRollback, DelphiTxn, Txn, IsObject
  <2>2. Reaches(objs[i].db)
    BY <1>1, <2>1, ObjectReaches
  <2> QED
    BY <1>1, <1>6, <2>1, <2>2, EndingKeeps DEF DelphiCommit, DelphiRollback, Committed, RolledBack
<1>7. ASSUME NEW i \in Slots, DelphiCursorNext(i) PROVE IBind'
  BY <1>1, <1>7, CursorNextKeeps DEF DelphiCursorNext, Cursor, IsObject
<1>8. ASSUME NEW i \in Slots, DelphiCursorDestroy(i) PROVE IBind'
  BY <1>1, <1>8, DropKeeps DEF DelphiCursorDestroy, Cursor, IsObject
<1>9. ASSUME NEW i \in Slots, DelphiOpenCursor(i) PROVE IBind'
  <2> DEFINE h == dbo.h
             t == BegunId(eng, h)
             d1 == garry_txn_begin(eng, h)
  <2>1. /\ eng' = garry_txn_commit(d1, h, t) /\ asked' = asked /\ Free(i)
        /\ objs' = [objs EXCEPT ![i] = Object("cursor", h, t)]
        /\ UNCHANGED <<lang, dbo, failed>>
    BY <1>9 DEF DelphiOpenCursor, Step
  <2>2. /\ eng \in Databases /\ h \in Nat /\ eng.next_txid \in Nat
        /\ \A u \in eng.active \union eng.aborted : u \in Nat /\ u < eng.next_txid
        /\ eng.rolledBack \subseteq eng.active
        /\ eng.holder \in Nat /\ (eng.holder # 0 => eng.holder < eng.next_txid)
        /\ eng.next_txid # 0
    BY DEF IBind, BType, Databases, IdSets, DbObjects, Begun, Listed
  <2>3. /\ d1 \in Databases
        /\ \/ t = -1 /\ d1 = eng
           \/ h # 0 /\ t = eng.next_txid /\ Began(eng, d1, eng.next_txid)
    BY <1>1, <2>2, BeginDoes
  <2>4. t \in TxnIds /\ d1.live = h
    BY <1>1, <2>2, <2>3 DEF TxnIds, Began, SameHandles
  <2> HIDE DEF t, d1
  <2>5. CASE h = 0
    <3>1. t = -1 /\ eng' = eng
      BY <2>1, <2>3, <2>5 DEF garry_txn_commit, Call
    <3>2. CursorShape(i)
      BY <1>1, <2>1, <2>2, <2>4, <3>1 DEF CursorShape, Still, Unmoved, SameHandles, SameLog
    <3> QED
      BY <3>2, CursorKeeps
  <2>6. CASE h # 0
    <3>1. eng' \in Databases /\ CommittedIn(d1, eng', t)
      BY <2>1, <2>3, <2>4, <2>6, CommitDoes
    <3>2. CASE t = -1 /\ d1 = eng
      <4>1. Ids(t) = {} /\ t \notin eng.active /\ t # eng.holder /\ t \notin eng.aborted
        BY <2>2, <3>2 DEF Ids
      <4>2. /\ eng.active \ {t} = eng.active /\ eng.rolledBack \ {t} = eng.rolledBack
            /\ eng.revived \union ({t} \intersect (eng.aborted \ eng.committed)) = eng.revived
            /\ Unlocked(eng, t) = eng.holder
            /\ eng.committed \union Ids(t) = eng.committed
        BY <2>2, <4>1 DEF Unlocked
      <4>3. Still(eng, eng')
        BY <3>1, <3>2, <4>2 DEF Still, Unmoved, CommittedIn, SameLog
      <4>4. dbo.h \in Nat
        BY DEF IBind, BType, DbObjects
      <4>5. CursorShape(i)
        BY <1>1, <2>1, <2>4, <3>1, <3>2, <4>3, <4>4 DEF CursorShape, Still
      <4> QED
        BY <4>5, CursorKeeps
    <3>3. CASE t = eng.next_txid /\ Began(eng, d1, t)
      <4>1. Ids(t) = {t} /\ t \notin eng.active /\ t \notin eng.rolledBack
            /\ t \notin eng.aborted /\ t # eng.holder
        BY <2>2, <3>3 DEF Ids
      <4>2. Unlocked(d1, t) = eng.holder
        BY <3>3, <4>1 DEF Unlocked, Began
      <4>3. AutoEffect(eng, eng', "commit")
        BY <3>1, <3>3, <4>1, <4>2 DEF AutoEffect, CommittedIn, Began, SameHandles, SameLog
      <4>4. dbo.h \in Nat
        BY DEF IBind, BType, DbObjects
      <4>5. CursorShape(i)
        BY <1>1, <2>1, <2>4, <2>6, <3>1, <3>3, <4>3, <4>4 DEF CursorShape
      <4> QED
        BY <4>5, CursorKeeps
    <3> QED
      BY <2>3, <3>2, <3>3
  <2> QED
    BY <2>5, <2>6
<1> QED
  BY <1>2, <1>3, <1>4, <1>5, <1>6, <1>7, <1>8, <1>9 DEF DelphiNext

\* A rollback of the node's transaction.
LEMMA NodeRollback ==
  ASSUME IBind, lang = "godot", dbo.h = eng.live, dbo.h # 0, dbo.txn_active,
         NEW e, e = garry_txn_rollback(eng, dbo.h, dbo.txn_handle)
  PROVE  /\ e \in Databases /\ RolledBackIn(eng, e, dbo.txn_handle)
         /\ e.aborted \subseteq eng.aborted \union Ids(dbo.txn_handle)
         /\ \A u \in eng.active \union eng.logged \union eng.committed \union e.aborted :
              u \in Nat /\ u < eng.next_txid
<1> DEFINE t == dbo.txn_handle
<1>1. /\ eng \in Databases /\ t \in TxnIds /\ t < eng.next_txid
      /\ \A u \in eng.active \union eng.logged \union eng.committed \union eng.aborted :
           u \in Nat /\ u < eng.next_txid
  BY DEF IBind, BType, DbObjects, Begun, Databases, IdSets
<1>2. e \in Databases /\ RolledBackIn(eng, e, t)
  BY <1>1, RollbackDoes
<1>3. \A u \in Ids(t) : u \in Nat /\ u < eng.next_txid
  BY <1>1 DEF Ids, TxnIds
<1> QED
  BY <1>1, <1>2, <1>3 DEF RolledBackIn

\* What open, close and the destruction of the Godot node have in common: the
\* list is empty afterwards, and if the node's transaction was rolled back it
\* is no longer the node's.
LEMMA NodeClosedKeeps ==
  ASSUME IBind, lang = "godot", UNCHANGED <<lang, objs, failed>>,
         eng' \in Databases, dbo' \in DbObjects,
         dbo'.h = eng'.live, dbo'.txn_handle = dbo.txn_handle,
         eng'.freed = eng.freed, eng'.next_txid = eng.next_txid, eng'.revived = eng.revived,
         eng'.active = {}, eng'.rolledBack = {}, eng'.holder = 0,
         eng'.logged = eng.logged, eng'.committed = eng.committed,
         \A u \in eng'.aborted : u \in Nat /\ u < eng.next_txid,
         dbo'.txn_active => dbo.txn_active /\ eng'.aborted = eng.aborted
  PROVE  IBind'
<1>1. BType'
  BY DEF IBind, BType
<1>2. Begun'
  BY DEF IBind, Begun
<1>3. HandlesLive' /\ Listed'
  BY DEF IBind, HandlesLive, Listed, IsObject
<1>4. OpenOwned' /\ FailedApart' /\ AskedFor' /\ NoFreedHandle'
  BY DEF IBind, OpenOwned, FailedApart, AskedFor, NoFreedHandle
<1>5. Unrevived'
  BY DEF IBind, Unrevived, IsObject, HandlesLive
<1> QED
  BY <1>1, <1>2, <1>3, <1>4, <1>5 DEF IBind

\* The database after the node has closed it.
NodeClosed(c) ==
  /\ c \in Databases /\ c.live = 0 /\ c.made = eng.made /\ c.freed = eng.freed
  /\ c.next_txid = eng.next_txid /\ c.revived = eng.revived
  /\ c.active = {} /\ c.rolledBack = {} /\ c.holder = 0
  /\ c.logged = eng.logged /\ c.committed = eng.committed
  /\ \A u \in c.aborted : u \in Nat /\ u < eng.next_txid

\* The node closes its database, after a rollback if it has a transaction.
LEMMA NodeCloses ==
  ASSUME IBind, lang = "godot", NEW back \in BOOLEAN, back => dbo.h # 0 /\ dbo.txn_active,
         NEW c, c = garry_database_close(
                      IF back THEN garry_txn_rollback(eng, dbo.h, dbo.txn_handle) ELSE eng, dbo.h)
  PROVE  NodeClosed(c) /\ (~back => c.aborted = eng.aborted)
<1> DEFINE b == IF back THEN garry_txn_rollback(eng, dbo.h, dbo.txn_handle) ELSE eng
<1>1. /\ eng \in Databases /\ dbo.h = eng.live
      /\ \A u \in eng.aborted : u \in Nat /\ u < eng.next_txid
      /\ eng.live = 0 => eng.active = {} /\ eng.rolledBack = {} /\ eng.holder = 0
  BY DEF IBind, BType, HandlesLive, Begun, Databases, IdSets, Listed
<1>2. /\ b \in Databases /\ SameHandles(eng, b) /\ b.freed = eng.freed
      /\ b.next_txid = eng.next_txid /\ b.revived = eng.revived
      /\ b.logged = eng.logged /\ b.committed = eng.committed
      /\ \A u \in b.aborted : u \in Nat /\ u < eng.next_txid
      /\ ~back => b = eng
  <2>1. CASE back
    <3>1. b = garry_txn_rollback(eng, dbo.h, dbo.txn_handle)
      BY <2>1
    <3> HIDE DEF b
    <3>2. /\ b \in Databases /\ RolledBackIn(eng, b, dbo.txn_handle)
          /\ \A u \in b.aborted : u \in Nat /\ u < eng.next_txid
      BY <1>1, <2>1, <3>1, NodeRollback
    <3> QED
      BY <2>1, <3>2 DEF RolledBackIn
  <2>2. CASE ~back
    BY <1>1, <2>2 DEF SameHandles
  <2> QED
    BY <2>1, <2>2
<1>3. c = garry_database_close(b, dbo.h)
  OBVIOUS
<1> HIDE DEF b
<1>4. CASE dbo.h = 0
  <2>1. c = eng
    BY <1>2, <1>3, <1>4 DEF garry_database_close, Call
  <2> QED
    BY <1>1, <1>4, <2>1 DEF NodeClosed
<1>5. CASE dbo.h # 0
  <2>1. c \in Databases /\ ClosedIn(b, c)
    BY <1>1, <1>2, <1>3, <1>5, CloseDoes DEF SameHandles
  <2> QED
    BY <1>2, <2>1 DEF NodeClosed, ClosedIn, SameLog, SameHandles
<1> QED
  BY <1>4, <1>5

\* Opening, closing and destroying the node.
LEMMA NodeClosingKeeps ==
  ASSUME IBind, lang = "godot",
         GodotClose \/ GodotFree \/ \E ok \in BOOLEAN : GodotOpen(ok)
  PROVE  IBind'
<1> DEFINE back == dbo.h # 0 /\ dbo.txn_active
           b == IF back THEN garry_txn_rollback(eng, dbo.h, dbo.txn_handle) ELSE eng
           c == garry_database_close(b, dbo.h)
<1>1. dbo \in DbObjects /\ eng \in Databases /\ dbo.h = eng.live
  BY DEF IBind, BType, HandlesLive
<1>2. NodeClosed(c) /\ (~back => c.aborted = eng.aborted)
  <2>1. back \in BOOLEAN
    BY <1>1 DEF DbObjects
  <2> HIDE DEF back
  <2>2. back => dbo.h # 0 /\ dbo.txn_active
    BY DEF back
  <2> QED
    BY <2>1, <2>2, NodeCloses
<1>3. CASE GodotClose
  <2> DEFINE e == garry_database_close(eng, dbo.h)
  <2>1. eng' = e /\ dbo' = [dbo EXCEPT !.h = 0] /\ UNCHANGED <<lang, objs, failed, asked>>
    BY <1>3 DEF GodotClose
  <2>2. NodeClosed(eng') /\ eng'.aborted = eng.aborted
    <3>1. eng' = garry_database_close(IF FALSE THEN garry_txn_rollback(eng, dbo.h, dbo.txn_handle) ELSE eng, dbo.h)
      BY <2>1
    <3> QED
      BY <3>1, NodeCloses
  <2>3. dbo' \in DbObjects /\ dbo'.h = 0 /\ dbo'.txn_handle = dbo.txn_handle /\ dbo'.txn_active = dbo.txn_active
    BY <1>1, <2>1 DEF DbObjects
  <2> QED
    BY <2>1, <2>2, <2>3, NodeClosedKeeps DEF NodeClosed
<1>4. CASE GodotFree
  <2>1. /\ eng' = c /\ dbo' = [dbo EXCEPT !.h = 0, !.closed = TRUE, !.txn_active = FALSE]
        /\ UNCHANGED <<lang, objs, failed>>
    BY <1>4 DEF GodotFree
  <2>2. dbo' \in DbObjects /\ dbo'.h = 0 /\ dbo'.txn_handle = dbo.txn_handle /\ dbo'.txn_active = FALSE
    BY <1>1, <2>1 DEF DbObjects
  <2> HIDE DEF c
  <2> QED
    BY <1>2, <2>1, <2>2, NodeClosedKeeps DEF NodeClosed
<1>5. ASSUME NEW ok \in BOOLEAN, GodotOpen(ok) PROVE IBind'
  <2>1. /\ eng' = IF ok THEN garry_database_open(c) ELSE c
        /\ dbo' = [dbo EXCEPT !.h = eng'.live, !.txn_active = IF back THEN FALSE ELSE @]
        /\ UNCHANGED <<lang, objs, failed>>
    BY <1>5 DEF GodotOpen
  <2> HIDE DEF c
  <2>2. /\ eng' \in Databases /\ eng'.live \in Nat
        /\ \/ eng' = c
           \/ OpenedIn(c, eng')
    <3>1. eng' \in Databases /\ (eng' = c \/ OpenedIn(c, eng'))
      BY <1>2, <2>1, OpenDoes DEF NodeClosed
    <3> QED
      BY <3>1 DEF Databases
  <2>3. /\ dbo' \in DbObjects /\ dbo'.h = eng'.live /\ dbo'.txn_handle = dbo.txn_handle
        /\ dbo'.txn_active => dbo.txn_active /\ ~back
    <3>1. (IF back THEN FALSE ELSE dbo.txn_active) \in BOOLEAN
      BY <1>1 DEF DbObjects
    <3>2. /\ dbo' \in DbObjects /\ dbo'.h = eng'.live /\ dbo'.txn_handle = dbo.txn_handle
          /\ dbo'.txn_active = IF back THEN FALSE ELSE dbo.txn_active
      BY <1>1, <2>1, <2>2, <3>1 DEF DbObjects
    <3> QED
      BY <3>2
  <2> HIDE DEF back
  <2>4. /\ eng'.freed = eng.freed /\ eng'.next_txid = eng.next_txid /\ eng'.revived = eng.revived
        /\ eng'.active = {} /\ eng'.rolledBack = {} /\ eng'.holder = 0
        /\ eng'.logged = eng.logged /\ eng'.committed = eng.committed /\ eng'.aborted = c.aborted
    BY <1>2, <2>2 DEF NodeClosed, OpenedIn, SameLog
  <2>5. \A u \in eng'.aborted : u \in Nat /\ u < eng.next_txid
    BY <1>2, <2>4 DEF NodeClosed
  <2> QED
    BY <1>2, <2>1, <2>2, <2>3, <2>4, <2>5, NodeClosedKeeps
<1> QED
  BY <1>3, <1>4, <1>5

\* The methods of the node.
LEMMA GodotKeeps == ASSUME IBind, GodotNext PROVE IBind'
<1>1. lang = "godot" /\ dbo.h = eng.live
  BY DEF GodotNext, GodotClose, GodotFree, GodotBegin, GodotCommit, GodotRollback, GodotGet,
         GodotExists, GodotGetString, GodotQuery, GodotSet, GodotDelete, GodotSetString, GodotOpen,
         GodotMethod, GodotHasDb, GodotNode, IBind, HandlesLive
<1> DEFINE t == dbo.txn_handle
<1>2. /\ eng \in Databases /\ dbo \in DbObjects /\ objs \in [Slots -> Objects]
      /\ dbo.h \in Nat /\ t \in TxnIds /\ t < eng.next_txid
      /\ eng.next_txid \in Nat /\ eng.next_txid # 0
      /\ \A u \in eng.active \union eng.logged \union eng.committed \union eng.aborted :
           u \in Nat /\ u < eng.next_txid
      /\ \A i \in Slots : objs[i].kind = "none" /\ objs[i].txn < eng.next_txid /\ objs[i].txn \in Int
      /\ \A f \in failed : f.txn \in Nat /\ f.txn < eng.next_txid
  BY <1>1 DEF IBind, BType, Begun, HandlesLive, IsObject, Databases, IdSets, DbObjects, Objects, TxnIds
<1>3. CASE GodotClose \/ GodotFree \/ \E ok \in BOOLEAN : GodotOpen(ok)
  BY <1>1, <1>3, NodeClosingKeeps
<1>4. ASSUME NEW m, NEW o, m \in Writes \cup {"get", "exists", "cursor"}, GodotMethod(m, o)
      PROVE  IBind'
  <2>1. CASE dbo.txn_active
    <3>1. eng' = Called(eng, dbo.h, t, m, o) /\ UNCHANGED <<lang, dbo, objs, failed, asked>> /\ dbo.h # 0
      BY <1>4, <2>1 DEF GodotMethod, GodotHasDb
    <3>2. eng' \in Databases /\ (eng' = eng \/ Wrote(eng, eng', t))
      <4>1. CASE m \in Writes
        <5>1. eng' = WriteCall(eng, dbo.h, t, o)
          BY <3>1, <4>1 DEF Called
        <5> QED
          BY <1>1, <1>2, <5>1, WriteDoes
      <4>2. CASE m \notin Writes
        BY <1>1, <1>2, <3>1, <4>2 DEF Called, ReadCall, Call
      <4> QED
        BY <4>1, <4>2
    <3>3. CASE eng' = eng
      <4>1. NoFreedHandle' /\ Unmoved(eng, eng')
        BY <3>1, <3>3 DEF IBind, NoFreedHandle, Unmoved, SameHandles, SameLog
      <4> QED
        BY <3>1, <3>2, <4>1, UnmovedKeeps
    <3>4. CASE Wrote(eng, eng', t)
      <4> USE DEF Wrote, SameHandles, IsObject
      <4>1. BType' /\ HandlesLive' /\ NoFreedHandle'
        BY <3>1, <3>2, <3>4 DEF IBind, BType, HandlesLive, NoFreedHandle
      <4>2. Begun'
        BY <3>1, <3>4 DEF IBind, Begun
      <4>3. Listed'
        BY <3>1, <3>4 DEF IBind, Listed
      <4>4. OpenOwned'
        BY <3>1, <3>4 DEF IBind, OpenOwned, Owner
      <4>5. Unrevived' /\ FailedApart' /\ AskedFor'
        BY <3>1, <3>4 DEF IBind, Unrevived, FailedApart, AskedFor
      <4> QED
        BY <4>1, <4>2, <4>3, <4>4, <4>5 DEF IBind
    <3> QED
      BY <3>2, <3>3, <3>4
  <2>2. CASE ~dbo.txn_active
    <3>1. SingleCall(m, o, Commits)
      BY <1>4, <2>2 DEF GodotMethod
    <3>2. EndAllowed(m, Commits)
      BY <1>1 DEF EndAllowed
    <3> QED
      BY <1>1, <3>1, <3>2, SingleCallKeeps
  <2> QED
    BY <2>1, <2>2
<1>5. CASE GodotBegin
  <2> DEFINE n == BegunId(eng, dbo.h)
  <2>1. /\ eng' = garry_txn_begin(eng, dbo.h) /\ ~dbo.txn_active /\ dbo.h # 0
        /\ dbo' = [dbo EXCEPT !.txn_handle = n, !.txn_active = TRUE]
        /\ UNCHANGED <<lang, objs, failed, asked>>
    BY <1>5 DEF GodotBegin, GodotHasDb
  <2>2. /\ eng' \in Databases
        /\ \/ n = -1 /\ eng' = eng
           \/ n = eng.next_txid /\ Began(eng, eng', eng.next_txid)
    BY <1>1, <1>2, <2>1, BeginDoes
  <2> HIDE DEF n
  <2>3. n \in TxnIds
    BY <1>2, <2>2 DEF TxnIds
  <2>4. /\ dbo' \in DbObjects /\ dbo'.h = dbo.h /\ dbo'.txn_handle = n /\ dbo'.txn_active = TRUE
        /\ dbo'.closed = dbo.closed
    BY <1>2, <2>1, <2>3 DEF DbObjects
  <2>5. /\ SameHandles(eng, eng') /\ SameLog(eng, eng') /\ eng'.freed = eng.freed
        /\ eng'.rolledBack = eng.rolledBack /\ eng'.holder = eng.holder
        /\ eng.active \subseteq eng'.active /\ eng'.active \subseteq eng.active \union {n}
        /\ eng'.next_txid \in Nat /\ eng.next_txid <= eng'.next_txid /\ n < eng'.next_txid
        /\ \A u \in eng'.active : u < eng'.next_txid
        /\ n \notin eng.aborted
    <3>1. CASE n = -1 /\ eng' = eng
      BY <1>2, <3>1 DEF SameHandles, SameLog
    <3>2. CASE n = eng.next_txid /\ Began(eng, eng', eng.next_txid)
      BY <1>2, <3>2 DEF Began
    <3> QED
      BY <2>2, <3>1, <3>2
  <2>6. BType'
    BY <2>1, <2>2, <2>4 DEF IBind, BType
  <2>7. Begun'
    BY <1>2, <2>1, <2>4, <2>5 DEF Begun, SameLog
  <2>8. HandlesLive' /\ Listed'
    BY <1>1, <2>1, <2>4, <2>5 DEF IBind, HandlesLive, Listed, SameHandles, IsObject
  <2>9. OpenOwned'
    <3> SUFFICES ASSUME NEW u \in eng'.active \ eng'.rolledBack PROVE u = n
      BY <2>4 DEF OpenOwned
    <3> QED
      BY <1>1, <1>2, <2>1, <2>5 DEF IBind, OpenOwned, Owner, IsObject
  <2>10. Unrevived' /\ FailedApart' /\ AskedFor' /\ NoFreedHandle'
    BY <1>1, <1>2, <2>1, <2>4, <2>5
       DEF IBind, Unrevived, FailedApart, AskedFor, NoFreedHandle, SameLog, IsObject
  <2> QED
    BY <2>6, <2>7, <2>8, <2>9, <2>10 DEF IBind
<1>6. CASE GodotCommit \/ GodotRollback
  <2>1. /\ dbo.h # 0 /\ dbo.txn_active
        /\ dbo' = [dbo EXCEPT !.txn_active = FALSE] /\ UNCHANGED <<lang, objs, failed>>
        /\ \/ eng' = garry_txn_commit(eng, dbo.h, t) /\ asked' = asked
           \/ eng' = garry_txn_rollback(eng, dbo.h, t) /\ asked' = asked \union Ids(t)
    BY <1>6 DEF GodotCommit, GodotRollback, GodotHasDb, NodeTxn
  <2>2. /\ eng' \in Databases
        /\ \/ CommittedIn(eng, eng', t) /\ asked' = asked
           \/ RolledBackIn(eng, eng', t) /\ asked' = asked \union Ids(t)
    BY <1>1, <1>2, <2>1, CommitDoes, RollbackDoes
  <2>3. /\ dbo' \in DbObjects /\ dbo'.h = dbo.h /\ dbo'.txn_handle = t /\ dbo'.txn_active = FALSE
        /\ dbo'.closed = dbo.closed
    BY <1>2, <2>1 DEF DbObjects
  <2>4. \A u \in Ids(t) : u \in Nat /\ u < eng.next_txid
    BY <1>2 DEF Ids, TxnIds
  <2>5. /\ SameHandles(eng, eng') /\ eng'.freed = eng.freed /\ eng'.next_txid = eng.next_txid
        /\ eng'.active \subseteq eng.active /\ eng'.logged = eng.logged
        /\ eng'.committed \subseteq eng.committed \union Ids(t)
        /\ eng'.aborted \subseteq eng.aborted \union Ids(t)
        /\ eng'.rolledBack \subseteq eng.rolledBack \union {t}
        /\ \A u \in eng'.active \ eng'.rolledBack : u \in eng.active \ eng.rolledBack /\ u # t
    BY <2>2 DEF CommittedIn, RolledBackIn
  <2>6. eng'.revived = eng.revived
    BY <1>1, <2>1, <2>2 DEF IBind, Unrevived, CommittedIn, RolledBackIn
  <2>7. BType'
    BY <2>1, <2>2, <2>3 DEF IBind, BType
  <2>8. Begun'
    BY <1>2, <2>1, <2>3, <2>4, <2>5 DEF Begun
  <2>9. HandlesLive'
    BY <1>1, <2>1, <2>3, <2>5 DEF IBind, HandlesLive, SameHandles, IsObject
  <2>10. Listed'
    <3>1. CASE CommittedIn(eng, eng', t)
      BY <3>1 DEF IBind, Listed, CommittedIn, SameHandles, Unlocked
    <3>2. CASE RolledBackIn(eng, eng', t)
      BY <3>2 DEF IBind, Listed, RolledBackIn, SameHandles, Unlocked
    <3> QED
      BY <2>2, <3>1, <3>2
  <2>11. OpenOwned'
    <3> SUFFICES ASSUME NEW u \in eng'.active \ eng'.rolledBack PROVE FALSE
      BY DEF OpenOwned
    <3> QED
      BY <1>1, <1>2, <2>5 DEF IBind, OpenOwned, Owner, IsObject
  <2>12. Unrevived' /\ FailedApart' /\ NoFreedHandle'
    BY <1>1, <1>2, <2>1, <2>3, <2>5, <2>6
       DEF IBind, Unrevived, FailedApart, NoFreedHandle, IsObject
  <2>13. AskedFor'
    <3>1. CASE CommittedIn(eng, eng', t) /\ asked' = asked
      BY <1>1, <2>1, <3>1 DEF IBind, AskedFor, CommittedIn
    <3>2. CASE RolledBackIn(eng, eng', t) /\ asked' = asked \union Ids(t)
      <4>1. t \in eng.active => t \in Ids(t)
        BY <1>2 DEF Ids
      <4> QED
        BY <1>1, <2>1, <3>2, <4>1 DEF IBind, AskedFor, RolledBackIn
    <3> QED
      BY <2>2, <3>1, <3>2
  <2> QED
    BY <2>7, <2>8, <2>9, <2>10, <2>11, <2>12, <2>13 DEF IBind
<1> QED
  BY <1>3, <1>4, <1>5, <1>6
     DEF GodotNext, GodotGet, GodotExists, GodotGetString, GodotQuery, GodotSet, GodotDelete,
         GodotSetString, Writes

-----------------------------------------------------------------------------
(* The theorems.                                                           *)

\* The wrappers but Go.
LEMMA OtherWrappers ==
  ASSUME JsNext \/ GodotNext \/ CsNext \/ UnityNext \/ RustNext \/ DelphiNext
  PROVE  lang # "go"
<1>1. CASE JsNext
  BY <1>1 DEF JsNext, JsGet, JsExists, JsGetData, JsClose, JsSet, JsDelete,
         JsBeginTransaction, JsTxnGet, JsTxnExists, JsTxnCommit, JsTxnRollback,
         JsTxnDestroy, JsCursorNext, JsCursorClose, JsCursorDestroy, JsTxnWrite,
         JsOpenCursor, JsOpen, JsUnfinished
<1>2. CASE GodotNext
  BY <1>2 DEF GodotNext, GodotClose, GodotFree, GodotBegin, GodotCommit, GodotRollback,
         GodotGet, GodotExists, GodotGetString, GodotQuery, GodotSet, GodotDelete,
         GodotSetString, GodotOpen, GodotMethod, GodotHasDb, GodotNode
<1>3. CASE CsNext
  BY <1>3 DEF CsNext, CsGet, CsExists, CsGetObject, CsQuery, CsDispose, CsSet, CsDelete,
         CsSetObject, CsBeginTransaction, CsTxnGet, CsTxnGetObject, CsTxnCommit,
         CsTxnRollback, CsTxnDispose, CsTxnWrite, CsTxnSetObject, CsOpen, CsTxn
<1>4. CASE UnityNext
  BY <1>4 DEF UnityNext, UnityGet, UnityExists, UnityGetObject, UnityQuery, UnityDispose,
         UnitySet, UnityDelete, UnitySetObject, UnityBeginTransaction, UnityTxnGet,
         UnityTxnGetObject, UnityTxnCommit, UnityTxnRollback, UnityTxnDispose,
         UnityTxnWrite, UnityTxnSetObject, UnityOpen, UnityTxn
<1>5. CASE RustNext
  BY <1>5 DEF RustNext, RustGet, RustExists, RustCount, RustDropDatabase, RustSet,
         RustDelete, RustSetBytes, RustGetBytes, RustGetVersionsForKey, RustGetVersions,
         RustBeginTransaction, RustTxnGet, RustTxnExists, RustTxnCommit, RustTxnRollback,
         RustTxnDrop, RustCursorNext, RustCursorDrop, RustTxnWrite, RustCursorOpen,
         RustDb, RustTxn
<1>6. CASE DelphiNext
  BY <1>6 DEF DelphiNext, DelphiGet, DelphiExists, DelphiCount, DelphiFirst, DelphiLast,
         DelphiNextKey, DelphiPrevKey, DelphiDestroy, DelphiSetKeyValue, DelphiDelete,
         DelphiBeginTxn, DelphiCommit, DelphiRollback, DelphiOpenCursor, DelphiCursorNext,
         DelphiCursorDestroy, DelphiDb, DelphiTxn
<1> QED
  BY <1>1, <1>2, <1>3, <1>4, <1>5, <1>6

\* The invariant holds at the start.
LEMMA BindInit == BInit => IBind /\ GoSeen
<1> SUFFICES ASSUME BInit PROVE IBind /\ GoSeen
  OBVIOUS
<1>1. /\ eng \in Databases /\ eng.live \in {0, 1} /\ eng.next_txid = 1
      /\ eng.active = {} /\ eng.rolledBack = {} /\ eng.holder = 0 /\ eng.logged = {}
      /\ eng.committed = {} /\ eng.aborted = {} /\ eng.revived = {} /\ eng.freed = {}
  <2>1. {} \in IdSets /\ {} \in SUBSET Uses
    BY DEF IdSets
  <2>2. NewDatabase \in Databases
    BY <2>1 DEF NewDatabase, Databases
  <2>3. CASE eng = NewDatabase
    BY <2>2, <2>3 DEF NewDatabase
  <2>4. CASE eng = [NewDatabase EXCEPT !.live = 0, !.made = 0]
    <3>1. eng \in Databases
      BY <2>2, <2>4 DEF Databases
    <3>2. eng = [NewDatabase EXCEPT !.live = 0, !.made = 0]
      BY <2>4
    <3> QED
      BY <3>1, <3>2 DEF NewDatabase
  <2> QED
    BY <2>3, <2>4 DEF BInit
<1>2. /\ dbo \in DbObjects /\ dbo.h = eng.live /\ dbo.txn_handle = 0 /\ dbo.txn_active = FALSE
      /\ dbo.closed = FALSE
  BY <1>1 DEF BInit, DbObjects, TxnIds
<1>3. /\ objs \in [Slots -> Objects] /\ \A i \in Slots : objs[i].kind = "none" /\ objs[i].txn = 0
      /\ failed = {}
  BY DEF BInit, NoObj, Objects, TxnIds
<1>4. BType /\ Begun
  BY <1>1, <1>2, <1>3 DEF BType, Begun
<1>5. HandlesLive /\ Listed /\ OpenOwned
  BY <1>1, <1>2, <1>3 DEF HandlesLive, Listed, OpenOwned, IsObject
<1>6. Unrevived /\ FailedApart /\ AskedFor /\ NoFreedHandle
  BY <1>1, <1>2, <1>3 DEF Unrevived, FailedApart, AskedFor, NoFreedHandle, IsObject
<1>7. GoSeen
  BY DEF BInit, GoSeen, NotRead, TxnIds
<1> QED
  BY <1>4, <1>5, <1>6, <1>7 DEF IBind

\* Every step of every wrapper keeps the invariant.
LEMMA BindNext == IBind /\ GoSeen /\ [BNext]_vars => IBind' /\ GoSeen'
<1> SUFFICES ASSUME IBind, GoSeen, [BNext]_vars PROVE IBind' /\ GoSeen'
  OBVIOUS
<1>1. CASE UNCHANGED vars
  <2>1. NoFreedHandle' /\ Unmoved(eng, eng') /\ eng' \in Databases
    BY <1>1 DEF vars, IBind, BType, NoFreedHandle, Unmoved, SameHandles, SameLog
  <2>2. GoSeen'
    BY <1>1 DEF vars, GoSeen
  <2>3. UNCHANGED <<lang, dbo, objs, failed>> /\ asked \subseteq asked'
    BY <1>1 DEF vars
  <2>4. IBind'
    BY <2>1, <2>3, UnmovedKeeps
  <2> QED
    BY <2>2, <2>4
<1>2. CASE /\ UNCHANGED seen
           /\ JsNext \/ GodotNext \/ CsNext \/ UnityNext \/ RustNext \/ DelphiNext
  <2>1. IBind'
    BY <1>2, JsKeeps, GodotKeeps, CsKeeps, UnityKeeps, RustKeeps, DelphiKeeps
  <2>2. lang # "go"
    BY <1>2, OtherWrappers
  <2>3. GoSeen'
    BY <1>2, <2>2 DEF GoSeen
  <2> QED
    BY <2>1, <2>3
<1>3. CASE GoNext
  BY <1>3, GoKeeps, GoSeenKept
<1> QED
  BY <1>1, <1>2, <1>3 DEF BNext

\* The invariant of the wrappers.
THEOREM BindingsSound == BSpec => [](IBind /\ GoSeen)
BY BindInit, BindNext, PTL DEF BSpec

\* No method of the Godot node calls with a handle that was freed, for any
\* number of openings.
THEOREM NodeNeverUsesFreed == BSpec => []NoFreedHandle
<1>1. IBind => NoFreedHandle
  BY DEF IBind
<1> QED
  BY BindingsSound, <1>1, PTL

\* In every wrapper but Rust's an open transaction, and the one that holds the
\* lock, belongs to an object that can still end it.
THEOREM NoneOrphaned == BSpec => []NoOrphan
<1>1. ASSUME IBind PROVE NoOrphan
  <2> SUFFICES ASSUME lang # "rust", NEW u \in eng.active \ eng.rolledBack PROVE u \in Owned
    BY <1>1 DEF NoOrphan, IBind, Listed
  <2>1. eng.live # 0
    BY <1>1 DEF IBind, Listed
  <2>2. CASE dbo.txn_active /\ u = dbo.txn_handle
    BY <2>2 DEF Owned
  <2>3. CASE \E i \in Slots : Owner(i) /\ objs[i].txn = u
    <3> PICK i \in Slots : Owner(i) /\ objs[i].txn = u
      BY <2>3
    <3>1. objs[i].db = eng.live /\ ~objs[i].done
      BY <1>1, <2>1 DEF IBind, HandlesLive, Owner
    <3> QED
      BY <3>1 DEF Owned
  <2> QED
    BY <1>1, <2>2, <2>3 DEF IBind, OpenOwned
<1> QED
  BY BindingsSound, <1>1, PTL

\* No wrapper of JavaScript, Rust or Godot commits a transaction after it was
\* rolled back.
THEOREM NoneRevived == BSpec => []RolledBackStaysOut
<1>1. IBind => RolledBackStaysOut
  BY DEF IBind, Unrevived, RolledBackStaysOut
<1> QED
  BY BindingsSound, <1>1, PTL

\* A single-call write that reported failure is committed only by the Godot
\* node and, if it is a delete, by C#, Unity, Rust and Delphi.
THEOREM FailuresStayOut == BSpec => []FailedWriteStaysOut
<1>1. IBind => FailedWriteStaysOut
  BY DEF IBind, FailedApart, FailedWriteStaysOut, DeletesAnyway
<1> QED
  BY BindingsSound, <1>1, PTL

\* As long as no rollback was asked for, Go, Delphi and Godot can begin a
\* transaction while fewer than max_txns objects are open.
THEOREM SlotsLeft == BSpec => []ReadsLeaveSlots
<1>1. ASSUME IBind PROVE ReadsLeaveSlots
  <2> SUFFICES ASSUME lang \in {"godot", "delphi", "go"}, asked = {}, ~dbo.txn_active,
                      Cardinality(OpenObjects) < max_txns
               PROVE  BeginAllowed(eng)
    BY DEF ReadsLeaveSlots
  <2> DEFINE S == {objs[i].txn : i \in OpenObjects}
             f == [i \in OpenObjects |-> objs[i].txn]
  <2>1. eng.rolledBack = {}
    BY <1>1 DEF IBind, AskedFor
  <2>2. eng.active \subseteq S
    <3> SUFFICES ASSUME NEW u \in eng.active PROVE u \in S
      OBVIOUS
    <3>1. PICK i \in Slots : Owner(i) /\ objs[i].txn = u
      BY <1>1, <2>1 DEF IBind, OpenOwned
    <3>2. i \in OpenObjects
      BY <3>1 DEF Owner, IsObject, OpenObjects
    <3> QED
      BY <3>1, <3>2
  <2>3. IsFiniteSet(OpenObjects)
    BY BindingsAssumption, FS_Subset DEF OpenObjects
  <2>4. IsFiniteSet(S) /\ Cardinality(S) <= Cardinality(OpenObjects)
    <3>1. f \in Surjection(OpenObjects, S)
      BY DEF Surjection
    <3> HIDE DEF f, S
    <3> QED
      BY <2>3, <3>1, FS_Surjection
  <2> HIDE DEF S
  <2>5. IsFiniteSet(eng.active) /\ Cardinality(eng.active) <= Cardinality(S)
    BY <2>2, <2>4, FS_Subset
  <2>6. Cardinality(eng.active) \in Nat /\ Cardinality(S) \in Nat /\ Cardinality(OpenObjects) \in Nat
    BY <2>3, <2>4, <2>5, FS_CardinalityType
  <2>7. Cardinality(eng.active) < max_txns /\ Cardinality(eng.active) < list_cap
    BY <2>4, <2>5, <2>6, ApiAssumption
  <2>8. eng.active \ eng.rolledBack = eng.active
    BY <2>1
  <2> QED
    BY <2>7, <2>8 DEF BeginAllowed
<1> QED
  BY BindingsSound, <1>1, PTL
=============================================================================
