------------------------------ MODULE Bindings ------------------------------
(***************************************************************************)
(* The language wrappers of src/wrappers over the C interface.  Each keeps *)
(* a handle and, per transaction or cursor object, a copy of the handle    *)
(* and a transaction id; what differs is which call ends a transaction,    *)
(* what an object checks before it calls, and what its disposal does.      *)
(*                                                                         *)
(* "lang" is the wrapper of this behaviour, chosen at the start.  A client *)
(* has one database object and up to |Slots| transaction and cursor        *)
(* objects, and calls their public methods in any order; a wrapper method  *)
(* is one step, and steps of open transactions interleave, except in Go,   *)
(* where a method reads the handle in one step and calls the library in    *)
(* the next.  A Go or Delphi client that has ended a transaction may still *)
(* hold its id.                                                            *)
(*                                                                         *)
(* An object leaves by its destructor (js), its Dispose (C#, Unity) or its *)
(* drop (Rust).  A GarryTransaction of C# or Unity has no finalizer: one   *)
(* that is collected without Dispose leaves its transaction open, which is *)
(* not modelled; the client is taken to dispose of what it begins.         *)
(***************************************************************************)
EXTENDS GarryApi

CONSTANTS Langs,     \* the wrappers considered
          Slots,     \* places for transaction and cursor objects
          MaxTxn,    \* bound: transactions begun
          MaxOpen    \* bound: times a Godot node opens its database

ASSUME BindingsAssumption ==
  /\ Langs \subseteq {"js", "godot", "csharp", "unity", "rust", "go", "delphi"}
  /\ MaxTxn \in Nat /\ MaxOpen \in Nat
  /\ IsFiniteSet(Slots)

VARIABLES lang,
          eng,       \* the database, a record of GarryApi
          dbo,       \* the database object: its handle, whether it was closed,
                     \* and the Godot node's txn_handle and txn_active
          objs,      \* transaction and cursor objects
          failed,    \* writes of single-call methods that reported failure
          asked,     \* transactions rolled back by the client, by the disposal
                     \* of an object it left open, or after a failed write
          seen       \* Go: per slot, the handle that a method on it has read
                     \* and has not called with yet

vars == <<lang, eng, dbo, objs, failed, asked, seen>>

NotRead == -1

NoObj == [kind |-> "none", db |-> 0, txn |-> 0, done |-> FALSE]

BInit ==
  /\ lang \in Langs
  /\ eng = IF lang = "godot" THEN [NewDatabase EXCEPT !.live = 0, !.made = 0] ELSE NewDatabase
  /\ dbo = [h |-> eng.live, closed |-> FALSE, txn_handle |-> 0, txn_active |-> FALSE]
  /\ objs = [i \in Slots |-> NoObj]
  /\ failed = {}
  /\ asked = {}
  /\ seen = [i \in Slots |-> NotRead]

-----------------------------------------------------------------------------
(* Single-call methods: begin, one operation, and the end that the method  *)
(* chooses by the operation's status.                                      *)

Writes == {"set", "delete"}
Statuses == {"OK", "INVALID_ARG", "NOT_FOUND"}

Called(d, h, t, m, o) == IF m \in Writes THEN WriteCall(d, h, t, o) ELSE ReadCall(d, h)

Status(d, h, t, m, o) ==
  CASE m = "set" -> SetStatus(d, h, t, o)
    [] m = "delete" -> DeleteStatus(d, h, t, o)
    [] OTHER -> ReadStatus(d, h, t, o = "ok")

Ended(d, h, t, end) ==
  CASE end = "commit" -> garry_txn_commit(d, h, t)
    [] end = "rollback" -> garry_txn_rollback(d, h, t)
    [] end = "none" -> d

\* The end a method chooses for each status.
Commits == [st \in Statuses |-> "commit"]
RollsBack == [st \in Statuses |-> "rollback"]
CommitsOk == [st \in Statuses |-> IF st = "OK" THEN "commit" ELSE "rollback"]
CommitsOkOnly == [st \in Statuses |-> IF st = "OK" THEN "commit" ELSE "none"]

CanBegin == eng.next_txid <= MaxTxn

SingleCall(m, o, end) ==
  LET h == dbo.h
      t == BegunId(eng, h)
      begun == garry_txn_begin(eng, h)
      st == Status(begun, h, t, m, o)
      bad == m \in Writes /\ st # "OK"
  IN /\ CanBegin
     /\ eng' = Ended(Called(begun, h, t, m, o), h, t, end[st])
     /\ failed' = IF bad THEN failed \union {[txn |-> u, op |-> m] : u \in Ids(t)} ELSE failed
     /\ asked' = IF bad THEN asked \union Ids(t) ELSE asked
     /\ UNCHANGED <<lang, dbo, objs>>

Found == {"ok", "missing"}

-----------------------------------------------------------------------------
(* Objects.  A new object stores the handle and what garry_txn_begin       *)
(* returned, -1 included.                                                  *)

\* A slot is free when it has no object, or the id of an ended transaction.
Free(i) ==
  \/ objs[i].kind = "none"
  \/ lang \in {"go", "delphi"} /\ objs[i].kind = "txn" /\ objs[i].done

Object(kind, h, t) == [kind |-> kind, db |-> h, txn |-> t, done |-> FALSE]

BeginObject(i, kind) ==
  /\ CanBegin
  /\ Free(i)
  /\ eng' = garry_txn_begin(eng, dbo.h)
  /\ objs' = [objs EXCEPT ![i] = Object(kind, dbo.h, BegunId(eng, dbo.h))]
  /\ UNCHANGED <<lang, dbo, failed, asked>>

\* A step of an object: the database afterwards, the object afterwards, and
\* whether the transaction was rolled back.
Step(i, d, o, back) ==
  /\ eng' = d
  /\ objs' = [objs EXCEPT ![i] = o]
  /\ asked' = IF back THEN asked \union Ids(objs[i].txn) ELSE asked
  /\ UNCHANGED <<lang, dbo, failed>>

Txn(i) == objs[i].kind = "txn"
Cursor(i) == objs[i].kind = "cursor"
Done(i) == [objs[i] EXCEPT !.done = TRUE]

Reading(i) == Step(i, ReadCall(eng, objs[i].db), objs[i], FALSE)
Writing(i, o) == Step(i, WriteCall(eng, objs[i].db, objs[i].txn, o), objs[i], FALSE)
Committed(i) == garry_txn_commit(eng, objs[i].db, objs[i].txn)
RolledBack(i) == garry_txn_rollback(eng, objs[i].db, objs[i].txn)

\* The database object closes its handle and keeps h in its place.
ClosingWith(h) ==
  /\ eng' = garry_database_close(eng, dbo.h)
  /\ dbo' = [dbo EXCEPT !.h = h, !.closed = TRUE]
  /\ UNCHANGED <<lang, objs, failed, asked>>

-----------------------------------------------------------------------------
(* Node.js: src/wrappers/js/garry/src/garry.cc.  ThrowIfClosed and         *)
(* ThrowIfFinished throw a C++ exception, which ends the method.           *)

JsOpen == lang = "js" /\ ~dbo.closed

JsGet == JsOpen /\ SingleCall("get", "ok", RollsBack)
JsSetCommits(o) == JsOpen /\ SingleCall("set", o, Commits)
JsSet(o) == JsOpen /\ SingleCall("set", o, CommitsOk)
JsDelete(o) == JsOpen /\ SingleCall("delete", o, CommitsOk)
JsExists == JsOpen /\ SingleCall("exists", "ok", Commits)
JsGetData == JsOpen /\ SingleCall("data", "ok", Commits)
JsClose == JsOpen /\ ClosingWith(0)

JsBeginTransaction(i) == JsOpen /\ BeginObject(i, "txn")

JsUnfinished(i) == lang = "js" /\ Txn(i) /\ ~objs[i].done

JsTxnGet(i) == JsUnfinished(i) /\ Reading(i)
JsTxnExists(i) == JsUnfinished(i) /\ Reading(i)
JsTxnWrite(i, o) == JsUnfinished(i) /\ Writing(i, o)
JsTxnCommitAgain(i) == lang = "js" /\ Txn(i) /\ Step(i, Committed(i), Done(i), FALSE)
JsTxnCommit(i) == JsUnfinished(i) /\ Step(i, Committed(i), Done(i), FALSE)
JsTxnRollback(i) == JsUnfinished(i) /\ Step(i, RolledBack(i), Done(i), TRUE)
JsTxnDestroy(i) ==
  /\ lang = "js"
  /\ Txn(i)
  /\ IF objs[i].done THEN Step(i, eng, NoObj, FALSE) ELSE Step(i, RolledBack(i), NoObj, TRUE)

\* The cursor's own transaction is rolled back if no cursor can be made.
JsOpenCursor(i, made) ==
  /\ JsOpen
  /\ IF made THEN BeginObject(i, "cursor") ELSE SingleCall("cursor", "ok", RollsBack)

JsCursorNext(i) == lang = "js" /\ Cursor(i) /\ Step(i, CursorCall(eng, objs[i].db), objs[i], FALSE)
JsCursorClose(i) == lang = "js" /\ Cursor(i) /\ Step(i, Committed(i), NoObj, FALSE)
JsCursorDestroy(i) == lang = "js" /\ Cursor(i) /\ Step(i, RolledBack(i), NoObj, TRUE)

-----------------------------------------------------------------------------
(* Godot: src/wrappers/godot/garry/src/garry_db.c.  The node holds at most *)
(* one transaction; every method exists as a call and as a ptrcall with    *)
(* the same body.  A method uses the node's transaction if there is one,   *)
(* and otherwise one of its own, which it commits whatever came of it.     *)

GodotNode == lang = "godot" /\ ~dbo.closed
GodotHasDb == GodotNode /\ dbo.h # 0

GodotOpen(ok) ==
  LET back == dbo.h # 0 /\ dbo.txn_active
      before == IF back THEN garry_txn_rollback(eng, dbo.h, dbo.txn_handle) ELSE eng
      closed == garry_database_close(before, dbo.h)
      after == IF ok THEN garry_database_open(closed) ELSE closed
  IN /\ GodotNode
     /\ ok => eng.made < MaxOpen
     /\ eng' = after
     /\ dbo' = [dbo EXCEPT !.h = after.live, !.txn_active = IF back THEN FALSE ELSE @]
     /\ asked' = IF back THEN asked \union Ids(dbo.txn_handle) ELSE asked
     /\ UNCHANGED <<lang, objs, failed>>

GodotFree ==
  LET back == dbo.h # 0 /\ dbo.txn_active
      before == IF back THEN garry_txn_rollback(eng, dbo.h, dbo.txn_handle) ELSE eng
  IN /\ GodotNode
     /\ eng' = garry_database_close(before, dbo.h)
     /\ dbo' = [dbo EXCEPT !.h = 0, !.closed = TRUE, !.txn_active = FALSE]
     /\ asked' = IF back THEN asked \union Ids(dbo.txn_handle) ELSE asked
     /\ UNCHANGED <<lang, objs, failed>>

\* Variant: the node keeps the handle it closed.
GodotCloseKeepsHandle ==
  /\ GodotHasDb
  /\ eng' = garry_database_close(eng, dbo.h)
  /\ UNCHANGED <<lang, dbo, objs, failed, asked>>

\* close leaves txn_active as it is.
GodotClose ==
  /\ GodotHasDb
  /\ eng' = garry_database_close(eng, dbo.h)
  /\ dbo' = [dbo EXCEPT !.h = 0]
  /\ UNCHANGED <<lang, objs, failed, asked>>

GodotMethod(m, o) ==
  /\ GodotHasDb
  /\ IF dbo.txn_active
     THEN /\ eng' = Called(eng, dbo.h, dbo.txn_handle, m, o)
          /\ UNCHANGED <<lang, dbo, objs, failed, asked>>
     ELSE SingleCall(m, o, Commits)

GodotGet == GodotMethod("get", "ok")
GodotSet(o) == GodotMethod("set", o)
GodotDelete(o) == GodotMethod("delete", o)
GodotExists == GodotMethod("exists", "ok")
GodotGetString == GodotMethod("get", "ok")
GodotSetString(o) == GodotMethod("set", o)
GodotQuery == GodotMethod("cursor", "ok")

NodeTxn(d, active) ==
  /\ eng' = d
  /\ dbo' = [dbo EXCEPT !.txn_active = active]
  /\ UNCHANGED <<lang, objs, failed>>

GodotBeginNested ==
  /\ GodotHasDb
  /\ CanBegin
  /\ eng' = garry_txn_begin(eng, dbo.h)
  /\ dbo' = [dbo EXCEPT !.txn_handle = BegunId(eng, dbo.h), !.txn_active = TRUE]
  /\ UNCHANGED <<lang, objs, failed, asked>>

GodotBegin ==
  /\ GodotHasDb /\ ~dbo.txn_active
  /\ CanBegin
  /\ eng' = garry_txn_begin(eng, dbo.h)
  /\ dbo' = [dbo EXCEPT !.txn_handle = BegunId(eng, dbo.h), !.txn_active = TRUE]
  /\ UNCHANGED <<lang, objs, failed, asked>>

GodotCommit ==
  /\ GodotHasDb /\ dbo.txn_active
  /\ NodeTxn(garry_txn_commit(eng, dbo.h, dbo.txn_handle), FALSE)
  /\ UNCHANGED asked

GodotRollback ==
  /\ GodotHasDb /\ dbo.txn_active
  /\ NodeTxn(garry_txn_rollback(eng, dbo.h, dbo.txn_handle), FALSE)
  /\ asked' = asked \union Ids(dbo.txn_handle)

-----------------------------------------------------------------------------
(* C#: src/wrappers/c-sharp/GarrySharp.  Single-call methods use a         *)
(* transaction object in a using block, so an exception rolls it back; so  *)
(* does a method that does not commit.  An object set writes several pairs *)
(* and stops at the first that fails: some are logged then, which is the   *)
(* outcome "late".                                                         *)

CsOpen == lang = "csharp" /\ ~dbo.closed
CsTxn(i) == lang = "csharp" /\ Txn(i)

CsGet == CsOpen /\ SingleCall("get", "ok", RollsBack)
CsSet(o) == CsOpen /\ SingleCall("set", o, CommitsOk)
CsDelete(o) == CsOpen /\ SingleCall("delete", o, Commits)
CsExists == CsOpen /\ SingleCall("exists", "ok", RollsBack)
CsGetObject == CsOpen /\ SingleCall("cursor", "ok", RollsBack)
CsSetObject(o) == CsOpen /\ SingleCall("set", o, CommitsOk)
CsQuery == CsOpen /\ SingleCall("cursor", "ok", RollsBack)

\* Dispose keeps the handle; _disposed guards the database's own methods.
CsDispose == CsOpen /\ ClosingWith(dbo.h)

CsBeginTransaction(i) == CsOpen /\ BeginObject(i, "txn")
CsTxnGet(i) == CsTxn(i) /\ Reading(i)
CsTxnGetObject(i) == CsTxn(i) /\ Reading(i)
CsTxnWrite(i, o) == CsTxn(i) /\ Writing(i, o)
CsTxnSetObject(i, o) == CsTxn(i) /\ Writing(i, o)
CsTxnCommit(i) == CsTxn(i) /\ Step(i, Committed(i), Done(i), FALSE)
CsTxnRollback(i) == CsTxn(i) /\ Step(i, RolledBack(i), Done(i), TRUE)
CsTxnDispose(i) ==
  /\ CsTxn(i)
  /\ IF objs[i].done THEN Step(i, eng, NoObj, FALSE) ELSE Step(i, RolledBack(i), NoObj, TRUE)

-----------------------------------------------------------------------------
(* Unity: src/wrappers/unity/MeowDB/Runtime, a copy of the C# classes for  *)
(* an older language version.                                              *)

UnityOpen == lang = "unity" /\ ~dbo.closed
UnityTxn(i) == lang = "unity" /\ Txn(i)

UnityGet == UnityOpen /\ SingleCall("get", "ok", RollsBack)
UnitySet(o) == UnityOpen /\ SingleCall("set", o, CommitsOk)
UnityDelete(o) == UnityOpen /\ SingleCall("delete", o, Commits)
UnityExists == UnityOpen /\ SingleCall("exists", "ok", RollsBack)
UnityGetObject == UnityOpen /\ SingleCall("cursor", "ok", RollsBack)
UnitySetObject(o) == UnityOpen /\ SingleCall("set", o, CommitsOk)
UnityQuery == UnityOpen /\ SingleCall("cursor", "ok", RollsBack)

UnityDispose == UnityOpen /\ ClosingWith(dbo.h)

UnityBeginTransaction(i) == UnityOpen /\ BeginObject(i, "txn")
UnityTxnGet(i) == UnityTxn(i) /\ Reading(i)
UnityTxnGetObject(i) == UnityTxn(i) /\ Reading(i)
UnityTxnWrite(i, o) == UnityTxn(i) /\ Writing(i, o)
UnityTxnSetObject(i, o) == UnityTxn(i) /\ Writing(i, o)
UnityTxnCommit(i) == UnityTxn(i) /\ Step(i, Committed(i), Done(i), FALSE)
UnityTxnRollback(i) == UnityTxn(i) /\ Step(i, RolledBack(i), Done(i), TRUE)
UnityTxnDispose(i) ==
  /\ UnityTxn(i)
  /\ IF objs[i].done THEN Step(i, eng, NoObj, FALSE) ELSE Step(i, RolledBack(i), NoObj, TRUE)

-----------------------------------------------------------------------------
(* Rust: src/wrappers/rust/GArY/src/lib.rs.  Transactions are consumed by  *)
(* commit and rollback, and have no Drop: one that goes out of scope is    *)
(* left open.  That is also what the ? after set does in Database::set.    *)
(* The methods for bytes and versions return at once when begin fails.     *)

RustDb == lang = "rust" /\ ~dbo.closed
Begins == BegunId(eng, dbo.h) # -1

RustGet == RustDb /\ SingleCall("get", "ok", Commits)
RustSet(o) == RustDb /\ SingleCall("set", o, CommitsOkOnly)
RustDelete(o) == RustDb /\ SingleCall("delete", o, Commits)
RustExists == RustDb /\ SingleCall("exists", "ok", Commits)
RustCount == RustDb /\ SingleCall("count", "ok", Commits)
RustGetBytes(f) == RustDb /\ Begins /\ SingleCall("get", f, CommitsOk)
RustSetBytes(o) == RustDb /\ Begins /\ SingleCall("set", o, CommitsOk)
RustGetVersionsForKey(f) == RustDb /\ Begins /\ SingleCall("iter", f, CommitsOk)
RustGetVersions(f) == RustDb /\ Begins /\ SingleCall("iter", f, CommitsOk)
RustDropDatabase == RustDb /\ ClosingWith(0)

RustTxn(i) == lang = "rust" /\ Txn(i)

RustBeginTransaction(i) == RustDb /\ BeginObject(i, "txn")
RustTxnGet(i) == RustTxn(i) /\ Reading(i)
RustTxnExists(i) == RustTxn(i) /\ Reading(i)
RustTxnWrite(i, o) == RustTxn(i) /\ Writing(i, o)
RustTxnCommit(i) == RustTxn(i) /\ Step(i, Committed(i), NoObj, FALSE)
RustTxnRollback(i) == RustTxn(i) /\ Step(i, RolledBack(i), NoObj, TRUE)
RustTxnDrop(i) == RustTxn(i) /\ Step(i, eng, NoObj, FALSE)

RustCursorOpen(i, made) ==
  /\ RustDb
  /\ IF made THEN BeginObject(i, "cursor") ELSE SingleCall("cursor", "ok", RollsBack)

RustCursorNext(i) == lang = "rust" /\ Cursor(i) /\ Step(i, CursorCall(eng, objs[i].db), objs[i], FALSE)
RustCursorDrop(i) == lang = "rust" /\ Cursor(i) /\ Step(i, Committed(i), NoObj, FALSE)

-----------------------------------------------------------------------------
(* Go: src/wrappers/go/garry-go/garry.go.  No single-call methods.  A Txn  *)
(* refers to its Database, and a method on it reads the handle there and   *)
(* passes it to the library; after Close it is nil and the call does       *)
(* nothing.  Close is also the finalizer of the Database.  It takes no     *)
(* lock, and no method keeps the Database reachable while the library has  *)
(* its handle, so that Close may run, by another goroutine or by the       *)
(* collector, between the two steps of a method.  Methods on different     *)
(* slots are in progress at once, as those of several goroutines; a method *)
(* that reads the handle twice is two calls.  A Cursor has the C cursor    *)
(* only.                                                                   *)

GoIdle(i) == lang = "go" /\ seen[i] = NotRead
GoCalls(i) == lang = "go" /\ seen[i] # NotRead /\ seen' = [seen EXCEPT ![i] = NotRead]
GoTxn(i) == GoCalls(i) /\ Txn(i)

GoReadHandle(i) ==
  /\ GoIdle(i)
  /\ Free(i) \/ Txn(i)
  /\ seen' = [seen EXCEPT ![i] = dbo.h]
  /\ UNCHANGED <<lang, eng, dbo, objs, failed, asked>>

\* Close frees the database and then forgets it.
GoClose == lang = "go" /\ dbo.h # 0 /\ ClosingWith(dbo.h) /\ UNCHANGED seen
GoCloseForgets ==
  /\ lang = "go" /\ dbo.closed /\ dbo.h # 0
  /\ dbo' = [dbo EXCEPT !.h = 0]
  /\ UNCHANGED <<lang, eng, objs, failed, asked, seen>>

GoBegin(i) ==
  /\ GoCalls(i)
  /\ CanBegin
  /\ Free(i)
  /\ Step(i, garry_txn_begin(eng, seen[i]), Object("txn", seen[i], BegunId(eng, seen[i])), FALSE)

GoReading(i) == GoTxn(i) /\ Step(i, ReadCall(eng, seen[i]), objs[i], FALSE)
GoWriting(i, o) == GoTxn(i) /\ Step(i, WriteCall(eng, seen[i], objs[i].txn, o), objs[i], FALSE)
GoGet(i) == GoReading(i)
GoGetDefault(i) == GoReading(i)
GoGetStr(i) == GoReading(i)
GoNavigate(i) == GoReading(i)
GoForEach(i) == GoReading(i)
GoWrite(i, o) == GoWriting(i, o)
GoSetStr(i, o) == GoWriting(i, o)
GoCommit(i) == GoTxn(i) /\ Step(i, garry_txn_commit(eng, seen[i], objs[i].txn), Done(i), FALSE)
GoRollback(i) == GoTxn(i) /\ Step(i, garry_txn_rollback(eng, seen[i], objs[i].txn), Done(i), TRUE)
GoCursorOpen(i, j) ==
  /\ GoTxn(i)
  /\ seen[i] # 0
  /\ Free(j)
  /\ Step(j, ReadCall(eng, seen[i]), Object("cursor", seen[i], objs[i].txn), FALSE)
GoCursorNext(i) ==
  lang = "go" /\ Cursor(i) /\ Step(i, CursorCall(eng, objs[i].db), objs[i], FALSE) /\ UNCHANGED seen
GoCursorClose(i) == lang = "go" /\ Cursor(i) /\ Step(i, eng, NoObj, FALSE) /\ UNCHANGED seen

-----------------------------------------------------------------------------
(* Delphi: src/wrappers/delphi/garry/garry.pas.  A set that succeeds       *)
(* commits twice.  A transaction is an id that the client passes to Commit *)
(* and Rollback of the database; no method reads or writes with it.  The   *)
(* transaction of a cursor is committed as soon as the cursor is open.     *)

DelphiDb == lang = "delphi" /\ ~dbo.closed

DelphiGetRollsBack == DelphiDb /\ SingleCall("get", "ok", RollsBack)
DelphiGet == DelphiDb /\ SingleCall("get", "ok", Commits)
DelphiSetKeyValue(o) == DelphiDb /\ SingleCall("set", o, CommitsOk)
DelphiDelete(o) == DelphiDb /\ SingleCall("delete", o, Commits)
DelphiExists == DelphiDb /\ SingleCall("exists", "ok", Commits)
DelphiCount == DelphiDb /\ SingleCall("count", "ok", Commits)
DelphiFirst == DelphiDb /\ SingleCall("first", "ok", Commits)
DelphiLast == DelphiDb /\ SingleCall("last", "ok", Commits)
DelphiNextKey == DelphiDb /\ SingleCall("next", "ok", Commits)
DelphiPrevKey == DelphiDb /\ SingleCall("prev", "ok", Commits)
DelphiDestroy == DelphiDb /\ ClosingWith(0)

DelphiTxn(i) == DelphiDb /\ Txn(i)

DelphiBeginTxn(i) == DelphiDb /\ BeginObject(i, "txn")
DelphiCommit(i) == DelphiTxn(i) /\ Step(i, Committed(i), Done(i), FALSE)
DelphiRollback(i) == DelphiTxn(i) /\ Step(i, RolledBack(i), Done(i), TRUE)

DelphiOpenCursor(i) ==
  LET t == BegunId(eng, dbo.h)
  IN /\ DelphiDb
     /\ CanBegin
     /\ Free(i)
     /\ Step(i, garry_txn_commit(garry_txn_begin(eng, dbo.h), dbo.h, t),
             Object("cursor", dbo.h, t), FALSE)

DelphiCursorNext(i) == lang = "delphi" /\ Cursor(i) /\ Step(i, CursorCall(eng, objs[i].db), objs[i], FALSE)
DelphiCursorDestroy(i) == lang = "delphi" /\ Cursor(i) /\ Step(i, eng, NoObj, FALSE)

-----------------------------------------------------------------------------
JsNext ==
  \/ JsGet \/ JsExists \/ JsGetData \/ JsClose
  \/ \E o \in Outcomes : JsSet(o) \/ JsDelete(o)
  \/ \E i \in Slots :
       \/ JsBeginTransaction(i) \/ JsTxnGet(i) \/ JsTxnExists(i) \/ JsTxnCommit(i) \/ JsTxnRollback(i)
       \/ JsTxnDestroy(i) \/ JsCursorNext(i) \/ JsCursorClose(i) \/ JsCursorDestroy(i)
       \/ \E o \in Outcomes : JsTxnWrite(i, o)
       \/ \E made \in BOOLEAN : JsOpenCursor(i, made)

GodotNext ==
  \/ GodotClose \/ GodotFree \/ GodotBegin \/ GodotCommit \/ GodotRollback
  \/ GodotGet \/ GodotExists \/ GodotGetString \/ GodotQuery
  \/ \E o \in Outcomes : GodotSet(o) \/ GodotDelete(o) \/ GodotSetString(o)
  \/ \E ok \in BOOLEAN : GodotOpen(ok)

CsNext ==
  \/ CsGet \/ CsExists \/ CsGetObject \/ CsQuery \/ CsDispose
  \/ \E o \in Outcomes : CsSet(o) \/ CsDelete(o) \/ CsSetObject(o)
  \/ \E i \in Slots :
       \/ CsBeginTransaction(i) \/ CsTxnGet(i) \/ CsTxnGetObject(i) \/ CsTxnCommit(i) \/ CsTxnRollback(i)
       \/ CsTxnDispose(i)
       \/ \E o \in Outcomes : CsTxnWrite(i, o) \/ CsTxnSetObject(i, o)

UnityNext ==
  \/ UnityGet \/ UnityExists \/ UnityGetObject \/ UnityQuery \/ UnityDispose
  \/ \E o \in Outcomes : UnitySet(o) \/ UnityDelete(o) \/ UnitySetObject(o)
  \/ \E i \in Slots :
       \/ UnityBeginTransaction(i) \/ UnityTxnGet(i) \/ UnityTxnGetObject(i) \/ UnityTxnCommit(i)
       \/ UnityTxnRollback(i) \/ UnityTxnDispose(i)
       \/ \E o \in Outcomes : UnityTxnWrite(i, o) \/ UnityTxnSetObject(i, o)

RustNext ==
  \/ RustGet \/ RustExists \/ RustCount \/ RustDropDatabase
  \/ \E o \in Outcomes : RustSet(o) \/ RustDelete(o) \/ RustSetBytes(o)
  \/ \E f \in Found : RustGetBytes(f) \/ RustGetVersionsForKey(f) \/ RustGetVersions(f)
  \/ \E i \in Slots :
       \/ RustBeginTransaction(i) \/ RustTxnGet(i) \/ RustTxnExists(i) \/ RustTxnCommit(i) \/ RustTxnRollback(i)
       \/ RustTxnDrop(i) \/ RustCursorNext(i) \/ RustCursorDrop(i)
       \/ \E o \in Outcomes : RustTxnWrite(i, o)
       \/ \E made \in BOOLEAN : RustCursorOpen(i, made)

GoNext ==
  \/ GoClose \/ GoCloseForgets
  \/ \E i \in Slots :
       \/ GoReadHandle(i) \/ GoBegin(i) \/ GoGet(i) \/ GoGetDefault(i) \/ GoGetStr(i) \/ GoNavigate(i) \/ GoForEach(i)
       \/ GoCommit(i) \/ GoRollback(i)
       \/ GoCursorNext(i) \/ GoCursorClose(i)
       \/ \E o \in Outcomes : GoWrite(i, o) \/ GoSetStr(i, o)
       \/ \E j \in Slots : GoCursorOpen(i, j)

DelphiNext ==
  \/ DelphiGet \/ DelphiExists \/ DelphiCount \/ DelphiFirst \/ DelphiLast
  \/ DelphiNextKey \/ DelphiPrevKey \/ DelphiDestroy
  \/ \E o \in Outcomes : DelphiSetKeyValue(o) \/ DelphiDelete(o)
  \/ \E i \in Slots :
       \/ DelphiBeginTxn(i) \/ DelphiCommit(i) \/ DelphiRollback(i)
       \/ DelphiOpenCursor(i) \/ DelphiCursorNext(i) \/ DelphiCursorDestroy(i)

\* After a use of freed memory nothing is said about the behaviour.
BNext ==
  /\ eng.freed = {}
  /\ \/ (JsNext \/ GodotNext \/ CsNext \/ UnityNext \/ RustNext \/ DelphiNext) /\ UNCHANGED seen
     \/ GoNext

BSpec == BInit /\ [][BNext]_vars

-----------------------------------------------------------------------------
(* Properties.  A wrapper that a property does not name breaks it; the     *)
(* README lists those.                                                     *)

\* No method of the Godot node reaches a database after it was freed, however
\* often the node is opened, closed and opened again while it has a
\* transaction.  Every other wrapper breaks this: in Go Close may run between
\* the two steps of a method.
NoFreedHandle ==
  lang = "godot" => eng.freed = {}

Owned ==
  {objs[i].txn : i \in {j \in Slots : objs[j].db = eng.live /\ ~objs[j].done}}
    \union (IF dbo.txn_active THEN {dbo.txn_handle} ELSE {})

\* A transaction that is open in the engine, and one that holds the key's
\* lock, belongs to an object through which the client can still end it:
\* no method returns, fails, disposes of an object or destroys one and leaves
\* a lock that blocks every later writer; an object of C# or Unity that is
\* never disposed of is outside the model.  Rust's Database::set does when it fails.
NoOrphan ==
  lang # "rust" =>
    /\ eng.active \ eng.rolledBack \subseteq Owned
    /\ eng.holder # 0 => eng.holder \in Owned

\* A transaction rolled back by a client, a destructor or the node is not
\* committed afterwards, which would publish its versions, whatever is
\* called on the objects later.
RolledBackStaysOut ==
  lang \in {"js", "rust", "godot"} => eng.revived = {}

\* A write that a single-call method reported as failed is not replayed by
\* recovery: its record in the log has no COMMIT.  The Godot node commits
\* whatever the status; C#, Unity, Rust and Delphi commit a failed delete.
FailedWriteStaysOut ==
  \A f \in failed :
    f.txn \in eng.logged \intersect eng.committed =>
      lang = "godot" \/ (f.op = "delete" /\ lang \in {"csharp", "unity", "rust", "delphi"})

OpenObjects == {i \in Slots : objs[i].kind # "none" /\ ~objs[i].done}

\* As long as nothing was rolled back on request or after a failed write, a
\* database with fewer open transactions than max_txns begins another: the
\* wrapper's own transactions leave nothing in the active list.  JS, C# and
\* Unity end their reads with a rollback, whose entry stays for good.
ReadsLeaveSlots ==
  lang \in {"godot", "delphi", "go"} /\ eng.live # 0 /\ asked = {} /\ ~dbo.txn_active
    /\ Cardinality(OpenObjects) < max_txns
    => BeginAllowed(eng)
=============================================================================
