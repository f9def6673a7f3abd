------------------------------ MODULE JobStore ------------------------------
(***************************************************************************)
(* SqliteJobStore as its threads see it: one connection shared by all of   *)
(* them, a lock that update() holds and update_finding() does not.         *)
(*                                                                         *)
(* sqlite3 opens a transaction at the first statement that writes; every   *)
(* thread's statements fall into the one open transaction of the           *)
(* connection, and a commit by any thread commits all of it.  A statement  *)
(* is one step.  One job and one finding are enough for threads to meet.   *)
(***************************************************************************)
EXTENDS Naturals, Sequences

CONSTANTS
    Updaters,       \* threads in update(): workers and cancel handlers
    Triagers,       \* threads in update_finding()
    Fields,         \* FINDING_STATE_FIELDS
    Nobody,         \* the holder of the lock when it is free
    MaxOps,         \* bound: calls of update and update_finding
    MayRaise        \* whether a statement may raise sqlite3.Error

ASSUME StoreAssumption ==
    MaxOps \in Nat /\ MayRaise \in BOOLEAN /\ Nobody \notin Updaters

VARIABLES
    view,       \* the database as the connection sees it
    durable,    \* the database as last committed
    lock,       \* the holder of _lock
    updater,    \* each thread in update(): its next statement
    triager,    \* each thread in update_finding(): its next statement
    ops,        \* calls so far; a call is named by its number
    answered,   \* history: calls that returned normally
    torn        \* history: part of an update may have been committed

dbVars == <<view, durable>>
vars == <<dbVars, lock, updater, triager, ops, answered, torn>>

Op == 0..MaxOps
Finding == [Fields -> Op]
Change == [previous : Finding, new : Finding, by : Op]

(* The job's row holds the update that wrote it last and the move that gave *)
(* its status; the events and the transition rows; the finding's state and  *)
(* history.  Every value is named by the call that wrote it.                *)
Database ==
    [row : Op, status : Op, events : SUBSET Op, moves : Seq(Op),
     finding : Finding, history : Seq(Change)]

Untouched == [f \in Fields |-> 0]

Update == [at : {"idle", "update", "event", "transition", "commit"}, op : Op,
           kind : {"progress", "move"}]
Triage == [at : {"idle", "read", "replace", "history", "commit"}, op : Op,
           previous : Finding, new : Finding]

NoUpdate == [at |-> "idle", op |-> 0, kind |-> "progress"]
NoTriage == [at |-> "idle", op |-> 0, previous |-> Untouched, new |-> Untouched]

Init ==
    /\ view = [row |-> 0, status |-> 0, events |-> {0}, moves |-> <<>>,
               finding |-> Untouched, history |-> <<>>]
    /\ durable = view
    /\ lock = Nobody
    /\ updater = [u \in Updaters |-> NoUpdate]
    /\ triager = [t \in Triagers |-> NoTriage]
    /\ ops = 0
    /\ answered = {}
    /\ torn = FALSE
-----------------------------------------------------------------------------
(* update(): everything under the lock. *)

UpdateAt(u, here, next) ==
    updater[u].at = here /\ updater' = [updater EXCEPT ![u].at = next]

(* The row is read and fn applied: it adds an event, and may move the status. *)
Begin(u) ==
    /\ updater[u].at = "idle" /\ lock = Nobody /\ ops < MaxOps
    /\ ops' = ops + 1
    /\ lock' = u
    /\ \E kind \in {"progress", "move"} :
          updater' = [updater EXCEPT ![u] = [at |-> "update", op |-> ops + 1, kind |-> kind]]
    /\ UNCHANGED <<dbVars, triager, answered, torn>>

UpdateRow(u) ==
    /\ UpdateAt(u, "update", "event")
    /\ view' = [view EXCEPT !.row = updater[u].op,
                            !.status = IF updater[u].kind = "move" THEN updater[u].op ELSE @]
    /\ UNCHANGED <<durable, lock, triager, ops, answered, torn>>

InsertEvent(u) ==
    /\ UpdateAt(u, "event", IF updater[u].kind = "move" THEN "transition" ELSE "commit")
    /\ view' = [view EXCEPT !.events = @ \union {updater[u].op}]
    /\ UNCHANGED <<durable, lock, triager, ops, answered, torn>>

(* Mutant: the move is stored without its row. *)
SkipTransition(u) ==
    /\ UpdateAt(u, "transition", "commit")
    /\ UNCHANGED <<dbVars, lock, triager, ops, answered, torn>>

InsertTransition(u) ==
    /\ UpdateAt(u, "transition", "commit")
    /\ view' = [view EXCEPT !.moves = Append(@, updater[u].op)]
    /\ UNCHANGED <<durable, lock, triager, ops, answered, torn>>

Commit(u) ==
    /\ updater[u].at = "commit"
    /\ durable' = view
    /\ answered' = answered \union {[op |-> updater[u].op, kind |-> updater[u].kind]}
    /\ updater' = [updater EXCEPT ![u] = NoUpdate]
    /\ lock' = Nobody
    /\ UNCHANGED <<view, triager, ops, torn>>

HalfDone(u) == updater[u].at \in {"event", "transition"}

(* A statement or the commit raises: the lock is let go, nothing is rolled  *)
(* back and the transaction stays open.                                     *)
UpdateRaises(u) ==
    /\ MayRaise
    /\ updater[u].at # "idle"
    /\ torn' = (torn \/ HalfDone(u))
    /\ updater' = [updater EXCEPT ![u] = NoUpdate]
    /\ lock' = Nobody
    /\ UNCHANGED <<dbVars, triager, ops, answered>>

Updating(u) ==
    Begin(u) \/ UpdateRow(u) \/ InsertEvent(u) \/ InsertTransition(u) \/ Commit(u)
    \/ UpdateRaises(u)
-----------------------------------------------------------------------------
(* update_finding(): only the look for the finding takes the lock.          *)

(* list_findings() finds it. *)
Look(t) ==
    /\ triager[t].at = "idle" /\ lock = Nobody /\ ops < MaxOps
    /\ ops' = ops + 1
    /\ triager' = [triager EXCEPT ![t] = [NoTriage EXCEPT !.at = "read", !.op = ops + 1]]
    /\ UNCHANGED <<dbVars, lock, updater, answered, torn>>

(* _merge_finding_state over the row read now; the patch sets some field. *)
ReadPrevious(t) ==
    /\ triager[t].at = "read"
    /\ \E f \in Fields :
          triager' = [triager EXCEPT ![t] =
             [at |-> "replace", op |-> triager[t].op, previous |-> view.finding,
              new |-> [view.finding EXCEPT ![f] = triager[t].op]]]
    /\ UNCHANGED <<dbVars, lock, updater, ops, answered, torn>>

Replace(t) ==
    /\ triager[t].at = "replace"
    /\ view' = [view EXCEPT !.finding = triager[t].new]
    /\ triager' = [triager EXCEPT ![t].at = "history"]
    /\ UNCHANGED <<durable, lock, updater, ops, answered, torn>>

ChangeOf(t) ==
    [previous |-> triager[t].previous, new |-> triager[t].new, by |-> triager[t].op]

InsertHistory(t) ==
    /\ triager[t].at = "history"
    /\ view' = [view EXCEPT !.history = Append(@, ChangeOf(t))]
    /\ triager' = [triager EXCEPT ![t].at = "commit"]
    /\ UNCHANGED <<durable, lock, updater, ops, answered, torn>>

(* Mutant: the patch is answered and committed with whatever comes next. *)
AnswerPatch(t) ==
    /\ triager[t].at = "commit"
    /\ answered' = answered \union {[op |-> triager[t].op, kind |-> "patch"]}
    /\ triager' = [triager EXCEPT ![t] = NoTriage]
    /\ UNCHANGED <<dbVars, lock, updater, ops, torn>>

(* Mutant: the patch names itself by a call nobody made. *)
CommitPatchUnnamed(t) ==
    /\ triager[t].at = "commit"
    /\ answered' = answered \union {[op |-> MaxOps + 1, kind |-> "patch"]}
    /\ triager' = [triager EXCEPT ![t] = NoTriage]
    /\ durable' = view
    /\ UNCHANGED <<view, lock, updater, ops, torn>>

(* The commit takes along whatever an update has written so far. *)
CommitPatch(t) ==
    /\ triager[t].at = "commit"
    /\ durable' = view
    /\ torn' = (torn \/ \E u \in Updaters : HalfDone(u))
    /\ answered' = answered \union {[op |-> triager[t].op, kind |-> "patch"]}
    /\ triager' = [triager EXCEPT ![t] = NoTriage]
    /\ UNCHANGED <<view, lock, updater, ops>>

PatchRaises(t) ==
    /\ MayRaise
    /\ triager[t].at # "idle"
    /\ triager' = [triager EXCEPT ![t] = NoTriage]
    /\ UNCHANGED <<dbVars, lock, updater, ops, answered, torn>>

Triaging(t) ==
    Look(t) \/ ReadPrevious(t) \/ Replace(t) \/ InsertHistory(t) \/ CommitPatch(t)
    \/ PatchRaises(t)
-----------------------------------------------------------------------------
(* The process ends and is started again: the open transaction is gone. *)
Crash ==
    /\ view' = durable
    /\ lock' = Nobody
    /\ updater' = [u \in Updaters |-> NoUpdate]
    /\ triager' = [t \in Triagers |-> NoTriage]
    /\ UNCHANGED <<durable, ops, answered, torn>>

Next ==
    \/ \E u \in Updaters : Updating(u)
    \/ \E t \in Triagers : Triaging(t)
    \/ Crash

Spec == Init /\ [][Next]_vars
-----------------------------------------------------------------------------
(* Every variable has its type. *)
TypeOK ==
    /\ view \in Database /\ durable \in Database
    /\ lock \in Updaters \union {Nobody}
    /\ updater \in [Updaters -> Update]
    /\ triager \in [Triagers -> Triage]
    /\ ops \in Op
    /\ answered \subseteq [op : Op, kind : {"progress", "move", "patch"}]
    /\ torn \in BOOLEAN

LastMove(db) == IF db.moves = <<>> THEN 0 ELSE db.moves[Len(db.moves)]

(* The row of a job agrees with its events and its transition rows. *)
Whole(db) == db.row \in db.events /\ db.status = LastMove(db)

(* What is committed is whole, and so is what a thread that takes the lock   *)
(* reads; only a statement that raised in the middle of an update, or a      *)
(* triage commit that fell into one, can change that.                        *)
WholeUnlessTorn ==
    ~torn => /\ Whole(durable)
             /\ lock = Nobody => Whole(view)

Moved(db) == {db.moves[i] : i \in DOMAIN db.moves}
Patched(db) == {db.history[i].by : i \in DOMAIN db.history}

(* Whoever was answered has all of his writes committed, whatever other      *)
(* threads did on the connection meanwhile, and keeps them after a crash.    *)
AnsweredSurvives ==
    \A call \in answered :
        /\ call.kind \in {"progress", "move"} => call.op \in durable.events
        /\ call.kind = "move" => call.op \in Moved(durable)
        /\ call.kind = "patch" => call.op \in Patched(durable)

(* docs/guides/findings.md:94: every change is recorded with its previous    *)
(* state, so each history entry starts where the one before ended.           *)
HistoryChains ==
    \A i \in 2..Len(durable.history) :
        durable.history[i].previous = durable.history[i - 1].new
=============================================================================
