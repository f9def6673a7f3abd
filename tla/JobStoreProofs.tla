--------------------------- MODULE JobStoreProofs ---------------------------
(***************************************************************************)
(* JobStore for any number of threads and calls: answered writes survive,  *)
(* and what is committed or read under the lock is whole unless torn.      *)
(***************************************************************************)
EXTENDS JobStore, TLAPS

LEMMA IdleTyped == NoUpdate \in Update /\ NoTriage \in Triage /\ Untouched \in Finding
BY StoreAssumption DEF NoTriage, Triage, Untouched, Finding, NoUpdate, Update, Op

LEMMA TypeInductive == TypeOK /\ [Next]_vars => TypeOK'
<1> SUFFICES ASSUME TypeOK, [Next]_vars
             PROVE  TypeOK'
  OBVIOUS
<1> USE StoreAssumption DEF TypeOK
<1>1. ASSUME NEW u \in Updaters, Begin(u)
      PROVE  TypeOK'
  BY <1>1 DEF Begin, dbVars, Update, Op
<1>2. ASSUME NEW u \in Updaters, UpdateRow(u)
      PROVE  TypeOK'
  BY <1>2 DEF UpdateRow, UpdateAt, Database, Update
<1>3. ASSUME NEW u \in Updaters, InsertEvent(u)
      PROVE  TypeOK'
  <2>1. updater' \in [Updaters -> Update]
    BY <1>3 DEF InsertEvent, UpdateAt, Update
  <2>2. updater[u].op \in Op
    BY DEF Update
  <2>3. view' \in Database
    BY <1>3, <2>2 DEF InsertEvent, Database
  <2> QED
    BY <1>3, <2>1, <2>3 DEF InsertEvent
<1>4. ASSUME NEW u \in Updaters, InsertTransition(u)
      PROVE  TypeOK'
  <2>1. updater' \in [Updaters -> Update]
    BY <1>4 DEF InsertTransition, UpdateAt, Update
  <2>2. updater[u].op \in Op /\ view.moves \in Seq(Op)
    BY DEF Update, Database
  <2>3. Append(view.moves, updater[u].op) \in Seq(Op)
    BY <2>2
  <2>4. view' \in Database
    BY <1>4, <2>3 DEF InsertTransition, Database
  <2> QED
    BY <1>4, <2>1, <2>4 DEF InsertTransition
<1>5. ASSUME NEW u \in Updaters, Commit(u) \/ UpdateRaises(u)
      PROVE  TypeOK'
  <2>1. updater[u].op \in Op /\ updater[u].kind \in {"progress", "move", "patch"}
    BY DEF Update
  <2>2. torn' \in BOOLEAN
    BY <1>5 DEF Commit, UpdateRaises, HalfDone
  <2>3. answered' \subseteq [op : Op, kind : {"progress", "move", "patch"}]
    BY <1>5, <2>1 DEF Commit, UpdateRaises
  <2>4. updater' \in [Updaters -> Update] /\ lock' \in Updaters \union {Nobody}
    BY <1>5, IdleTyped DEF Commit, UpdateRaises
  <2> QED
    BY <1>5, <2>2, <2>3, <2>4 DEF Commit, UpdateRaises, dbVars
<1>6. ASSUME NEW t \in Triagers, Look(t)
      PROVE  TypeOK'
  <2>1. ops + 1 \in Op
    BY <1>6 DEF Look, Op
  <2>2. [NoTriage EXCEPT !.at = "read", !.op = ops + 1] \in Triage
    BY <2>1, IdleTyped DEF Triage
  <2> QED
    BY <1>6, <2>1, <2>2 DEF Look, dbVars
<1>7. ASSUME NEW t \in Triagers, ReadPrevious(t)
      PROVE  TypeOK'
  <2>1. view.finding \in Finding
    BY DEF Database
  <2>2. triager[t].op \in Op
    BY DEF Triage
  <2>3. \A f \in Fields : [view.finding EXCEPT ![f] = triager[t].op] \in Finding
    BY <2>1, <2>2 DEF Finding
  <2>4. \A f \in Fields :
           [at |-> "replace", op |-> triager[t].op, previous |-> view.finding,
            new |-> [view.finding EXCEPT ![f] = triager[t].op]] \in Triage
    BY <2>1, <2>2, <2>3 DEF Triage
  <2>5. triager' \in [Triagers -> Triage]
    BY <1>7, <2>4 DEF ReadPrevious
  <2> QED
    BY <1>7, <2>5 DEF ReadPrevious, dbVars
<1>8. ASSUME NEW t \in Triagers, Replace(t)
      PROVE  TypeOK'
  BY <1>8 DEF Replace, Database, Triage
<1>9. ASSUME NEW t \in Triagers, InsertHistory(t)
      PROVE  TypeOK'
  <2>1. ChangeOf(t) \in Change
    BY DEF Triage, Change, ChangeOf
  <2>2. Append(view.history, ChangeOf(t)) \in Seq(Change)
    BY <2>1 DEF Database
  <2>4. view' \in Database
    BY <1>9, <2>2 DEF InsertHistory, Database
  <2>3. triager' \in [Triagers -> Triage]
    BY <1>9 DEF InsertHistory, Triage
  <2> QED
    BY <1>9, <2>3, <2>4 DEF InsertHistory
<1>10. ASSUME NEW t \in Triagers, CommitPatch(t) \/ PatchRaises(t)
       PROVE  TypeOK'
  <2>1. triager[t].op \in Op
    BY DEF Triage
  <2>2. torn' \in BOOLEAN
    BY <1>10 DEF CommitPatch, PatchRaises, HalfDone
  <2> QED
    BY <1>10, <2>1, <2>2, IdleTyped DEF CommitPatch, PatchRaises, dbVars
<1>11. CASE Crash
  BY <1>11, IdleTyped DEF Crash
<1>12. CASE UNCHANGED vars
  BY <1>12 DEF vars, dbVars
<1> QED
  BY <1>1, <1>2, <1>3, <1>4, <1>5, <1>6, <1>7, <1>8, <1>9, <1>10, <1>11, <1>12
     DEF Next, Updating, Triaging

(* Type correctness of the database, the lock and the threads. *)
THEOREM TypeCorrect == Spec => []TypeOK
<1>1. Init => TypeOK
  <2> SUFFICES ASSUME Init
               PROVE  TypeOK
    OBVIOUS
  <2>1. 0 \in Op
    BY StoreAssumption DEF Op
  <2>2. <<>> \in Seq(Op) /\ <<>> \in Seq(Change)
    OBVIOUS
  <2>3. view \in Database
    BY <2>1, <2>2, IdleTyped DEF Init, Database
  <2> QED
    BY <2>1, <2>3, IdleTyped DEF Init, TypeOK
<1> QED
  BY <1>1, TypeInductive, PTL DEF Spec
-----------------------------------------------------------------------------
(* What is committed is still there in the connection's view, and a thread   *)
(* about to commit has written what it was called for.                       *)
WritesDone ==
    /\ durable.events \subseteq view.events
    /\ Moved(durable) \subseteq Moved(view)
    /\ Patched(durable) \subseteq Patched(view)
    /\ \A u \in Updaters :
          /\ updater[u].at \in {"transition", "commit"} => updater[u].op \in view.events
          /\ updater[u].at = "commit" /\ updater[u].kind = "move"
                => updater[u].op \in Moved(view)
    /\ \A t \in Triagers : triager[t].at = "commit" => triager[t].op \in Patched(view)

LEMMA AppendedMove ==
    ASSUME NEW moves \in Seq(Op), NEW op \in Op
    PROVE  {Append(moves, op)[i] : i \in DOMAIN Append(moves, op)} =
             {moves[i] : i \in DOMAIN moves} \union {op}
<1>1. /\ DOMAIN moves = 1..Len(moves) /\ Len(moves) \in Nat
      /\ DOMAIN Append(moves, op) = 1..Len(moves) + 1
      /\ Append(moves, op)[Len(moves) + 1] = op
      /\ \A i \in 1..Len(moves) : Append(moves, op)[i] = moves[i]
  OBVIOUS
<1>2. 1..Len(moves) + 1 = (1..Len(moves)) \union {Len(moves) + 1}
  BY <1>1
<1> DEFINE longer == Append(moves, op)
           last == Len(moves) + 1
<1>3. /\ DOMAIN longer = DOMAIN moves \union {last} /\ longer[last] = op
      /\ \A i \in DOMAIN moves : longer[i] = moves[i]
  BY <1>1, <1>2
<1> HIDE DEF longer, last
<1>4. {longer[i] : i \in DOMAIN longer} = {moves[i] : i \in DOMAIN moves} \union {op}
  BY <1>3
<1> QED
  BY <1>4 DEF longer

LEMMA AppendedChange ==
    ASSUME NEW history \in Seq(Change), NEW change \in Change
    PROVE  {Append(history, change)[i].by : i \in DOMAIN Append(history, change)} =
             {history[i].by : i \in DOMAIN history} \union {change.by}
<1> DEFINE longer == Append(history, change)
           n == Len(history)
<1>1. /\ DOMAIN history = 1..n /\ n \in Nat
      /\ DOMAIN longer = 1..n + 1
      /\ longer[n + 1] = change
      /\ \A i \in 1..n : longer[i] = history[i]
  OBVIOUS
<1>2. 1..n + 1 = (1..n) \union {n + 1}
  BY <1>1
<1> HIDE DEF longer, n
<1>3. \A x : (\E i \in 1..n + 1 : x = longer[i].by)
               <=> (\E i \in 1..n : x = history[i].by) \/ x = change.by
  <2>1. ASSUME NEW x, NEW i \in 1..n + 1, x = longer[i].by
        PROVE  (\E j \in 1..n : x = history[j].by) \/ x = change.by
    BY <2>1, <1>1, <1>2
  <2>2. ASSUME NEW x, NEW i \in 1..n, x = history[i].by
        PROVE  \E j \in 1..n + 1 : x = longer[j].by
    BY <2>2, <1>1, <1>2
  <2>3. \E j \in 1..n + 1 : change.by = longer[j].by
    BY <1>1, <1>2
  <2> QED
    BY <2>1, <2>2, <2>3
<1> QED
  BY <1>1, <1>3 DEF longer, n

LEMMA AnsweredInductive ==
    TypeOK /\ WritesDone /\ AnsweredSurvives /\ [Next]_vars
        => WritesDone' /\ AnsweredSurvives'
<1> SUFFICES ASSUME TypeOK, WritesDone, AnsweredSurvives, [Next]_vars
             PROVE  WritesDone' /\ AnsweredSurvives'
  OBVIOUS
<1> USE DEF TypeOK, WritesDone, AnsweredSurvives
<1>1. ASSUME NEW u \in Updaters, Begin(u)
      PROVE  WritesDone' /\ AnsweredSurvives'
  <2>1. view' = view /\ durable' = durable
    BY <1>1 DEF Begin, dbVars
  <2>2. /\ Moved(view)' = Moved(view) /\ Moved(durable)' = Moved(durable)
        /\ Patched(view)' = Patched(view) /\ Patched(durable)' = Patched(durable)
    BY <2>1 DEF Moved, Patched
  <2>3. \A v \in Updaters : updater'[v] = updater[v] \/ updater'[v].at = "update"
    BY <1>1 DEF Begin
  <2> QED
    BY <1>1, <2>1, <2>2, <2>3 DEF Begin
<1>2. ASSUME NEW u \in Updaters, UpdateRow(u)
      PROVE  WritesDone' /\ AnsweredSurvives'
  <2>1. /\ view'.events = view.events /\ view'.moves = view.moves
        /\ view'.history = view.history
    BY <1>2 DEF UpdateRow, Database
  <2>2. Moved(view)' = Moved(view) /\ Patched(view)' = Patched(view)
    BY <2>1 DEF Moved, Patched
  <2>3. durable' = durable /\ Moved(durable)' = Moved(durable) /\ Patched(durable)' = Patched(durable)
    BY <1>2 DEF UpdateRow, Moved, Patched
  <2>4. \A v \in Updaters : updater'[v] = updater[v] \/ updater'[v].at = "event"
    BY <1>2 DEF UpdateRow, UpdateAt, Update
  <2> QED
    BY <1>2, <2>1, <2>2, <2>3, <2>4 DEF UpdateRow
<1>3. ASSUME NEW u \in Updaters, InsertEvent(u)
      PROVE  WritesDone' /\ AnsweredSurvives'
  <2>1. /\ view'.events = view.events \union {updater[u].op} /\ view'.moves = view.moves
        /\ view'.history = view.history
    BY <1>3 DEF InsertEvent, Database
  <2>2. Moved(view)' = Moved(view) /\ Patched(view)' = Patched(view)
    BY <2>1 DEF Moved, Patched
  <2>3. durable' = durable /\ Moved(durable)' = Moved(durable) /\ Patched(durable)' = Patched(durable)
    BY <1>3 DEF InsertEvent, Moved, Patched
  <2>4. /\ \A v \in Updaters \ {u} : updater'[v] = updater[v]
        /\ updater'[u].op = updater[u].op
        /\ updater'[u].at = "commit" => updater'[u].kind # "move"
    BY <1>3 DEF InsertEvent, UpdateAt, Update
  <2> QED
    BY <1>3, <2>1, <2>2, <2>3, <2>4 DEF InsertEvent
<1>4. ASSUME NEW u \in Updaters, InsertTransition(u)
      PROVE  WritesDone' /\ AnsweredSurvives'
  <2>1. /\ view'.events = view.events /\ view'.history = view.history
        /\ view'.moves = Append(view.moves, updater[u].op)
    BY <1>4 DEF InsertTransition, Database
  <2>2. updater[u].op \in Op /\ view.moves \in Seq(Op)
    BY DEF Update, Database
  <2>3. Moved(view)' = Moved(view) \union {updater[u].op} /\ Patched(view)' = Patched(view)
    BY <2>1, <2>2, AppendedMove DEF Moved, Patched
  <2>4. durable' = durable /\ Moved(durable)' = Moved(durable) /\ Patched(durable)' = Patched(durable)
    BY <1>4 DEF InsertTransition, Moved, Patched
  <2>5. /\ \A v \in Updaters \ {u} : updater'[v] = updater[v]
        /\ updater'[u].op = updater[u].op
        /\ updater[u].at = "transition"
    BY <1>4 DEF InsertTransition, UpdateAt, Update
  <2> QED
    BY <1>4, <2>1, <2>3, <2>4, <2>5 DEF InsertTransition
<1>5. ASSUME NEW u \in Updaters, Commit(u)
      PROVE  WritesDone' /\ AnsweredSurvives'
  BY <1>5 DEF Commit, NoUpdate, Update
<1>6. ASSUME NEW u \in Updaters, UpdateRaises(u)
      PROVE  WritesDone' /\ AnsweredSurvives'
  BY <1>6 DEF UpdateRaises, NoUpdate, Update, dbVars
<1>7. ASSUME NEW t \in Triagers, Look(t) \/ ReadPrevious(t)
      PROVE  WritesDone' /\ AnsweredSurvives'
  <2>1. view' = view /\ durable' = durable /\ updater' = updater /\ answered' = answered
    BY <1>7 DEF Look, ReadPrevious, dbVars
  <2>2. /\ Moved(view)' = Moved(view) /\ Moved(durable)' = Moved(durable)
        /\ Patched(view)' = Patched(view) /\ Patched(durable)' = Patched(durable)
    BY <2>1 DEF Moved, Patched
  <2>3. \A v \in Triagers : triager'[v] = triager[v] \/ triager'[v].at \in {"read", "replace"}
    <3>1. CASE Look(t)
      <4>1. [NoTriage EXCEPT !.at = "read", !.op = ops + 1].at = "read"
        BY DEF NoTriage
      <4> QED
        BY <3>1, <4>1 DEF Look
    <3>2. CASE ReadPrevious(t)
      BY <3>2 DEF ReadPrevious
    <3> QED
      BY <1>7, <3>1, <3>2
  <2> QED
    BY <2>1, <2>2, <2>3
<1>8. ASSUME NEW t \in Triagers, Replace(t)
      PROVE  WritesDone' /\ AnsweredSurvives'
  <2>1. /\ view'.events = view.events /\ view'.moves = view.moves
        /\ view'.history = view.history
    BY <1>8 DEF Replace, Database
  <2>2. Moved(view)' = Moved(view) /\ Patched(view)' = Patched(view)
    BY <2>1 DEF Moved, Patched
  <2>3. durable' = durable /\ Moved(durable)' = Moved(durable) /\ Patched(durable)' = Patched(durable)
    BY <1>8 DEF Replace, Moved, Patched
  <2>4. \A v \in Triagers : triager'[v] = triager[v] \/ triager'[v].at = "history"
    BY <1>8 DEF Replace, Triage
  <2> QED
    BY <1>8, <2>1, <2>2, <2>3, <2>4 DEF Replace
<1>9. ASSUME NEW t \in Triagers, InsertHistory(t)
      PROVE  WritesDone' /\ AnsweredSurvives'
  <2>1. /\ view'.events = view.events /\ view'.moves = view.moves
        /\ view'.history = Append(view.history, ChangeOf(t))
    BY <1>9 DEF InsertHistory, Database
  <2>2. ChangeOf(t) \in Change /\ ChangeOf(t).by = triager[t].op
    BY DEF Triage, Change, ChangeOf
  <2>3. view.history \in Seq(Change)
    BY DEF Database
  <2>7. Moved(view)' = Moved(view)
    BY <2>1 DEF Moved
  <2>8. Patched(view)' = {Append(view.history, ChangeOf(t))[i].by :
                             i \in DOMAIN Append(view.history, ChangeOf(t))}
    BY <2>1 DEF Patched
  <2>9. Patched(view)' = Patched(view) \union {ChangeOf(t).by}
    BY <2>8, <2>2, <2>3, AppendedChange, Zenon DEF Patched
  <2>4. Patched(view)' = Patched(view) \union {triager[t].op}
    BY <2>9, <2>2
  <2>5. durable' = durable /\ Moved(durable)' = Moved(durable) /\ Patched(durable)' = Patched(durable)
    BY <1>9 DEF InsertHistory, Moved, Patched
  <2>6. /\ \A v \in Triagers \ {t} : triager'[v] = triager[v]
        /\ triager'[t].op = triager[t].op
    BY <1>9 DEF InsertHistory, Triage
  <2> QED
    BY <1>9, <2>1, <2>4, <2>5, <2>6, <2>7 DEF InsertHistory
<1>10. ASSUME NEW t \in Triagers, CommitPatch(t)
       PROVE  WritesDone' /\ AnsweredSurvives'
  BY <1>10 DEF CommitPatch, NoTriage, Triage
<1>11. ASSUME NEW t \in Triagers, PatchRaises(t)
       PROVE  WritesDone' /\ AnsweredSurvives'
  BY <1>11 DEF PatchRaises, NoTriage, Triage, dbVars
<1>12. CASE Crash
  BY <1>12 DEF Crash, NoTriage, NoUpdate
<1>13. CASE UNCHANGED vars
  BY <1>13 DEF vars, dbVars
<1> QED
  BY <1>1, <1>2, <1>3, <1>4, <1>5, <1>6, <1>7, <1>8, <1>9, <1>10, <1>11, <1>12, <1>13
     DEF Next, Updating, Triaging

(* What was answered is committed and stays so, whatever other threads, a    *)
(* raising statement or a crash do to the connection's open transaction.     *)
THEOREM AnsweredIsDurable == Spec => []AnsweredSurvives
<1>1. Init => WritesDone /\ AnsweredSurvives
  BY DEF Init, WritesDone, AnsweredSurvives, NoUpdate, NoTriage, Moved, Patched
<1> QED
  BY <1>1, AnsweredInductive, TypeCorrect, PTL DEF Spec
-----------------------------------------------------------------------------
(* The lock has one holder, the only thread inside update().                 *)
OneHolder == \A u \in Updaters : updater[u].at # "idle" <=> lock = u

(* How far the holder has got with each of the record's parts.               *)
Progressing ==
    /\ Whole(durable)
    /\ (\A u \in Updaters : ~HalfDone(u)) => Whole(view)
    /\ \A u \in Updaters :
          /\ updater[u].at = "event" =>
                /\ view.row = updater[u].op
                /\ updater[u].kind = "move" => view.status = updater[u].op
                /\ updater[u].kind = "progress" => view.status = LastMove(view)
          /\ updater[u].at = "transition" =>
                /\ view.row \in view.events
                /\ view.status = updater[u].op

WholeInv == OneHolder /\ (~torn => Progressing)

LEMMA LastAppended ==
    ASSUME NEW db, NEW moves \in Seq(Op), NEW op \in Op, db.moves = Append(moves, op)
    PROVE  LastMove(db) = op
<1>1. Append(moves, op) # <<>> /\ Append(moves, op)[Len(Append(moves, op))] = op
  OBVIOUS
<1> QED
  BY <1>1 DEF LastMove

LEMMA WholeInductive == TypeOK /\ WholeInv /\ [Next]_vars => WholeInv'
<1> SUFFICES ASSUME TypeOK, WholeInv, [Next]_vars
             PROVE  WholeInv'
  OBVIOUS
<1> USE StoreAssumption DEF TypeOK
<1>1. ASSUME NEW u \in Updaters, Begin(u)
      PROVE  WholeInv'
  <2>1. OneHolder'
    BY <1>1 DEF Begin, WholeInv, OneHolder
  <2>2. /\ view' = view /\ durable' = durable /\ torn' = torn
        /\ updater'[u].at = "update"
        /\ \A v \in Updaters \ {u} : updater'[v] = updater[v]
        /\ updater[u].at = "idle"
    BY <1>1 DEF Begin, dbVars
  <2>3. /\ Whole(view)' = Whole(view) /\ Whole(durable)' = Whole(durable)
        /\ LastMove(view)' = LastMove(view)
    BY <2>2 DEF Whole, LastMove
  <2>4. ~torn => Progressing'
    BY <2>2, <2>3 DEF WholeInv, Progressing, HalfDone
  <2> QED
    BY <2>1, <2>2, <2>4 DEF WholeInv
<1>2. ASSUME NEW u \in Updaters, UpdateRow(u)
      PROVE  WholeInv'
  <2>1. /\ updater[u].at = "update" /\ updater'[u].at = "event"
        /\ updater'[u].op = updater[u].op /\ updater'[u].kind = updater[u].kind
        /\ \A v \in Updaters \ {u} : updater'[v] = updater[v]
        /\ lock' = lock /\ durable' = durable /\ torn' = torn
    BY <1>2 DEF UpdateRow, UpdateAt, Update
  <2>2. OneHolder'
    BY <2>1 DEF WholeInv, OneHolder
  <2>3. \A v \in Updaters \ {u} : updater[v].at = "idle"
    BY <2>1 DEF WholeInv, OneHolder
  <2>4. /\ view'.row = updater[u].op /\ view'.moves = view.moves
        /\ updater[u].kind = "move" => view'.status = updater[u].op
        /\ updater[u].kind = "progress" => view'.status = view.status
    BY <1>2 DEF UpdateRow, Database
  <2>5. LastMove(view)' = LastMove(view) /\ Whole(durable)' = Whole(durable)
    BY <2>1, <2>4 DEF LastMove, Whole
  <2>6. ~torn => view.status = LastMove(view)
    BY <2>1, <2>3 DEF WholeInv, Progressing, HalfDone, Whole
  <2>7. ~torn => Progressing'
    BY <2>1, <2>3, <2>4, <2>5, <2>6 DEF WholeInv, Progressing, HalfDone
  <2> QED
    BY <2>1, <2>2, <2>7 DEF WholeInv
<1>3. ASSUME NEW u \in Updaters, InsertEvent(u)
      PROVE  WholeInv'
  <2>1. /\ updater[u].at = "event"
        /\ updater'[u].at = IF updater[u].kind = "move" THEN "transition" ELSE "commit"
        /\ updater'[u].op = updater[u].op
        /\ updater[u].kind \in {"move", "progress"}
        /\ \A v \in Updaters \ {u} : updater'[v] = updater[v]
        /\ lock' = lock /\ durable' = durable /\ torn' = torn
    BY <1>3 DEF InsertEvent, UpdateAt, Update
  <2>2. OneHolder'
    BY <2>1 DEF WholeInv, OneHolder
  <2>3. \A v \in Updaters \ {u} : updater[v].at = "idle"
    BY <2>1 DEF WholeInv, OneHolder
  <2>4. /\ view'.row = view.row /\ view'.status = view.status /\ view'.moves = view.moves
        /\ view'.events = view.events \union {updater[u].op}
    BY <1>3 DEF InsertEvent, Database
  <2>5. LastMove(view)' = LastMove(view) /\ Whole(durable)' = Whole(durable)
    BY <2>1, <2>4 DEF LastMove, Whole
  <2>6. ~torn => /\ view'.row \in view'.events
                 /\ updater[u].kind = "move" => view'.status = updater[u].op
                 /\ updater[u].kind = "progress" => view'.status = LastMove(view)'
    BY <2>1, <2>4, <2>5 DEF WholeInv, Progressing
  <2>7. ~torn /\ updater[u].kind = "progress" => Whole(view)'
    BY <2>6 DEF Whole
  <2>8. CASE updater[u].kind = "move"
    <3>1. HalfDone(u)' /\ updater'[u].at = "transition"
      BY <2>1, <2>8 DEF HalfDone
    <3>2. ~torn => Progressing'
      BY <2>1, <2>3, <2>5, <2>6, <2>8, <3>1 DEF WholeInv, Progressing
    <3> QED
      BY <2>1, <2>2, <3>2 DEF WholeInv
  <2>9. CASE updater[u].kind = "progress"
    <3>1. updater'[u].at = "commit"
      BY <2>1, <2>9
    <3>2. ~torn => Progressing'
      BY <2>1, <2>3, <2>5, <2>7, <2>9, <3>1 DEF WholeInv, Progressing
    <3> QED
      BY <2>1, <2>2, <3>2 DEF WholeInv
  <2> QED
    BY <2>1, <2>8, <2>9
<1>4. ASSUME NEW u \in Updaters, InsertTransition(u)
      PROVE  WholeInv'
  <2>1. /\ updater[u].at = "transition" /\ updater'[u].at = "commit"
        /\ \A v \in Updaters \ {u} : updater'[v] = updater[v]
        /\ lock' = lock /\ durable' = durable /\ torn' = torn
        /\ updater[u].op \in Op /\ view.moves \in Seq(Op)
    BY <1>4 DEF InsertTransition, UpdateAt, Update, Database
  <2>2. OneHolder'
    BY <2>1 DEF WholeInv, OneHolder
  <2>3. \A v \in Updaters \ {u} : updater[v].at = "idle"
    BY <2>1 DEF WholeInv, OneHolder
  <2>4. /\ view'.row = view.row /\ view'.status = view.status /\ view'.events = view.events
        /\ view'.moves = Append(view.moves, updater[u].op)
    BY <1>4 DEF InsertTransition, Database
  <2>5. LastMove(view') = updater[u].op
    BY <2>1, <2>4, LastAppended
  <2>6. Whole(durable)' = Whole(durable)
    BY <2>1 DEF Whole, LastMove
  <2>7. ~torn => Whole(view')
    BY <2>1, <2>4, <2>5 DEF WholeInv, Progressing, Whole
  <2>8. ~torn => Progressing'
    BY <2>1, <2>3, <2>6, <2>7 DEF WholeInv, Progressing
  <2> QED
    BY <2>1, <2>2, <2>8 DEF WholeInv
<1>5. ASSUME NEW u \in Updaters, Commit(u)
      PROVE  WholeInv'
  <2>1. /\ updater[u].at = "commit" /\ updater'[u].at = "idle"
        /\ \A v \in Updaters \ {u} : updater'[v] = updater[v]
        /\ lock' = Nobody /\ durable' = view /\ view' = view /\ torn' = torn
    BY <1>5 DEF Commit, NoUpdate
  <2>2. \A v \in Updaters \ {u} : updater[v].at = "idle"
    BY <2>1 DEF WholeInv, OneHolder
  <2>3. OneHolder'
    BY <2>1, <2>2 DEF WholeInv, OneHolder
  <2>4. ~torn => Whole(view)
    BY <2>1, <2>2 DEF WholeInv, Progressing, HalfDone
  <2>5. Whole(view)' = Whole(view) /\ Whole(durable)' = Whole(view)
    BY <2>1 DEF Whole, LastMove
  <2>6. ~torn => Progressing'
    BY <2>1, <2>2, <2>4, <2>5 DEF Progressing
  <2> QED
    BY <2>1, <2>3, <2>6 DEF WholeInv
<1>6. ASSUME NEW u \in Updaters, UpdateRaises(u)
      PROVE  WholeInv'
  <2>1. /\ updater[u].at # "idle" /\ updater'[u].at = "idle"
        /\ \A v \in Updaters \ {u} : updater'[v] = updater[v]
        /\ lock' = Nobody /\ durable' = durable /\ view' = view
        /\ torn' = (torn \/ HalfDone(u))
    BY <1>6 DEF UpdateRaises, NoUpdate, dbVars
  <2>2. \A v \in Updaters \ {u} : updater[v].at = "idle"
    BY <2>1 DEF WholeInv, OneHolder
  <2>3. OneHolder'
    BY <2>1, <2>2 DEF WholeInv, OneHolder
  <2>4. ~torn /\ ~HalfDone(u) => Whole(view)
    BY <2>1, <2>2 DEF WholeInv, Progressing, HalfDone
  <2>5. Whole(view)' = Whole(view) /\ Whole(durable)' = Whole(durable)
    BY <2>1 DEF Whole, LastMove
  <2>6. ~torn /\ ~HalfDone(u) => Progressing'
    BY <2>1, <2>2, <2>4, <2>5 DEF Progressing, WholeInv
  <2> QED
    BY <2>1, <2>3, <2>6 DEF WholeInv
<1>7. ASSUME NEW t \in Triagers,
             Look(t) \/ ReadPrevious(t) \/ Replace(t) \/ InsertHistory(t) \/ PatchRaises(t)
      PROVE  WholeInv'
  <2>1. /\ updater' = updater /\ lock' = lock /\ durable' = durable /\ torn' = torn
        /\ view'.row = view.row /\ view'.status = view.status
        /\ view'.events = view.events /\ view'.moves = view.moves
    BY <1>7 DEF Look, ReadPrevious, Replace, InsertHistory, PatchRaises, dbVars, Database
  <2>2. /\ Whole(view)' = Whole(view) /\ Whole(durable)' = Whole(durable)
        /\ LastMove(view)' = LastMove(view)
    BY <2>1 DEF Whole, LastMove
  <2>3. OneHolder' = OneHolder /\ Progressing' = Progressing
    BY <2>1, <2>2 DEF OneHolder, Progressing, HalfDone
  <2> QED
    BY <2>1, <2>3 DEF WholeInv
<1>8. ASSUME NEW t \in Triagers, CommitPatch(t)
      PROVE  WholeInv'
  <2>1. /\ updater' = updater /\ lock' = lock /\ view' = view /\ durable' = view
        /\ torn' = (torn \/ \E u \in Updaters : HalfDone(u))
    BY <1>8 DEF CommitPatch
  <2>2. /\ Whole(view)' = Whole(view) /\ Whole(durable)' = Whole(view)
        /\ LastMove(view)' = LastMove(view)
    BY <2>1 DEF Whole, LastMove
  <2>3. OneHolder'
    BY <2>1 DEF WholeInv, OneHolder
  <2>4. ~torn' => Progressing'
    BY <2>1, <2>2 DEF WholeInv, Progressing, HalfDone
  <2> QED
    BY <2>3, <2>4 DEF WholeInv
<1>9. CASE Crash
  <2>1. /\ view' = durable /\ durable' = durable /\ torn' = torn /\ lock' = Nobody
        /\ \A u \in Updaters : updater'[u].at = "idle"
    BY <1>9 DEF Crash, NoUpdate
  <2>2. Whole(view)' = Whole(durable) /\ Whole(durable)' = Whole(durable)
    BY <2>1 DEF Whole, LastMove
  <2> QED
    BY <2>1, <2>2 DEF WholeInv, OneHolder, Progressing
<1>10. CASE UNCHANGED vars
  BY <1>10 DEF vars, dbVars, WholeInv, OneHolder, Progressing, HalfDone, Whole, LastMove
<1> QED
  BY <1>1, <1>2, <1>3, <1>4, <1>5, <1>6, <1>7, <1>8, <1>9, <1>10
     DEF Next, Updating, Triaging

(* What is committed, and what a thread that takes the lock reads, is a      *)
(* whole record: a row that agrees with its events and transition rows; only *)
(* a raise or a triage commit in the middle of an update can break that.     *)
THEOREM RecordsAreWhole == Spec => []WholeUnlessTorn
<1>1. Init => WholeInv
  <2> SUFFICES ASSUME Init
               PROVE  WholeInv
    OBVIOUS
  <2>1. Whole(view) /\ Whole(durable)
    BY DEF Init, Whole, LastMove
  <2>2. \A u \in Updaters : updater[u].at = "idle"
    BY DEF Init, NoUpdate
  <2> QED
    BY <2>1, <2>2, StoreAssumption DEF Init, WholeInv, OneHolder, Progressing
<1>2. WholeInv => WholeUnlessTorn
  BY StoreAssumption DEF WholeInv, OneHolder, Progressing, HalfDone, WholeUnlessTorn
<1> QED
  BY <1>1, <1>2, WholeInductive, TypeCorrect, PTL DEF Spec
=============================================================================
