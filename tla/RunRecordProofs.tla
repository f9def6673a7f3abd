-------------------------- MODULE RunRecordProofs --------------------------
(***************************************************************************)
(* RunRecord for any set of jobs and runs of any length: the rows are the  *)
(* history of the status, no traffic or report without a running row, and  *)
(* a run that is over never changes.                                       *)
(***************************************************************************)
EXTENDS RunRecord, TLAPS

(* What a legal move says of its ends, and of what follows it. *)
LEMMA MovesAreTyped ==
    ASSUME NEW s, NEW t, MayMove(s, t)
    PROVE  /\ s \in ScanRunState /\ t \in ScanRunState
           /\ ~IsTerminal(s)
           /\ t # "queued"
           /\ t = "running" => s = "queued"
           /\ s = "analysing" \/ t # "completed"
BY DEF MayMove, AllowedTransitions, ScanRunState, StopStates, TerminalStates, IsTerminal
-----------------------------------------------------------------------------
LEMMA TypeInductive == TypeOK /\ [Next]_recordVars => TypeOK'
<1> SUFFICES ASSUME TypeOK, [Next]_recordVars
             PROVE  TypeOK'
  OBVIOUS
<1> USE DEF TypeOK
<1>1. ASSUME NEW j \in Jobs, Create(j)
      PROVE  TypeOK'
  BY <1>1 DEF Create, ScanRunState
<1>2. ASSUME NEW j \in Jobs, NEW target \in ScanRunState, Move(j, target)
      PROVE  TypeOK'
  <2>1. [from_state |-> status[j], to_state |-> target] \in Row
    BY <1>2, MovesAreTyped DEF Move, Row
  <2> QED
    BY <1>2, <2>1 DEF Move
<1>3. ASSUME NEW j \in Jobs, Send(j) \/ Publish(j)
      PROVE  TypeOK'
  BY <1>3 DEF Send, Publish
<1>4. CASE UNCHANGED recordVars
  BY <1>4 DEF recordVars
<1> QED
  BY <1>1, <1>2, <1>3, <1>4 DEF Next

(* Type correctness of the record. *)
THEOREM TypeCorrect == Spec => []TypeOK
<1>1. Init => TypeOK
  BY DEF Init, TypeOK
<1> QED
  BY <1>1, TypeInductive, PTL DEF Spec
-----------------------------------------------------------------------------
(* A move extends a history by the row that continues it. *)
LEMMA HistoryGrows ==
    ASSUME NEW rows \in Seq(Row), NEW s, NEW t, HistoryOf(s, rows), MayMove(s, t)
    PROVE  HistoryOf(t, Append(rows, [from_state |-> s, to_state |-> t]))
<1> DEFINE row == [from_state |-> s, to_state |-> t]
           longer == Append(rows, row)
<1>1. row \in Row
  BY MovesAreTyped DEF Row
<1>2. /\ longer \in Seq(Row) /\ longer # <<>>
      /\ Len(longer) = Len(rows) + 1
      /\ longer[Len(rows) + 1] = row
      /\ \A i \in 1..Len(rows) : longer[i] = rows[i]
  BY <1>1
<1>3. CASE rows = <<>>
  <2>1. s = "queued"
    BY <1>3, MovesAreTyped DEF HistoryOf, ScanRunState
  <2> QED
    BY <1>2, <1>3, <2>1 DEF HistoryOf
<1>4. CASE rows # <<>>
  <2>1. /\ rows[1].from_state = "queued"
        /\ \A i \in 1..Len(rows) : MayMove(rows[i].from_state, rows[i].to_state)
        /\ \A i \in 1..Len(rows) - 1 : rows[i + 1].from_state = rows[i].to_state
        /\ rows[Len(rows)].to_state = s
    BY <1>4 DEF HistoryOf
  <2>2. Len(rows) \in Nat \ {0}
    BY <1>4
  <2>3. longer[1].from_state = "queued"
    BY <1>2, <2>1, <2>2
  <2>4. \A i \in 1..Len(longer) : MayMove(longer[i].from_state, longer[i].to_state)
    <3> TAKE i \in 1..Len(longer)
    <3>1. CASE i = Len(rows) + 1
      BY <1>2, <3>1
    <3>2. CASE i \in 1..Len(rows)
      BY <1>2, <2>1, <3>2
    <3> QED
      BY <1>2, <2>2, <3>1, <3>2
  <2>5. \A i \in 1..Len(longer) - 1 : longer[i + 1].from_state = longer[i].to_state
    <3> TAKE i \in 1..Len(longer) - 1
    <3>1. CASE i = Len(rows)
      BY <1>2, <2>1, <2>2, <3>1
    <3>2. CASE i \in 1..Len(rows) - 1
      BY <1>2, <2>1, <2>2, <3>2
    <3> QED
      BY <1>2, <2>2, <3>1, <3>2
  <2>6. longer[Len(longer)].to_state = t
    BY <1>2, <2>2
  <2> HIDE DEF longer
  <2> QED
    BY <1>2, <2>3, <2>4, <2>5, <2>6 DEF HistoryOf
<1> QED
  BY <1>3, <1>4

LEMMA ChainInductive ==
    TypeOK /\ TransitionsChain /\ [Next]_recordVars => TransitionsChain'
<1> SUFFICES ASSUME TypeOK, TransitionsChain, [Next]_recordVars
             PROVE  TransitionsChain'
  OBVIOUS
<1> USE DEF TypeOK
<1>1. ASSUME NEW j \in Jobs, Create(j)
      PROVE  TransitionsChain'
  <2>1. transitions[j] = <<>>
    <3> SUFFICES ASSUME transitions[j] # <<>>
                 PROVE  FALSE
      OBVIOUS
    <3>1. transitions[j][Len(transitions[j])] \in Row
      OBVIOUS
    <3>2. transitions[j][Len(transitions[j])].to_state = "absent"
      BY <1>1 DEF Create, TransitionsChain, HistoryOf
    <3> QED
      BY <3>1, <3>2 DEF Row, ScanRunState
  <2> QED
    BY <1>1, <2>1 DEF Create, TransitionsChain, HistoryOf
<1>2. ASSUME NEW j \in Jobs, NEW target \in ScanRunState, Move(j, target)
      PROVE  TransitionsChain'
  <2>1. HistoryOf(status'[j], transitions'[j])
    BY <1>2, HistoryGrows DEF Move, TransitionsChain
  <2>2. \A k \in Jobs \ {j} : status'[k] = status[k] /\ transitions'[k] = transitions[k]
    BY <1>2 DEF Move
  <2> QED
    BY <2>1, <2>2 DEF TransitionsChain
<1>3. ASSUME NEW j \in Jobs, Send(j) \/ Publish(j)
      PROVE  TransitionsChain'
  BY <1>3 DEF Send, Publish, TransitionsChain
<1>4. CASE UNCHANGED recordVars
  BY <1>4 DEF recordVars, TransitionsChain
<1> QED
  BY <1>1, <1>2, <1>3, <1>4 DEF Next

(* The stored rows of every run are a legal history that ends at its status. *)
THEOREM RowsAreHistory == Spec => []TransitionsChain
<1>1. Init => TransitionsChain
  BY DEF Init, TransitionsChain, HistoryOf
<1> QED
  BY <1>1, ChainInductive, TypeCorrect, PTL DEF Spec
-----------------------------------------------------------------------------
(* A row, once written, is never taken back. *)
LEMMA VisitedGrows ==
    ASSUME TypeOK, NEW j \in Jobs, NEW target \in ScanRunState, Move(j, target)
    PROVE  \A k \in Jobs : Visited(k) \subseteq Visited(k)'
<1>1. [from_state |-> status[j], to_state |-> target] \in Row
  BY MovesAreTyped DEF Move, Row
<1>2. transitions[j] \in Seq(Row)
  BY DEF TypeOK
<1>3. transitions'[j] = Append(transitions[j], [from_state |-> status[j], to_state |-> target])
  BY DEF Move, TypeOK
<1>4. \A i \in DOMAIN transitions[j] :
         i \in DOMAIN transitions'[j] /\ transitions'[j][i] = transitions[j][i]
  BY <1>1, <1>2, <1>3
<1>5. Visited(j) \subseteq Visited(j)'
  BY <1>4 DEF Visited
<1>6. \A k \in Jobs \ {j} : transitions'[k] = transitions[k]
  BY DEF Move, TypeOK
<1> QED
  BY <1>5, <1>6 DEF Visited

LEMMA CoverInductive ==
    TypeOK /\ RecordCoversTraffic /\ [Next]_recordVars => RecordCoversTraffic'
<1> SUFFICES ASSUME TypeOK, RecordCoversTraffic, [Next]_recordVars
             PROVE  RecordCoversTraffic'
  OBVIOUS
<1>1. ASSUME NEW j \in Jobs, Create(j)
      PROVE  RecordCoversTraffic'
  BY <1>1 DEF Create, RecordCoversTraffic, Visited, TypeOK
<1>2. ASSUME NEW j \in Jobs, NEW target \in ScanRunState, Move(j, target)
      PROVE  RecordCoversTraffic'
  <2>1. \A k \in Jobs : Visited(k) \subseteq Visited(k)'
    BY <1>2, VisitedGrows
  <2>2. \A k \in Jobs : status'[k] = "completed" => k \in reports
    BY <1>2 DEF Move, RecordCoversTraffic, TypeOK
  <2> QED
    BY <1>2, <2>1, <2>2 DEF Move, RecordCoversTraffic
<1>3. ASSUME NEW j \in Jobs, Send(j) \/ Publish(j)
      PROVE  RecordCoversTraffic'
  BY <1>3 DEF Send, Publish, RecordCoversTraffic, Visited
<1>4. CASE UNCHANGED recordVars
  BY <1>4 DEF recordVars, RecordCoversTraffic, Visited
<1> QED
  BY <1>1, <1>2, <1>3, <1>4 DEF Next

(* Traffic and reports belong to runs recorded as running, a completed run   *)
(* has its reports.                                                          *)
THEOREM TrafficIsCovered == Spec => []RecordCoversTraffic
<1>1. Init => RecordCoversTraffic
  BY DEF Init, RecordCoversTraffic
<1> QED
  BY <1>1, CoverInductive, TypeCorrect, PTL DEF Spec
-----------------------------------------------------------------------------
LEMMA OverStays ==
    ASSUME TypeOK, [Next]_recordVars, NEW j \in Jobs, IsTerminal(status[j])
    PROVE  status'[j] = status[j] /\ transitions'[j] = transitions[j]
<1> USE DEF TypeOK
<1>1. ASSUME NEW k \in Jobs, Create(k)
      PROVE  status'[j] = status[j] /\ transitions'[j] = transitions[j]
  BY <1>1 DEF Create, IsTerminal, TerminalStates
<1>2. ASSUME NEW k \in Jobs, NEW target \in ScanRunState, Move(k, target)
      PROVE  status'[j] = status[j] /\ transitions'[j] = transitions[j]
  BY <1>2, MovesAreTyped DEF Move
<1>3. ASSUME NEW k \in Jobs, Send(k) \/ Publish(k)
      PROVE  status'[j] = status[j] /\ transitions'[j] = transitions[j]
  BY <1>3 DEF Send, Publish
<1>4. CASE UNCHANGED recordVars
  BY <1>4 DEF recordVars
<1> QED
  BY <1>1, <1>2, <1>3, <1>4 DEF Next

(* A run that is over keeps its status and its rows, whoever writes to it. *)
THEOREM OverNeverChanges == Spec => OverIsFinal
<1>1. TypeOK /\ [Next]_recordVars =>
        [\A j \in Jobs : IsTerminal(status[j]) =>
            status'[j] = status[j] /\ transitions'[j] = transitions[j]]_recordVars
  BY OverStays
<1> QED
  BY <1>1, TypeCorrect, PTL DEF Spec, OverIsFinal
=============================================================================
