----------------------------- MODULE EventStream -----------------------------
(***************************************************************************)
(* GET /api/scans/{id}/events: the loop of _send_events reading a record   *)
(* that is written meanwhile, the connection it writes to, and the browser's*)
(* EventSource in the console, which reconnects with Last-Event-ID.        *)
(*                                                                         *)
(* The stored rows are the events table: a row's id is its place in it, and *)
(* ids are shared by all jobs.  Reading the job and listing its events are *)
(* two reads of the store; every write of the store is one step.           *)
(***************************************************************************)
EXTENDS Naturals, Sequences, FiniteSets

CONSTANTS
    Jobs,
    Readers,       \* open consoles
    MaxRows,       \* bound: progress rows stop when the table is this long
    MaxBatch,      \* bound: the most rows one update adds
    MaxFaults      \* bound: connections lost plus restarts of the server

ASSUME StreamAssumption == MaxRows \in Nat /\ MaxBatch \in Nat \ {0} /\ MaxFaults \in Nat

VARIABLES
    rows,      \* the events table: [job, ends]
    over,      \* jobs whose stored status is terminal
    serving,   \* whether the server is up
    conn,      \* the server's side of each reader's stream
    wire,      \* row ids written to the socket and not yet read
    client,    \* the EventSource of each reader
    seen,      \* row ids a reader's console has received
    faults     \* connections lost and restarts so far

storeVars == <<rows, over>>
readerVars == <<conn, wire, client, seen>>
vars == <<storeVars, serving, readerVars, faults>>

Row == [job : Jobs, ends : BOOLEAN]

(* "ended": the console closed its source at scan_completed or scan_failed. *)
(* "refused": the server answered an error, which EventSource never retries.*)
Client == [at : {"idle"}] \union
          [at : {"connecting", "open", "ended", "refused"}, job : Jobs]

Closed == [at |-> "closed"]
Conn == [at : {"closed"}] \union
        [at : {"get", "list", "send", "done", "expired"}, last : Nat, over : BOOLEAN,
         batch : Seq(Nat), rounds : 0..1]

Init ==
    /\ rows = <<>>
    /\ over = {}
    /\ serving = TRUE
    /\ conn = [r \in Readers |-> Closed]
    /\ wire = [r \in Readers |-> <<>>]
    /\ client = [r \in Readers |-> [at |-> "idle"]]
    /\ seen = [r \in Readers |-> <<>>]
    /\ faults = 0

RowIds(j) == {i \in DOMAIN rows : rows[i].job = j}

Exists(j) == RowIds(j) # {}
-----------------------------------------------------------------------------
(* Writers of the record. *)

Add(j, n, ends) == rows' = rows \o [i \in 1..n |-> [job |-> j, ends |-> ends]]

Create(j) ==
    /\ serving
    /\ ~Exists(j)
    /\ Add(j, 1, FALSE)
    /\ UNCHANGED <<over, serving, readerVars, faults>>

(* An update that adds progress events.  It does not look at the status: the *)
(* worker of a run whose record was cancelled meanwhile still writes.        *)
Progress(j) ==
    /\ serving
    /\ Exists(j)
    /\ \E n \in 1..MaxBatch : Len(rows) + n <= MaxRows /\ Add(j, n, FALSE)
    /\ UNCHANGED <<over, serving, readerVars, faults>>

(* Mutant: the terminal status is stored, its event is written later or never. *)
EndWithoutEvent(j) ==
    /\ Exists(j) /\ j \notin over
    /\ over' = over \union {j}
    /\ UNCHANGED <<rows, serving, readerVars, faults>>

(* A move to a terminal state stores the status and its event in one update, *)
(* by a worker or a cancel while serving, by reconcile_interrupted before.   *)
End(j) ==
    /\ Exists(j) /\ j \notin over
    /\ over' = over \union {j}
    /\ Add(j, 1, TRUE)
    /\ UNCHANGED <<serving, readerVars, faults>>
-----------------------------------------------------------------------------
(* The loop of _send_events. *)

EventsAfter(j, last) == {i \in RowIds(j) : i > last}

InOrder(S) == CHOOSE s \in [1..Cardinality(S) -> S] :
                 \A i, k \in 1..Cardinality(S) : i < k => s[i] < s[k]

GetJob(r) ==
    /\ conn[r].at = "get"
    /\ conn' = [conn EXCEPT ![r].at = "list", ![r].over = client[r].job \in over]
    /\ UNCHANGED <<storeVars, serving, wire, client, seen, faults>>

ListEvents(r) ==
    /\ conn[r].at = "list"
    /\ conn' = [conn EXCEPT ![r].at = "send",
                            ![r].batch = InOrder(EventsAfter(client[r].job, conn[r].last))]
    /\ UNCHANGED <<storeVars, serving, wire, client, seen, faults>>

SendEvent(r) ==
    /\ conn[r].at = "send"
    /\ conn[r].batch # <<>>
    /\ wire' = [wire EXCEPT ![r] = Append(@, Head(conn[r].batch))]
    /\ conn' = [conn EXCEPT ![r].last = Head(conn[r].batch), ![r].batch = Tail(@)]
    /\ UNCHANGED <<storeVars, serving, client, seen, faults>>

(* Mutant of SawEnd: the status is looked at after the events were listed. *)
SeesEnd(r) == client[r].job \in over

SawEnd(r) == conn[r].over

(* The batch is out: say done, or send a heartbeat and go round again. *)
RoundEnds(r) ==
    /\ conn[r].at = "send"
    /\ conn[r].batch = <<>>
    /\ conn' = [conn EXCEPT ![r].at = IF SawEnd(r) THEN "done" ELSE "get", ![r].rounds = 1]
    /\ UNCHANGED <<storeVars, serving, wire, client, seen, faults>>

(* SSE_MAX_STREAM_SECONDS is positive, so it passes after a round at least. *)
Deadline(r) ==
    /\ conn[r].at = "get"
    /\ conn[r].rounds = 1
    /\ conn' = [conn EXCEPT ![r].at = "expired"]
    /\ UNCHANGED <<storeVars, serving, wire, client, seen, faults>>

Streaming(r) ==
    GetJob(r) \/ ListEvents(r) \/ SendEvent(r) \/ RoundEnds(r) \/ Deadline(r)
-----------------------------------------------------------------------------
(* The browser. *)

LastSeen(r) == IF seen[r] = <<>> THEN 0 ELSE seen[r][Len(seen[r])]

(* Mutants of ResumeFrom: Last-Event-ID is ignored, or taken for the next id. *)
ResumeFromStart(r) == 0
ResumeBefore(r) == LastSeen(r) - 1

ResumeFrom(r) == LastSeen(r)

Watch(r, j) ==
    /\ client[r].at = "idle"
    /\ Exists(j)
    /\ client' = [client EXCEPT ![r] = [at |-> "connecting", job |-> j]]
    /\ UNCHANGED <<storeVars, serving, conn, wire, seen, faults>>

Connect(r) ==
    /\ serving
    /\ client[r].at = "connecting"
    /\ client' = [client EXCEPT ![r].at = "open"]
    /\ conn' = [conn EXCEPT ![r] = [at |-> "get", last |-> ResumeFrom(r), over |-> FALSE,
                                    batch |-> <<>>, rounds |-> 0]]
    /\ UNCHANGED <<storeVars, serving, wire, seen, faults>>

(* Not signed in any more, or over the rate limit. *)
Refuse(r) ==
    /\ serving
    /\ client[r].at = "connecting"
    /\ client' = [client EXCEPT ![r].at = "refused"]
    /\ UNCHANGED <<storeVars, serving, conn, wire, seen, faults>>

(* onEvent: at the event that ends the run the console closes the source. *)
Receive(r) ==
    /\ wire[r] # <<>>
    /\ seen' = [seen EXCEPT ![r] = Append(@, Head(wire[r]))]
    /\ \/ /\ rows[Head(wire[r])].ends
          /\ client' = [client EXCEPT ![r].at = "ended"]
          /\ conn' = [conn EXCEPT ![r] = Closed]
          /\ wire' = [wire EXCEPT ![r] = <<>>]
       \/ /\ ~rows[Head(wire[r])].ends
          /\ wire' = [wire EXCEPT ![r] = Tail(@)]
          /\ UNCHANGED <<client, conn>>
    /\ UNCHANGED <<storeVars, serving, faults>>

Disconnect(R) ==
    /\ conn' = [r \in Readers |-> IF r \in R THEN Closed ELSE conn[r]]
    /\ wire' = [r \in Readers |-> IF r \in R THEN <<>> ELSE wire[r]]
    /\ client' = [r \in Readers |-> IF r \in R /\ client[r].at = "open"
                                    THEN [client[r] EXCEPT !.at = "connecting"]
                                    ELSE client[r]]

(* The server closed the stream and the browser has read all of it. *)
StreamEnds(r) ==
    /\ conn[r].at \in {"done", "expired"}
    /\ wire[r] = <<>>
    /\ Disconnect({r})
    /\ UNCHANGED <<storeVars, serving, seen, faults>>

ConnectionLost(r) ==
    /\ conn[r].at # "closed"
    /\ faults < MaxFaults
    /\ faults' = faults + 1
    /\ Disconnect({r})
    /\ UNCHANGED <<storeVars, serving, seen>>

Reading(r) ==
    Connect(r) \/ Refuse(r) \/ Receive(r) \/ StreamEnds(r)
-----------------------------------------------------------------------------
Crash ==
    /\ serving
    /\ faults < MaxFaults
    /\ faults' = faults + 1
    /\ serving' = FALSE
    /\ Disconnect(Readers)
    /\ UNCHANGED <<storeVars, seen>>

Reconcile(j) == ~serving /\ End(j)

Serve ==
    /\ ~serving
    /\ \A j \in Jobs : Exists(j) => j \in over
    /\ serving' = TRUE
    /\ UNCHANGED <<storeVars, readerVars, faults>>

Restarting == Serve \/ \E j \in Jobs : Reconcile(j)

Next ==
    \/ \E j \in Jobs : Create(j) \/ Progress(j) \/ (serving /\ End(j))
    \/ \E r \in Readers : \/ Streaming(r) \/ Reading(r) \/ ConnectionLost(r)
                          \/ \E j \in Jobs : Watch(r, j)
    \/ Crash \/ Restarting

Spec == Init /\ [][Next]_vars

(* The stream's thread, the browser and a restart go on; nobody has to run a *)
(* scan to its end or open a console.                                        *)
Fairness ==
    /\ \A r \in Readers : WF_vars(Streaming(r)) /\ WF_vars(Reading(r))
    /\ WF_vars(Restarting)

FairSpec == Spec /\ Fairness
-----------------------------------------------------------------------------
(* Every variable has its type. *)
TypeOK ==
    /\ rows \in Seq(Row)
    /\ over \subseteq Jobs
    /\ serving \in BOOLEAN
    /\ conn \in [Readers -> Conn]
    /\ wire \in [Readers -> Seq(Nat)]
    /\ client \in [Readers -> Client]
    /\ seen \in [Readers -> Seq(Nat)]
    /\ faults \in 0..MaxFaults

(* tests/test_scan_pipeline_regressions.py:108-112: a reader never misses,   *)
(* repeats or reorders an event of its job, whatever was lost on the way: it *)
(* has received exactly the rows up to the last one it received.             *)
NothingLostOrRepeated ==
    \A r \in Readers : seen[r] # <<>> =>
        /\ \A i, k \in DOMAIN seen[r] : i < k => seen[r][i] < seen[r][k]
        /\ {seen[r][i] : i \in DOMAIN seen[r]} =
             {i \in RowIds(client[r].job) : i <= LastSeen(r)}

(* docs/reference/api.md:146: a stream ends at the terminal event.  `done`   *)
(* is never said before the event that ends the run has been sent.           *)
DoneAfterEnd ==
    \A r \in Readers : conn[r].at = "done" =>
        \E i \in RowIds(client[r].job) : rows[i].ends /\ i <= conn[r].last

(* A console that watches a run learns that it ended, through lost           *)
(* connections, stream deadlines and restarts, unless it is refused.         *)
ReaderLearnsEnd ==
    \A r \in Readers :
        (client[r].at \in {"connecting", "open"} /\ client[r].job \in over)
            ~> client[r].at \in {"ended", "refused"}
=============================================================================
