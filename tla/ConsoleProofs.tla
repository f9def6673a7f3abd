---------------------------- MODULE ConsoleProofs ----------------------------
(***************************************************************************)
(* What the console promises, for any scans, findings, targets, open calls, *)
(* faults and gestures: the types, the promise of its HTTP client, and what *)
(* the shell, the workspace's panels and the Targets view show and send.    *)
(***************************************************************************)
EXTENDS Console, FiniteSetTheorems, WellFoundedInduction, TLAPS

Asking == Sending \union {"answered"}

ShellTasks == {"scan", "cancel", "triage", "mount", "refresh"}
ListTasks == ManagerTasks \union {"offers"}
Tasks == ShellTasks \union PanelTasks \union ListTasks

Steps == Asking \union {"scans", "findings", "history", "read", "list", "agents", "saved",
                        "offers"}

Ends == {"done", "failed", "refused", None}

Reason == [finding : Findings, status : NeedsReason]

TriageSaw == [finding : Findings, from : Scans \union {NoScan}, patch : FindingStatus,
              reason : Reason \union {None}, status : ScanRunState \union {None}]

ListSaw == [url : Urls, shown : Urls, selected : TargetIds \union {None},
            target : TargetIds \union {None}]

Subjects == Scans \union {NoScan, None} \union Findings \union Keys \union TargetIds

Shape == [task : Tasks, of : Subjects,
          at : Steps, live : BOOLEAN,
          saw : TriageSaw \union ListSaw \union ScanRunState \union {None},
          token : Held, tries : {0, 1, 2}, effects : {0, 1}, end : Ends, lapsed : BOOLEAN]

Fields == {"task", "of", "at", "live", "saw", "token", "tries", "effects", "end", "lapsed"}

(* What a task is about, and what its function has captured. *)
About(r) ==
    /\ r.task \in {"scan", "targetscan", "mount"} => r.of \in Scans \union {NoScan}
    /\ r.task \in {"cancel", "triage", "refresh"} => r.of \in Scans
    /\ r.task \in Lookups \union {"chat"} => r.of \in Findings
    /\ r.task \in {"evidence", "artifact"} => r.of \in Keys
    /\ r.task \in {"save", "testsave", "drop", "validate"} => r.of \in TargetIds
    /\ r.task = "triage" => r.saw \in TriageSaw
    /\ r.task = "refresh" => r.saw = "completed"
    /\ r.task \in ListTasks => r.saw \in ListSaw

(* The route of each task. *)
Stands(r) ==
    \/ r.task \in {"scan", "cancel", "targetscan", "validate"} /\ r.at \in Asking
    \/ r.task = "triage" /\ r.at \in Asking \union {"findings"}
    \/ r.task = "mount" /\ r.at = "scans"
    \/ /\ r.task = "mount" /\ r.at \in {"findings", "history"}
       /\ r.of \in Scans /\ r.saw \in ScanRunState
    \/ r.task = "refresh" /\ r.at = "findings"
    \/ r.task \in PanelTasks /\ r.at = "read"
    \/ r.task = "load" /\ r.at = "list"
    \/ r.task = "agents" /\ r.at = "agents"
    \/ r.task \in {"save", "drop"} /\ r.at \in Asking \union {"list", "offers"}
    \/ r.task = "testsave" /\ r.at \in Asking \union {"list", "saved"}
    \/ r.task = "offers" /\ r.at = "offers"

(* How often it was sent and carried out there. *)
Counts(r) ==
    /\ r.at # "answered" => r.effects = 0
    /\ r.at = "answered" =>
         /\ r.end \in {"done", "failed", "refused"}
         /\ r.end = "done" => r.effects = 1
         /\ r.end = "refused" => r.effects = 0
         /\ r.end = "done" /\ r.task \in {"scan", "targetscan"} => r.of \in Scans
    /\ r.at \in Sending => r.tries \in {1, 2}
    /\ r.at = "sent" /\ r.tries = 2 /\ r.token # "valid" => r.lapsed

Requests == {r \in Shape : About(r) /\ Stands(r) /\ Counts(r)}

CallFits == call \in [Slots -> {Idle} \union Requests]
-----------------------------------------------------------------------------
(* What becomes of a call: the fields that change, and those that do not. *)

Same(w, r, except) == \A f \in Fields \ except : w[f] = r[f]

(* What a call is for. *)
SameCall(w, r) == w.task = r.task /\ w.of = r.of /\ w.saw = r.saw /\ w.live = r.live

WithToken(r) == [r EXCEPT !.at = "sent", !.token = "valid"]
Answer(r, e) == [r EXCEPT !.at = "answered", !.end = e]
Retry(r) == [r EXCEPT !.at = "fetch", !.tries = 2]
Outdated(r, t) == [r EXCEPT !.token = t, !.lapsed = r.tries = 2]
AtSaved(r) == [r EXCEPT !.at = "saved"]
AtOffers(r) == [r EXCEPT !.task = "offers", !.at = "offers"]
CarryOut(r, e) == [r EXCEPT !.at = "answered", !.effects = @ + 1, !.end = e]
Onward(r, step) == [r EXCEPT !.at = step, !.end = None, !.effects = 0]
Found(r, n, status) == [r EXCEPT !.at = "findings", !.of = n, !.saw = status]

(* A request that has fetched a token is sent, and still the same request. *)
LEMMA Fetched ==
    ASSUME NEW r \in Requests, r.at = "fetch",
           NEW w, w = WithToken(r)
    PROVE  /\ w \in Requests /\ w.at = "sent" /\ SameCall(w, r)
           /\ w.effects = 0 /\ w.lapsed = r.lapsed
<1>1. r \in Shape /\ About(r) /\ Stands(r) /\ Counts(r)
  BY DEF Requests
<1>2. w \in Shape /\ w.at = "sent" /\ w.token = "valid" /\ Same(w, r, {"at", "token"})
  BY <1>1 DEF WithToken, Shape, Steps, Asking, Sending, Held, Same, Fields
<1>3. SameCall(w, r) /\ w.effects = r.effects /\ w.lapsed = r.lapsed /\ w.tries = r.tries
  BY <1>2 DEF Same, SameCall, Fields
<1>4. About(w) /\ Stands(w) /\ Counts(w)
  BY <1>1, <1>2, <1>3 DEF About, Stands, Counts, SameCall, Asking, Sending, PanelTasks, Lookups
<1> QED
  BY <1>1, <1>2, <1>3, <1>4 DEF Requests, Counts

(* An answer that changed nothing, or a refusal. *)
LEMMA Turned ==
    ASSUME NEW r \in Requests, r.at \in Sending, NEW e \in {"failed", "refused"},
           NEW w, w = Answer(r, e)
    PROVE  /\ w \in Requests /\ w.at = "answered" /\ w.end = e /\ SameCall(w, r)
           /\ w.effects = 0 /\ w.lapsed = r.lapsed
<1>1. r \in Shape /\ About(r) /\ Stands(r) /\ Counts(r)
  BY DEF Requests
<1>2. w \in Shape /\ w.at = "answered" /\ w.end = e /\ Same(w, r, {"at", "end"})
  BY <1>1 DEF Answer, Shape, Steps, Asking, Ends, Same, Fields
<1>3. SameCall(w, r) /\ w.effects = r.effects /\ w.lapsed = r.lapsed
  BY <1>2 DEF Same, SameCall, Fields
<1>4. About(w) /\ Stands(w) /\ Counts(w)
  BY <1>1, <1>2, <1>3 DEF About, Stands, Counts, SameCall, Asking, Sending, PanelTasks, Lookups
<1> QED
  BY <1>1, <1>2, <1>3, <1>4 DEF Requests, Counts, Sending

(* 403, the first time and the second. *)
LEMMA Again ==
    ASSUME NEW r \in Requests, r.at = "sent",
           NEW w, w = Retry(r)
    PROVE  /\ w \in Requests /\ w.at = "fetch" /\ SameCall(w, r)
           /\ w.effects = 0 /\ w.lapsed = r.lapsed
<1>1. r \in Shape /\ About(r) /\ Stands(r) /\ Counts(r)
  BY DEF Requests
<1>2. w \in Shape /\ w.at = "fetch" /\ w.tries = 2 /\ Same(w, r, {"at", "tries"})
  BY <1>1 DEF Retry, Shape, Steps, Asking, Sending, Same, Fields
<1>3. SameCall(w, r) /\ w.effects = r.effects /\ w.lapsed = r.lapsed
  BY <1>2 DEF Same, SameCall, Fields
<1>4. About(w) /\ Stands(w) /\ Counts(w)
  BY <1>1, <1>2, <1>3 DEF About, Stands, Counts, SameCall, Asking, Sending, PanelTasks, Lookups
<1> QED
  BY <1>1, <1>2, <1>3, <1>4 DEF Requests, Counts

(* The token lapses on its way. *)
LEMMA Lapsed ==
    ASSUME NEW r \in Requests, r.at = "sent", NEW t \in Held,
           NEW w, w = Outdated(r, t)
    PROVE  /\ w \in Requests /\ w.at = "sent" /\ SameCall(w, r)
           /\ w.effects = 0
<1>1. r \in Shape /\ About(r) /\ Stands(r) /\ Counts(r)
  BY DEF Requests
<1>2. w \in Shape /\ w.token = t /\ w.lapsed = (r.tries = 2) /\ Same(w, r, {"token", "lapsed"})
  BY <1>1 DEF Outdated, Shape, Same, Fields
<1>3. /\ SameCall(w, r) /\ w.effects = r.effects /\ w.at = r.at /\ w.tries = r.tries
      /\ w.end = r.end
  BY <1>2 DEF Same, SameCall, Fields
<1>4. About(w) /\ Stands(w) /\ Counts(w)
  BY <1>1, <1>2, <1>3 DEF About, Stands, Counts, SameCall, Asking, Sending, PanelTasks, Lookups
<1> QED
  BY <1>1, <1>2, <1>3, <1>4 DEF Requests, Counts

(* The handler has carried the change out; a new scan has its number. *)
LEMMA CarriedOut ==
    ASSUME NEW r \in Requests, r.at = "sent", NEW e \in {"done", "failed"},
           NEW w, w = CarryOut(r, e),
           r.task \notin {"scan", "targetscan"}
    PROVE  /\ w \in Requests /\ w.at = "answered" /\ w.end = e /\ SameCall(w, r)
           /\ w.effects = 1 /\ w.lapsed = r.lapsed
<1>1. r \in Shape /\ About(r) /\ Stands(r) /\ Counts(r)
  BY DEF Requests
<1>2. r.effects + 1 = 1
  BY <1>1 DEF Counts
<1>3. /\ w \in Shape /\ w.at = "answered" /\ w.end = e /\ w.effects = 1
      /\ Same(w, r, {"at", "effects", "end"})
  BY <1>1, <1>2 DEF CarryOut, Shape, Steps, Asking, Ends, Same, Fields
<1>4. SameCall(w, r) /\ w.lapsed = r.lapsed
  BY <1>3 DEF Same, SameCall, Fields
<1>5. About(w) /\ Stands(w) /\ Counts(w)
  BY <1>1, <1>3, <1>4 DEF About, Stands, Counts, SameCall, Asking, Sending, PanelTasks, Lookups
<1> QED
  BY <1>3, <1>4, <1>5 DEF Requests

(* Carrying out the start of a scan answers the call with the scan's number. *)
LEMMA ScanAccepted ==
    ASSUME NEW r \in Requests, r.at = "sent", NEW e \in {"done", "failed"}, NEW n \in Scans,
           r.task \in {"scan", "targetscan"}, NEW v, v = [r EXCEPT !.of = n],
           NEW w, w = CarryOut(v, e)
    PROVE  /\ w \in Requests /\ w.at = "answered" /\ w.end = e
           /\ w.task = r.task /\ w.of = n /\ w.saw = r.saw /\ w.live = r.live
           /\ w.effects = 1 /\ w.lapsed = r.lapsed
<1>1. r \in Shape /\ About(r) /\ Stands(r) /\ Counts(r)
  BY DEF Requests
<1>2. v \in Shape /\ v.of = n /\ Same(v, r, {"of"})
  BY <1>1 DEF Shape, Subjects, Same, Fields
<1>3. v.effects + 1 = 1
  BY <1>1, <1>2 DEF Counts, Same, Fields
<1>4. /\ w \in Shape /\ w.at = "answered" /\ w.end = e /\ w.effects = 1
      /\ Same(w, v, {"at", "effects", "end"})
  BY <1>2, <1>3 DEF CarryOut, Shape, Steps, Asking, Ends, Same, Fields
<1>5. /\ w.task = r.task /\ w.of = n /\ w.saw = r.saw /\ w.live = r.live
      /\ w.lapsed = r.lapsed
  BY <1>2, <1>4 DEF Same, Fields
<1>6. About(w) /\ Stands(w) /\ Counts(w)
  BY <1>1, <1>4, <1>5 DEF About, Stands, Counts, Asking, Sending, PanelTasks, Lookups
<1> QED
  BY <1>4, <1>5, <1>6 DEF Requests

(* Its answer is not wanted any more. *)
LEMMA Left ==
    ASSUME NEW r \in Requests, NEW w, w = [r EXCEPT !.live = FALSE]
    PROVE  w \in Requests /\ w.live = FALSE /\ Same(w, r, {"live"})
<1>1. r \in Shape /\ About(r) /\ Stands(r) /\ Counts(r)
  BY DEF Requests
<1>2. w \in Shape /\ w.live = FALSE /\ Same(w, r, {"live"})
  BY <1>1 DEF Shape, Same, Fields
<1>3. /\ w.task = r.task /\ w.of = r.of /\ w.saw = r.saw /\ w.at = r.at /\ w.end = r.end
      /\ w.effects = r.effects /\ w.lapsed = r.lapsed /\ w.tries = r.tries
      /\ w.token = r.token
  BY <1>2 DEF Same, Fields
<1>4. About(w) /\ Stands(w) /\ Counts(w)
  BY <1>1, <1>3 DEF About, Stands, Counts
<1> QED
  BY <1>2, <1>4 DEF Requests

(* The function goes on to its next request. *)
Follows(r, step) ==
    CASE step = "findings" -> r.task = "triage" /\ r.at = "answered"
      [] step = "history" -> r.task = "mount" /\ r.at = "findings"
      [] step = "list" -> r.task \in {"save", "testsave", "drop"} /\ r.at = "answered"
      [] step = "saved" -> r.task = "testsave" /\ r.at = "answered"
      [] step = "offers" -> r.task \in {"save", "drop"} /\ r.at = "list"
      [] OTHER -> FALSE

(* A call that goes on to a read that follows it is still the same call. *)
LEMMA WentOn ==
    ASSUME NEW r \in Requests, NEW step \in Steps, Follows(r, step),
           NEW w, w = Onward(r, step)
    PROVE  /\ w \in Requests /\ w.at = step /\ SameCall(w, r)
           /\ w.effects = 0 /\ w.lapsed = r.lapsed
<1>1. r \in Shape /\ About(r) /\ Stands(r) /\ Counts(r)
  BY DEF Requests
<1>2. w \in Shape /\ w.at = step /\ w.effects = 0 /\ Same(w, r, {"at", "end", "effects"})
  BY <1>1 DEF Onward, Shape, Ends, Same, Fields
<1>3. SameCall(w, r) /\ w.lapsed = r.lapsed
  BY <1>2 DEF Same, SameCall, Fields
<1>4. About(w) /\ Stands(w) /\ Counts(w)
  BY <1>1, <1>2, <1>3 DEF About, Stands, Counts, SameCall, Asking, Sending, PanelTasks, Lookups,
                          Follows
<1> QED
  BY <1>2, <1>3, <1>4 DEF Requests

(* The scans are listed: the last one's findings are asked for. *)
LEMMA ListedScan ==
    ASSUME NEW r \in Requests, r.task = "mount", r.at = "scans",
           NEW n \in Scans, NEW status \in ScanRunState,
           NEW w, w = Found(r, n, status)
    PROVE  /\ w \in Requests /\ w.at = "findings" /\ w.of = n /\ w.saw = status
           /\ w.task = r.task /\ w.live = r.live /\ w.effects = 0
<1>1. r \in Shape /\ About(r) /\ Stands(r) /\ Counts(r)
  BY DEF Requests
<1>2. /\ w \in Shape /\ w.at = "findings" /\ w.of = n /\ w.saw = status
      /\ Same(w, r, {"at", "of", "saw"})
  BY <1>1 DEF Found, Subjects, Shape, Steps, Same, Fields
<1>3. w.task = r.task /\ w.live = r.live /\ w.effects = r.effects
  BY <1>2 DEF Same, Fields
<1>4. About(w) /\ Stands(w) /\ Counts(w)
  BY <1>1, <1>2, <1>3 DEF About, Stands, Counts, Asking, Sending, ListTasks, ManagerTasks, Lookups
<1> QED
  BY <1>1, <1>2, <1>3, <1>4 DEF Requests, Counts

(* A test of a target that had to be saved goes on twice: the shell reloads *)
(* its targets, and the target is checked.                                  *)
LEMMA Reloading ==
    ASSUME NEW r \in Requests, r.task = "testsave", r.at = "list",
           NEW v, v = AtSaved(r), NEW w, w = AtOffers(r)
    PROVE  /\ v \in Requests /\ v.at = "saved" /\ SameCall(v, r)
           /\ w \in Requests /\ w.at = "offers" /\ w.task = "offers" /\ w.of = r.of
           /\ w.saw = r.saw /\ w.live = r.live
           /\ v.effects = 0 /\ w.effects = 0
<1>1. r \in Shape /\ About(r) /\ Stands(r) /\ Counts(r)
  BY DEF Requests
<1>2. v \in Shape /\ v.at = "saved" /\ Same(v, r, {"at"})
  BY <1>1 DEF AtSaved, AtOffers, Shape, Steps, Same, Fields
<1>3. SameCall(v, r) /\ v.effects = r.effects
  BY <1>2 DEF Same, SameCall, Fields
<1>4. About(v) /\ Stands(v) /\ Counts(v)
  BY <1>1, <1>2, <1>3 DEF About, Stands, Counts, SameCall, Asking, Sending
<1>5. "offers" \in Tasks /\ "offers" \in Steps
  BY DEF Tasks, ListTasks, Steps
<1>6. w \in Shape /\ w.task = "offers" /\ w.at = "offers" /\ Same(w, r, {"task", "at"})
  BY <1>1, <1>5 DEF AtSaved, AtOffers, Shape, Same, Fields
<1>7. w.of = r.of /\ w.saw = r.saw /\ w.live = r.live /\ w.effects = r.effects
  BY <1>6 DEF Same, Fields
<1>8. About(w) /\ Stands(w) /\ Counts(w)
  BY <1>1, <1>6, <1>7 DEF About, Stands, Counts, Asking, Sending, Lookups, ListTasks, ManagerTasks
<1> QED
  BY <1>1, <1>2, <1>3, <1>4, <1>6, <1>7, <1>8 DEF Requests, Counts

(* A change is asked for. *)
Posts == {"scan", "cancel", "triage", "save", "testsave", "drop", "validate", "targetscan"}

(* A mutation begins as a request that is being sent and has changed nothing. *)
LEMMA Asked ==
    ASSUME NEW r \in Shape, r.task \in Posts, About(r), cached \in Held,
           NEW w, w = Posted(r)
    PROVE  w \in Requests /\ w.at \in Sending /\ SameCall(w, r) /\ w.effects = 0
<1> DEFINE at == IF cached = "none" THEN "fetch" ELSE "sent"
<1>1. w = [r EXCEPT !.at = at, !.token = cached, !.tries = 1, !.effects = 0]
  BY DEF Posted
<1>2. at \in Steps /\ at \in Sending
  BY DEF Steps, Asking, Sending
<1> HIDE DEF at
<1>3. /\ w \in Shape /\ w.at = at /\ w.effects = 0 /\ w.tries = 1
      /\ Same(w, r, {"at", "token", "tries", "effects"})
  BY <1>1, <1>2 DEF Shape, Same, Fields
<1>4. SameCall(w, r)
  BY <1>3 DEF Same, SameCall, Fields
<1>5. About(w) /\ Stands(w) /\ Counts(w)
  BY <1>2, <1>3, <1>4 DEF About, Stands, Counts, SameCall, Asking, Sending, Posts
<1> QED
  BY <1>2, <1>3, <1>4, <1>5 DEF Requests

(* A call as it is made. *)
Fresh(w, task, of, at) ==
    /\ w \in Shape /\ w.task = task /\ w.of = of /\ w.at = at
    /\ w.saw = None /\ w.live = TRUE /\ w.effects = 0

(* A new call is about its subject and has seen nothing. *)
LEMMA Made ==
    ASSUME NEW task \in Tasks, NEW at \in Steps, NEW of \in Subjects
    PROVE  Fresh(Call(task, of, at), task, of, at)
BY DEF Fresh, Call, Shape, Held, Ends

(* What a handler captures changes nothing else of its call. *)
LEMMA Captured ==
    ASSUME NEW r \in Shape, NEW saw \in TriageSaw \union ListSaw \union ScanRunState \union {None},
           NEW w, w = [r EXCEPT !.saw = saw]
    PROVE  w \in Shape /\ w.saw = saw /\ Same(w, r, {"saw"})
BY DEF Shape, Same, Fields

(* A request that reads. *)
LEMMA Read ==
    ASSUME NEW r \in Shape, About(r), r.effects = 0,
           \/ r.task \in PanelTasks /\ r.at = "read"
           \/ r.task = "refresh" /\ r.at = "findings"
           \/ r.task = "mount" /\ r.at = "scans"
           \/ r.task = "load" /\ r.at = "list"
           \/ r.task = "agents" /\ r.at = "agents"
    PROVE  r \in Requests
BY DEF Requests, Stands, Counts, Sending
-----------------------------------------------------------------------------
(* The slots. *)

(* A slot in use holds a request. *)
LEMMA StandsThere ==
    ASSUME CallFits, NEW c \in Slots, call[c] # Idle \/ call[c].at \in Steps
    PROVE  call[c] \in Requests
BY DEF CallFits, Idle, Steps, Asking, Sending

(* A request is not the free slot, and has a step and a task. *)
LEMMA NotIdle ==
    ASSUME NEW r \in Requests
    PROVE  r # Idle /\ r.at \in Steps /\ r.task \in Tasks
BY DEF Requests, Shape, Idle, Steps, Asking, Sending

(* Writing a request to one slot keeps the calls in their types. *)
LEMMA Replaced ==
    ASSUME CallFits, NEW c \in Slots, NEW w \in {Idle} \union Requests,
           call' = [call EXCEPT ![c] = w]
    PROVE  CallFits' /\ call'[c] = w /\ \A d \in Slots \ {c} : call'[d] = call[d]
BY DEF CallFits

(* One call begins in a free slot. *)
BeganIn(calls, r) ==
    \E d \in Slots :
        /\ call[d] = Idle /\ call'[d] = r
        /\ \A e \in Slots \ {d} : call'[e] = calls[e]

(* A new call takes a free slot and leaves the others as they are. *)
LEMMA Begins ==
    ASSUME NEW calls \in [Slots -> {Idle} \union Requests], NEW r \in Requests,
           BeginIn(calls, r)
    PROVE  CallFits' /\ BeganIn(calls, r)
<1>1. PICK d \in FreeSlots : call' = [calls EXCEPT ![d] = r]
  BY DEF BeginIn
<1>2. d \in Slots /\ call[d] = Idle
  BY DEF FreeSlots
<1> QED
  BY <1>1, <1>2 DEF CallFits, BeganIn

(* Calls that nobody waits for any more differ in that alone. *)
LEMMA UnwantedFits ==
    ASSUME CallFits, NEW tasks, NEW calls,
           calls = [c \in Slots |-> IF call[c] # Idle /\ call[c].task \in tasks
                                    THEN [call[c] EXCEPT !.live = FALSE] ELSE call[c]]
    PROVE  /\ calls \in [Slots -> {Idle} \union Requests]
           /\ \A c \in Slots :
                 IF call[c] # Idle /\ call[c].task \in tasks
                 THEN calls[c] \in Requests /\ calls[c].live = FALSE
                      /\ Same(calls[c], call[c], {"live"})
                 ELSE calls[c] = call[c]
<1>1. ASSUME NEW c \in Slots
      PROVE  /\ calls[c] \in {Idle} \union Requests
             /\ IF call[c] # Idle /\ call[c].task \in tasks
                THEN calls[c] \in Requests /\ calls[c].live = FALSE
                     /\ Same(calls[c], call[c], {"live"})
                ELSE calls[c] = call[c]
  <2>1. CASE call[c] # Idle /\ call[c].task \in tasks
    <3>1. calls[c] = [call[c] EXCEPT !.live = FALSE]
      BY <2>1
    <3>2. call[c] \in Requests
      BY <2>1, StandsThere
    <3> QED
      BY <2>1, <3>1, <3>2, Left
  <2>2. CASE ~(call[c] # Idle /\ call[c].task \in tasks)
    BY <2>2 DEF CallFits
  <2> QED
    BY <2>1, <2>2
<1> QED
  BY <1>1
-----------------------------------------------------------------------------
(* The server's scans. *)

RunsTyped == runs \in [Scans -> Run] /\ reviews \in [Scans -> [Findings -> FindingStatus]]

(* They are created in their order. *)
InOrder == \E n \in Nat : Created = 1..n

(* Scans are counted from one; no scan has the number that stands for none. *)
LEMMA ScansThere == 1 \in Scans /\ 2 \in Scans /\ Scans \subseteq Nat \ {0} /\ NoScan \notin Scans
<1>1. PICK n \in Nat : Scans = 1..n
  BY ScanAssumption, FS_CardinalityType
<1> QED
  BY <1>1, ScanAssumption DEF NoScan

(* Scans are created in order: the next number is that of none created. *)
LEMMA CreatedCounted ==
    ASSUME InOrder
    PROVE  /\ Cardinality(Created) \in Nat /\ Created = 1..Cardinality(Created)
           /\ Created # {} => Cardinality(Created) \in Created
           /\ NextScan \notin Created
<1>1. PICK n \in Nat : Created = 1..n
  BY DEF InOrder
<1>2. Cardinality(Created) = n
  BY <1>1, FS_Interval
<1> QED
  BY <1>1, <1>2 DEF NextScan

(* What a step may make of the runs. *)
RunsMove ==
    \A s \in Scans :
        /\ runs[s].at # "none" => runs'[s].at # "none"
        /\ runs[s].at \in TerminalStates =>
             runs'[s].at = runs[s].at /\ runs'[s].found = runs[s].found
        /\ runs[s].stop => runs'[s].stop

RunsFit == RunsTyped' /\ InOrder' /\ RunsMove

(* A step that leaves the server's runs alone keeps their types and order. *)
LEMMA RunsStay ==
    ASSUME RunsTyped, InOrder, UNCHANGED <<runs, reviews>>
    PROVE  RunsFit
BY DEF RunsFit, RunsTyped, InOrder, Created, RunsMove

(* The end of a run keeps the runs' types and order. *)
LEMMA RunEndsFit ==
    ASSUME RunsTyped, InOrder, NEW s \in Scans, RunEnds(s)
    PROVE  RunsFit
<1>1. PICK end \in {"completed", "failed", "cancelled"}, found \in SUBSET Findings :
         runs' = [runs EXCEPT ![s] = [runs[s] EXCEPT !.at = end, !.found = found]]
  <2>1. CASE \E found \in {{}, Findings} :
               runs' = [runs EXCEPT ![s].at = "completed", ![s].found = found]
    <3>1. PICK found \in {{}, Findings} :
             runs' = [runs EXCEPT ![s].at = "completed", ![s].found = found]
      BY <2>1
    <3>2. runs' = [runs EXCEPT ![s] = [runs[s] EXCEPT !.at = "completed", !.found = found]]
      BY <3>1 DEF RunsTyped
    <3> QED
      BY <3>2
  <2>2. CASE \E end \in {"failed"} \union StopsAs(s) : runs' = [runs EXCEPT ![s].at = end]
    <3>1. PICK end \in {"failed"} \union StopsAs(s) : runs' = [runs EXCEPT ![s].at = end]
      BY <2>2
    <3>2. end \in {"failed", "cancelled"}
      BY DEF StopsAs
    <3>3. runs[s] \in Run
      BY DEF RunsTyped
    <3>4. [runs[s] EXCEPT !.at = end] = [runs[s] EXCEPT !.at = end, !.found = runs[s].found]
      BY <3>3 DEF Run
    <3>5. runs[s].found \in SUBSET Findings
      BY <3>3 DEF Run
    <3> QED
      BY <3>1, <3>2, <3>4, <3>5
  <2> QED
    BY <2>1, <2>2 DEF RunEnds
<1> DEFINE w == [runs[s] EXCEPT !.at = end, !.found = found]
<1>2. runs[s] \in Run
  BY DEF RunsTyped
<1>3. w \in Run /\ w.at = end /\ w.stop = runs[s].stop
  BY <1>2 DEF Run, ScanRunState
<1> HIDE DEF w
<1>4. runs[s].at = "running"
  BY DEF RunEnds
<1>5. /\ runs' = [runs EXCEPT ![s] = w]
      /\ runs'[s] = w /\ \A t \in Scans \ {s} : runs'[t] = runs[t]
  BY <1>1 DEF RunsTyped, w
<1>6. RunsTyped'
  BY <1>3, <1>5 DEF RunsTyped, RunEnds
<1>7. Created' = Created
  BY <1>3, <1>4, <1>5 DEF Created
<1>8. RunsMove
  BY <1>3, <1>4, <1>5 DEF RunsMove, TerminalStates
<1> QED
  BY <1>6, <1>7, <1>8 DEF RunsFit, InOrder

(* So does the start of the next one, which is created then. *)
LEMMA RunCreatedFits ==
    ASSUME RunsTyped, InOrder, NextScan \in Scans, UNCHANGED reviews,
           runs' = [runs EXCEPT ![NextScan].at = "running"]
    PROVE  RunsFit /\ NextScan \in Created'
<1> DEFINE n == NextScan
           w == [runs[n] EXCEPT !.at = "running"]
<1>1. n \notin Created /\ Created = 1..Cardinality(Created) /\ Cardinality(Created) \in Nat
  BY CreatedCounted
<1>2. runs[n].at = "none" /\ runs[n] \in Run
  BY <1>1 DEF RunsTyped, Created
<1>3. w \in Run /\ w.at = "running" /\ w.stop = runs[n].stop
  BY <1>2 DEF Run, ScanRunState
<1> HIDE DEF w
<1>4. runs'[n] = w /\ \A t \in Scans \ {n} : runs'[t] = runs[t]
  BY DEF RunsTyped, w
<1>5. RunsTyped'
  BY <1>3 DEF RunsTyped, w
<1>6. Created' = Created \union {n}
  BY <1>3, <1>4 DEF Created
<1>7. Created' = 1..(Cardinality(Created) + 1)
  BY <1>1, <1>6 DEF NextScan
<1>8. RunsMove
  BY <1>2, <1>3, <1>4 DEF RunsMove, TerminalStates
<1> QED
  BY <1>1, <1>5, <1>6, <1>7, <1>8 DEF RunsFit, InOrder

(* And a stop, which is then on record. *)
LEMMA RunStoppedFits ==
    ASSUME RunsTyped, InOrder, NEW s \in Scans, UNCHANGED reviews,
           runs' = [runs EXCEPT ![s].stop = TRUE]
    PROVE  RunsFit /\ runs'[s].stop
<1> DEFINE w == [runs[s] EXCEPT !.stop = TRUE]
<1>1. w \in Run /\ w.at = runs[s].at /\ w.found = runs[s].found /\ w.stop = TRUE
  BY DEF RunsTyped, Run
<1> HIDE DEF w
<1>2. runs'[s] = w /\ \A t \in Scans \ {s} : runs'[t] = runs[t]
  BY DEF RunsTyped, w
<1>3. RunsTyped'
  BY <1>1 DEF RunsTyped, w
<1>4. Created' = Created
  BY <1>1, <1>2 DEF Created
<1>5. RunsMove
  BY <1>1, <1>2 DEF RunsMove
<1> QED
  BY <1>1, <1>2, <1>3, <1>4, <1>5 DEF RunsFit, InOrder

(* And a review. *)
LEMMA TriageServedFits ==
    ASSUME RunsTyped, InOrder, CallFits, NEW c \in Slots, TriageServed(c)
    PROVE  RunsFit
<1>1. call[c] \in Requests /\ call[c].task = "triage"
  BY StandsThere DEF TriageServed, Accepted, At, Steps, Asking, Sending
<1>2. call[c].of \in Scans /\ call[c].saw \in TriageSaw
  BY <1>1 DEF Requests, About
<1>3. call[c].saw.finding \in Findings /\ call[c].saw.patch \in FindingStatus
  BY <1>2 DEF TriageSaw
<1>4. reviews' \in [Scans -> [Findings -> FindingStatus]]
  <2> DEFINE scan == call[c].of
             f == call[c].saw.finding
             patch == call[c].saw.patch
  <2>1. reviews' = [reviews EXCEPT ![scan][f] = patch] \/ UNCHANGED reviews
    BY DEF TriageServed
  <2>2. scan \in Scans /\ f \in Findings /\ patch \in FindingStatus
    BY <1>2, <1>3
  <2>3. reviews \in [Scans -> [Findings -> FindingStatus]]
    BY DEF RunsTyped
  <2> HIDE DEF scan, f, patch
  <2> QED
    BY <2>1, <2>2, <2>3
<1>5. UNCHANGED runs
  BY DEF TriageServed
<1>6. RunsTyped' /\ InOrder'
  BY <1>4, <1>5 DEF RunsTyped, InOrder, Created
<1>7. RunsMove
  BY <1>5 DEF RunsMove
<1> QED
  BY <1>6, <1>7 DEF RunsFit
-----------------------------------------------------------------------------
(* The shell's state. *)

(* What is selected is shown, and what is shown is of an active scan. *)
Selected(state) ==
    /\ state.selected # None => state.status[state.selected] # None
    /\ \A f \in Findings : state.status[f] # None => state.active # NoScan

AppFits(state) == state \in App /\ Selected(state)

(* What an answer leaves alone. *)
SameControls(a, b) ==
    /\ a.scanning = b.scanning /\ a.cancelling = b.cancelling /\ a.loading = b.loading
    /\ a.stream = b.stream

SameShown(a, b) ==
    /\ a.active = b.active /\ a.activeStatus = b.activeStatus /\ a.from = b.from
    /\ a.status = b.status

(* The finding chosen is one of them, if there are any. *)
LEMMA FirstOfIn ==
    ASSUME NEW ids
    PROVE  IF ids = {} THEN FirstOf(ids) = None ELSE FirstOf(ids) \in ids
BY DEF FirstOf

(* A refresh shows the scan it is about, with the findings of its run. *)
LEMMA RefreshedFits ==
    ASSUME RunsTyped, AppFits(app), NEW scan \in Scans, NEW status \in ScanRunState \union {None},
           NEW preferred \in Findings \union {None}, NEW switch \in BOOLEAN,
           NEW a, a = Refreshed(app, scan, status, preferred, switch)
    PROVE  /\ AppFits(a) /\ SameControls(a, app)
           /\ a.active = scan /\ a.activeStatus = status /\ a.from = scan
           /\ ShownIds(a) = runs[scan].found
           /\ a.selected = None => runs[scan].found = {}
           /\ a.offers = app.offers /\ a.target = app.target
<1> DEFINE ids == runs[scan].found
           next == IF preferred \in ids THEN preferred ELSE FirstOf(ids)
           shown == [f \in Findings |-> IF f \in ids THEN reviews[scan][f] ELSE None]
           view == IF switch /\ next # None THEN "workspace" ELSE app.view
<1>1. /\ ids \in SUBSET Findings
      /\ \A f \in Findings : reviews[scan][f] \in FindingStatus /\ reviews[scan][f] # None
  BY ScanAssumption DEF RunsTyped, Run
<1>2. next \in Findings \union {None} /\ (next # None => next \in ids) /\ (next = None => ids = {})
  BY <1>1, FirstOfIn, ScanAssumption
<1>3. shown \in [Findings -> FindingStatus \union {None}]
  BY <1>1
<1>4. \A f \in Findings : shown[f] # None <=> f \in ids
  BY <1>1
<1>5. view \in Views /\ scan \in Scans \union {NoScan}
  BY DEF AppFits, App, Views
<1>6. a = [app EXCEPT !.active = scan, !.activeStatus = status, !.from = scan,
                      !.status = shown, !.selected = next, !.view = view]
  BY DEF Refreshed
<1> HIDE DEF ids, next, shown, view
<1>7. /\ a \in App /\ SameControls(a, app)
      /\ a.active = scan /\ a.activeStatus = status /\ a.from = scan
      /\ a.status = shown /\ a.selected = next
      /\ a.offers = app.offers /\ a.target = app.target
  <2>1. app \in App
    BY DEF AppFits
  <2> DEFINE b == [app EXCEPT !.active = scan, !.activeStatus = status, !.from = scan]
  <2>2. a = [b EXCEPT !.status = shown, !.selected = next, !.view = view]
    BY <1>6
  <2>4. b \in App
    BY <1>5, <2>1 DEF App
  <2> HIDE DEF b
  <2>5. a \in App
    BY <1>2, <1>3, <1>5, <2>2, <2>4 DEF App
  <2>3. /\ SameControls(a, app)
        /\ a.active = scan /\ a.activeStatus = status /\ a.from = scan
        /\ a.status = shown /\ a.selected = next
        /\ a.offers = app.offers /\ a.target = app.target
    BY <1>6, <2>1 DEF App, SameControls
  <2> QED
    BY <2>3, <2>5
<1>8. ShownIds(a) = ids
  BY <1>1, <1>4, <1>7 DEF ShownIds
<1>9. Selected(a)
  BY <1>1, <1>2, <1>4, <1>7, ScansThere DEF Selected
<1> QED
  BY <1>2, <1>7, <1>8, <1>9 DEF AppFits, ids

(* The cleared shell shows nothing and has no active scan. *)
LEMMA ClearedFits ==
    ASSUME AppFits(app), NEW a, a = [Cleared(app) EXCEPT !.loading = FALSE]
    PROVE  /\ AppFits(a) /\ a.active = NoScan /\ a.from = NoScan /\ a.selected = None
           /\ ShownIds(a) = {} /\ a.loading = FALSE
           /\ a.scanning = app.scanning /\ a.cancelling = app.cancelling /\ a.stream = app.stream
<1>1. NothingShown \in [Findings -> FindingStatus \union {None}]
  BY DEF NothingShown
<1>2. a = [app EXCEPT !.active = NoScan, !.activeStatus = None, !.from = NoScan,
                      !.status = NothingShown, !.selected = None, !.loading = FALSE]
  BY DEF Cleared
<1>3. /\ a \in App /\ a.active = NoScan /\ a.from = NoScan /\ a.selected = None
      /\ a.status = NothingShown /\ a.loading = FALSE
      /\ a.scanning = app.scanning /\ a.cancelling = app.cancelling /\ a.stream = app.stream
  <2>1. app \in App
    BY DEF AppFits
  <2>2. a \in App
    BY <1>1, <1>2, <2>1 DEF App
  <2>3. /\ a.active = NoScan /\ a.from = NoScan /\ a.selected = None
        /\ a.status = NothingShown /\ a.loading = FALSE
        /\ a.scanning = app.scanning /\ a.cancelling = app.cancelling /\ a.stream = app.stream
    BY <1>2, <2>1 DEF App
  <2> QED
    BY <2>2, <2>3
<1> QED
  BY <1>3 DEF AppFits, Selected, ShownIds, NothingShown
-----------------------------------------------------------------------------
(* What a step does to the calls. *)

ITypes == TypeOK /\ CallFits /\ AppFits(app) /\ InOrder

OnlyAt(c) == \A d \in Slots \ {c} : call'[d] = call[d]

(* The call r is of one of these tasks. *)
Of(r, tasks) == r # Idle /\ r.task \in tasks

(* A call that is not being sent and has no answer yet. *)
Silent(r) == r.at \notin Asking

(* What the promise of a call allows. *)
Keeps(r, w) ==
    \/ Silent(r) /\ (Silent(w) \/ w.at \in Sending)
    \/ /\ r.at \in Sending
       /\ w.at \in Sending \/ (w.at = "answered" /\ (w.end = "refused" => ~permitted \/ r.lapsed))
    \/ r.at = "answered" /\ (Silent(w) \/ (w.at = "answered" /\ w.end = r.end /\ w.effects = r.effects))
Kept == \A c \in Slots : Keeps(call[c], call'[c])

(* A call that stays as it is keeps its promise. *)
LEMMA KeptSame == ASSUME CallFits, NEW c \in Slots PROVE Keeps(call[c], call[c])
<1>1. CASE call[c] = Idle
  BY <1>1 DEF Keeps, Silent, Idle, Asking, Sending
<1>2. CASE call[c] \in Requests
  BY <1>2 DEF Keeps, Silent, Asking
<1> QED
  BY <1>1, <1>2 DEF CallFits

(* A call that has ended leaves its slot free, and the others alone. *)
LEMMA FreesFits ==
    ASSUME CallFits, NEW c \in Slots, call[c] \in Requests, call[c].at \notin Sending, Frees(c)
    PROVE  CallFits' /\ call'[c] = Idle /\ OnlyAt(c) /\ Kept
<1>1. CallFits' /\ call'[c] = Idle /\ OnlyAt(c)
  BY DEF Frees, CallFits, OnlyAt
<1>2. Keeps(call[c], Idle)
  BY DEF Keeps, Silent, Asking, Idle, Sending
<1> QED
  BY <1>1, <1>2, KeptSame DEF OnlyAt, Kept

(* A call that goes on stays itself, and the others stay as they are. *)
LEMMA GoesFits ==
    ASSUME CallFits, NEW c \in Slots, call[c] \in Requests, NEW step \in Steps,
           Follows(call[c], step), Goes(c, step)
    PROVE  /\ CallFits' /\ call'[c] \in Requests /\ call'[c].at = step
           /\ SameCall(call'[c], call[c]) /\ OnlyAt(c) /\ Kept
<1> DEFINE w == [call[c] EXCEPT !.at = step, !.end = None, !.effects = 0]
<1>1. call' = [call EXCEPT ![c] = w]
  BY DEF Goes, CallFits
<1>0. w = Onward(call[c], step)
  BY DEF Onward
<1> HIDE DEF w
<1>2. w \in Requests /\ w.at = step /\ SameCall(w, call[c])
  BY <1>0, WentOn
<1>3. CallFits' /\ call'[c] = w /\ OnlyAt(c)
  BY <1>1, <1>2, Replaced DEF OnlyAt
<1>4. Keeps(call[c], w)
  BY <1>2 DEF Keeps, Silent, Follows, Asking, Sending
<1> QED
  BY <1>2, <1>3, <1>4, KeptSame DEF OnlyAt, Kept

(* A rejected call is answered with a failure and has changed nothing. *)
LEMMA RejectedFits ==
    ASSUME CallFits, NEW c \in Slots, call[c].at \in Sending, Rejected(c)
    PROVE  /\ CallFits' /\ call[c] \in Requests /\ call'[c] \in Requests /\ call'[c].at = "answered"
           /\ call'[c].end = "failed" /\ SameCall(call'[c], call[c]) /\ OnlyAt(c) /\ Kept
           /\ call'[c].effects = 0
<1> DEFINE w == [call[c] EXCEPT !.at = "answered", !.end = "failed"]
<1>1. call' = [call EXCEPT ![c] = w]
  BY DEF Rejected, CallFits
<1>2. call[c] \in Requests
  BY StandsThere DEF Steps, Asking
<1>0. w = Answer(call[c], "failed")
  BY DEF Answer
<1> HIDE DEF w
<1>3. w \in Requests /\ w.at = "answered" /\ w.end = "failed" /\ SameCall(w, call[c])
      /\ w.effects = 0
  BY <1>0, <1>2, Turned
<1>4. CallFits' /\ call'[c] = w /\ OnlyAt(c)
  BY <1>1, <1>3, Replaced DEF OnlyAt
<1>5. Keeps(call[c], w)
  BY <1>3 DEF Keeps, Silent, Asking, Sending
<1> QED
  BY <1>2, <1>3, <1>4, <1>5, KeptSame DEF OnlyAt, Kept

(* The handler carried a change out; a new scan gets its number. *)
LEMMA ExecutedFits ==
    ASSUME CallFits, NEW c \in Slots, call[c].at = "sent", call[c].task \notin {"scan", "targetscan"},
           Executed(c, call[c]), faults \in 0..MaxFaults
    PROVE  /\ CallFits' /\ call[c] \in Requests /\ call'[c] \in Requests /\ call'[c].at = "answered"
           /\ call'[c].end \in {"done", "failed"} /\ SameCall(call'[c], call[c]) /\ OnlyAt(c) /\ Kept
           /\ faults' \in 0..MaxFaults
<1>1. PICK ok \in BOOLEAN :
        /\ call' = [call EXCEPT ![c] = [call[c] EXCEPT !.at = "answered", !.effects = @ + 1,
                                                       !.end = IF ok THEN "done" ELSE "failed"]]
        /\ IF ok THEN UNCHANGED faults ELSE Fault
  BY DEF Executed
<1> DEFINE e == IF ok THEN "done" ELSE "failed"
           w == [call[c] EXCEPT !.at = "answered", !.effects = @ + 1, !.end = e]
<1>2. call[c] \in Requests
  BY StandsThere DEF Steps, Asking, Sending
<1>3. e \in {"done", "failed"}
  OBVIOUS
<1>4. call' = [call EXCEPT ![c] = w]
  BY <1>1
<1>0. w = CarryOut(call[c], e)
  BY DEF CarryOut
<1> HIDE DEF e, w
<1>5. w \in Requests /\ w.at = "answered" /\ w.end = e /\ SameCall(w, call[c])
  BY <1>0, <1>2, <1>3, CarriedOut
<1>6. CallFits' /\ call'[c] = w /\ OnlyAt(c)
  BY <1>4, <1>5, Replaced DEF OnlyAt
<1>7. Keeps(call[c], w)
  BY <1>3, <1>5 DEF Keeps, Silent, Asking, Sending
<1>8. faults' \in 0..MaxFaults
  BY <1>1, ClientAssumption DEF Fault
<1> QED
  BY <1>2, <1>3, <1>5, <1>6, <1>7, <1>8, KeptSame DEF OnlyAt, Kept

(* A scan that is started answers its call with the scan's number. *)
LEMMA ScanExecutedFits ==
    ASSUME CallFits, NEW c \in Slots, call[c].at = "sent", call[c].task \in {"scan", "targetscan"},
           NEW n \in Scans, Executed(c, [call[c] EXCEPT !.of = n]), faults \in 0..MaxFaults
    PROVE  /\ CallFits' /\ call[c] \in Requests /\ call'[c] \in Requests /\ call'[c].at = "answered"
           /\ call'[c].end \in {"done", "failed"} /\ OnlyAt(c) /\ Kept
           /\ call'[c].task = call[c].task /\ call'[c].of = n /\ call'[c].saw = call[c].saw
           /\ call'[c].live = call[c].live
           /\ faults' \in 0..MaxFaults
<1> DEFINE v == [call[c] EXCEPT !.of = n]
<1>1. PICK ok \in BOOLEAN :
        /\ call' = [call EXCEPT ![c] = [v EXCEPT !.at = "answered", !.effects = @ + 1,
                                                 !.end = IF ok THEN "done" ELSE "failed"]]
        /\ IF ok THEN UNCHANGED faults ELSE Fault
  BY DEF Executed
<1> DEFINE e == IF ok THEN "done" ELSE "failed"
           w == [v EXCEPT !.at = "answered", !.effects = @ + 1, !.end = e]
<1>2. call[c] \in Requests
  BY StandsThere DEF Steps, Asking, Sending
<1>3. e \in {"done", "failed"}
  OBVIOUS
<1>4. call' = [call EXCEPT ![c] = w]
  BY <1>1
<1>0. v = [call[c] EXCEPT !.of = n] /\ w = CarryOut(v, e)
  BY DEF CarryOut
<1> HIDE DEF e, v, w
<1>5. /\ w \in Requests /\ w.at = "answered" /\ w.end = e
      /\ w.task = call[c].task /\ w.of = n /\ w.saw = call[c].saw /\ w.live = call[c].live
  BY <1>0, <1>2, <1>3, ScanAccepted
<1>6. CallFits' /\ call'[c] = w /\ OnlyAt(c)
  BY <1>4, <1>5, Replaced DEF OnlyAt
<1>7. Keeps(call[c], w)
  BY <1>3, <1>5 DEF Keeps, Silent, Asking, Sending
<1>8. faults' \in 0..MaxFaults
  BY <1>1, ClientAssumption DEF Fault
<1> QED
  BY <1>2, <1>3, <1>5, <1>6, <1>7, <1>8, KeptSame DEF OnlyAt, Kept

(* A new call. *)
LEMMA BeginFits ==
    ASSUME CallFits, NEW r \in Requests, r.at # "answered", Begin(r)
    PROVE  CallFits' /\ BeganIn(call, r) /\ Kept
<1>1. CallFits' /\ BeganIn(call, r)
  BY Begins DEF Begin, CallFits
<1>2. PICK d \in Slots : call[d] = Idle /\ call'[d] = r /\ \A e \in Slots \ {d} : call'[e] = call[e]
  BY <1>1 DEF BeganIn
<1>3. Keeps(Idle, r)
  BY DEF Keeps, Silent, Idle, Asking, Sending
<1> QED
  BY <1>1, <1>2, <1>3, KeptSame DEF Kept

(* The calls of these tasks are not wanted any more. *)
Dropped(calls, tasks) ==
    \A c \in Slots :
        IF call[c] # Idle /\ call[c].task \in tasks
        THEN calls[c] \in Requests /\ calls[c].live = FALSE /\ Same(calls[c], call[c], {"live"})
        ELSE calls[c] = call[c]

(* Calls that nobody waits for keep their promise. *)
LEMMA DroppedFits ==
    ASSUME CallFits, NEW tasks, NEW calls,
           calls = [c \in Slots |-> IF call[c] # Idle /\ call[c].task \in tasks
                                    THEN [call[c] EXCEPT !.live = FALSE] ELSE call[c]]
    PROVE  /\ calls \in [Slots -> {Idle} \union Requests] /\ Dropped(calls, tasks)
           /\ \A c \in Slots : Keeps(call[c], calls[c])
<1>1. calls \in [Slots -> {Idle} \union Requests] /\ Dropped(calls, tasks)
  BY UnwantedFits DEF Dropped
<1>2. ASSUME NEW c \in Slots PROVE Keeps(call[c], calls[c])
  <2>1. CASE call[c] # Idle /\ call[c].task \in tasks
    <3>1. /\ calls[c].at = call[c].at /\ calls[c].end = call[c].end
          /\ calls[c].effects = call[c].effects
      BY <1>1, <2>1 DEF Dropped, Same, Fields
    <3>2. Keeps(call[c], call[c])
      BY KeptSame
    <3> QED
      BY <3>1, <3>2 DEF Keeps, Silent
  <2>2. CASE ~(call[c] # Idle /\ call[c].task \in tasks)
    BY <1>1, <2>2, KeptSame DEF Dropped
  <2> QED
    BY <2>1, <2>2
<1> QED
  BY <1>1, <1>2

(* An effect that runs again drops its calls and begins one. *)
LEMMA RestartFits ==
    ASSUME CallFits, NEW tasks, NEW r \in Requests, r.at \notin Asking,
           Restart(tasks, r)
    PROVE  CallFits' /\ Kept /\ \E calls : Dropped(calls, tasks) /\ BeganIn(calls, r)
<1> DEFINE calls == Unwanted(tasks)
<1>1. /\ calls \in [Slots -> {Idle} \union Requests] /\ Dropped(calls, tasks)
      /\ \A c \in Slots : Keeps(call[c], calls[c])
  BY DroppedFits DEF Unwanted
<1> HIDE DEF calls
<1>2. CallFits' /\ BeganIn(calls, r)
  BY <1>1, Begins DEF Restart, calls
<1>3. PICK d \in Slots : call[d] = Idle /\ call'[d] = r /\ \A e \in Slots \ {d} : call'[e] = calls[e]
  BY <1>2 DEF BeganIn
<1>4. Keeps(Idle, r)
  BY DEF Keeps, Silent, Idle, Asking, Sending
<1> QED
  BY <1>1, <1>2, <1>3, <1>4 DEF Kept
-----------------------------------------------------------------------------
(* The client. *)

ClientFits == cached' \in Held /\ permitted' \in BOOLEAN /\ faults' \in 0..MaxFaults

(* Faults stay within their bound. *)
LEMMA FaultFits ==
    ASSUME faults \in 0..MaxFaults, Fault \/ UNCHANGED faults
    PROVE  faults' \in 0..MaxFaults
BY ClientAssumption DEF Fault

(* Its steps leave alone what a call is for, and no change is made. *)
ClientMove(r, w) ==
    \/ w = r
    \/ /\ r \in Requests /\ w \in Requests /\ SameCall(w, r)
       /\ r.at \in Sending /\ w.at \in Asking
       /\ w.at = "answered" => w.end # "done" /\ w.effects = 0

(* Each step of the HTTP client moves calls in one of the client's ways. *)
LEMMA ClientMoves ==
    ASSUME ITypes, ClientSteps
    PROVE  /\ CallFits' /\ Kept /\ ClientFits
           /\ \A c \in Slots : ClientMove(call[c], call'[c])
<1> USE DEF ITypes
<1>0. cached \in Held /\ permitted \in BOOLEAN /\ faults \in 0..MaxFaults
  BY DEF TypeOK
<1>1. CASE Lapse
  <2> DEFINE Stale(t) == IF t = "valid" THEN "stale" ELSE t
  <2>1. cached' \in Held /\ permitted' = permitted /\ faults' \in 0..MaxFaults
    BY <1>0, <1>1, FaultFits DEF Lapse, Held
  <2>2. ASSUME NEW c \in Slots
        PROVE  /\ call'[c] \in {Idle} \union Requests /\ ClientMove(call[c], call'[c])
               /\ Keeps(call[c], call'[c])
    <3>1. CASE call[c] = Idle \/ call[c].at # "sent"
      <4>1. call'[c] = call[c]
        BY <1>1, <3>1 DEF Lapse
      <4> QED
        BY <4>1, KeptSame DEF CallFits, ClientMove
    <3>2. CASE call[c] # Idle /\ call[c].at = "sent"
      <4> DEFINE t == Stale(call[c].token)
                 w == Outdated(call[c], t)
      <4>1. call'[c] = w
        BY <1>1, <3>2 DEF Lapse, Outdated
      <4>2. call[c] \in Requests
        BY <3>2 DEF CallFits
      <4>3. t \in Held
        BY <4>2 DEF Requests, Shape, Held
      <4>4. w = Outdated(call[c], t)
        OBVIOUS
      <4> HIDE DEF t, w
      <4>5. w \in Requests /\ w.at = "sent" /\ SameCall(w, call[c]) /\ w.effects = 0
        BY <3>2, <4>2, <4>3, <4>4, Lapsed
      <4> QED
        BY <3>2, <4>1, <4>2, <4>5 DEF ClientMove, Keeps, Asking, Sending
    <3> QED
      BY <3>1, <3>2
  <2>3. call' = [c \in Slots |-> call'[c]]
    BY <1>1 DEF Lapse
  <2>4. CallFits'
    BY <2>2, <2>3 DEF CallFits
  <2> QED
    BY <1>0, <2>1, <2>2, <2>4 DEF ClientFits, Kept
<1>2. CASE \E c \in Slots : FetchToken(c)
  <2>1. PICK c \in Slots : FetchToken(c)
    BY <1>2
  <2> DEFINE w == WithToken(call[c])
  <2>2. call' = [call EXCEPT ![c] = w]
    BY <2>1 DEF FetchToken, CallFits, WithToken
  <2>3. call[c].at = "fetch" /\ call[c] \in Requests
    BY <2>1, StandsThere DEF FetchToken, At, Steps, Asking, Sending
  <2>4. w = WithToken(call[c])
    OBVIOUS
  <2> HIDE DEF w
  <2>5. w \in Requests /\ w.at = "sent" /\ SameCall(w, call[c])
    BY <2>3, <2>4, Fetched
  <2>6. CallFits' /\ call'[c] = w /\ \A d \in Slots \ {c} : call'[d] = call[d]
    BY <2>2, <2>5, Replaced
  <2>7. Keeps(call[c], w) /\ ClientMove(call[c], w)
    BY <2>3, <2>5 DEF Keeps, ClientMove, Asking, Sending
  <2> QED
    BY <1>0, <2>1, <2>6, <2>7, KeptSame DEF ClientFits, Kept, ClientMove, FetchToken, Held
<1>3. CASE \E c \in Slots : Lost(c)
  <2>1. PICK c \in Slots : Lost(c)
    BY <1>3
  <2>2. /\ CallFits' /\ call[c] \in Requests /\ call'[c] \in Requests /\ call'[c].at = "answered"
        /\ call'[c].end = "failed" /\ SameCall(call'[c], call[c]) /\ OnlyAt(c) /\ Kept
        /\ call'[c].effects = 0
    BY <2>1, RejectedFits DEF Lost
  <2>3. ClientMove(call[c], call'[c])
    BY <2>1, <2>2 DEF ClientMove, Lost, Asking
  <2>4. faults' \in 0..MaxFaults
    BY <1>0, <2>1, FaultFits DEF Lost
  <2> QED
    BY <1>0, <2>1, <2>2, <2>3, <2>4 DEF ClientFits, ClientMove, Lost, OnlyAt
<1>4. CASE \E c \in Slots : Denied(c)
  <2>1. PICK c \in Slots : Denied(c)
    BY <1>4
  <2>2. call[c].at = "sent" /\ call[c] \in Requests
    BY <2>1, StandsThere DEF Denied, At, Steps, Asking, Sending
  <2>3. CASE call[c].tries = 1
    <3> DEFINE w == Retry(call[c])
    <3>1. call' = [call EXCEPT ![c] = w]
      BY <2>1, <2>3 DEF Denied, CallFits, Retry
    <3>2. w = Retry(call[c])
      OBVIOUS
    <3> HIDE DEF w
    <3>3. w \in Requests /\ w.at = "fetch" /\ SameCall(w, call[c])
      BY <2>2, <3>2, Again
    <3>4. CallFits' /\ call'[c] = w /\ \A d \in Slots \ {c} : call'[d] = call[d]
      BY <3>1, <3>3, Replaced
    <3>5. Keeps(call[c], w) /\ ClientMove(call[c], w)
      BY <2>2, <3>3 DEF Keeps, ClientMove, Asking, Sending
    <3> QED
      BY <1>0, <2>1, <2>3, <3>4, <3>5, KeptSame DEF ClientFits, Kept, ClientMove, Denied, Held
  <2>4. CASE call[c].tries # 1
    <3> DEFINE w == Answer(call[c], "refused")
    <3>1. call' = [call EXCEPT ![c] = w]
      BY <2>1, <2>4 DEF Denied, CallFits, Answer
    <3>2. w = Answer(call[c], "refused")
      OBVIOUS
    <3> HIDE DEF w
    <3>3. w \in Requests /\ w.at = "answered" /\ w.end = "refused" /\ SameCall(w, call[c])
          /\ w.effects = 0
      BY <2>2, <3>2, Turned DEF Sending
    <3>4. CallFits' /\ call'[c] = w /\ \A d \in Slots \ {c} : call'[d] = call[d]
      BY <3>1, <3>3, Replaced
    <3>5. ~permitted \/ call[c].lapsed
      <4>1. call[c].tries = 2
        BY <2>2, <2>4 DEF Requests, Counts, Sending
      <4> QED
        BY <2>1, <2>2, <4>1 DEF Denied, Accepted, At, Requests, Counts
    <3>6. Keeps(call[c], w) /\ ClientMove(call[c], w)
      BY <2>2, <3>3, <3>5 DEF Keeps, ClientMove, Asking, Sending
    <3> QED
      BY <1>0, <2>1, <2>4, <3>4, <3>6, KeptSame DEF ClientFits, Kept, ClientMove, Denied
  <2> QED
    BY <2>3, <2>4
<1> QED
  BY <1>1, <1>2, <1>3, <1>4 DEF ClientSteps
-----------------------------------------------------------------------------
(* The server carries out what is asked of it. *)

(* Call c is answered, and what it is for stays but for the number of a new scan. *)
Served(c) ==
    /\ CallFits' /\ Kept /\ OnlyAt(c) /\ ClientFits
    /\ call[c] \in Requests /\ call'[c] \in Requests
    /\ call[c].at = "sent" /\ call'[c].at = "answered"
    /\ call'[c].task = call[c].task /\ call'[c].saw = call[c].saw /\ call'[c].live = call[c].live

(* The server creates the next scan, or rejects the call and creates none. *)
LEMMA ScanCreatedFits ==
    ASSUME ITypes, NEW c \in Slots, ScanCreated(c)
    PROVE  /\ Served(c) /\ RunsFit /\ UNCHANGED app /\ call[c].task \in {"scan", "targetscan"}
           /\ \/ call'[c].of \in Created'
              \/ call'[c].of = call[c].of /\ call'[c].end # "done" /\ UNCHANGED runs
<1> USE DEF ITypes, TypeOK
<1>1. RunsTyped
  BY DEF RunsTyped
<1>2. call[c].at = "sent" /\ call[c].task \in {"scan", "targetscan"}
  BY DEF ScanCreated, Accepted, At
<1>3. CASE /\ NextScan \in Scans /\ runs' = [runs EXCEPT ![NextScan].at = "running"]
           /\ Executed(c, [call[c] EXCEPT !.of = NextScan])
  <2>1. RunsFit /\ NextScan \in Created'
    BY <1>1, <1>3, RunCreatedFits DEF ScanCreated
  <2>2. /\ CallFits' /\ call[c] \in Requests /\ call'[c] \in Requests /\ call'[c].at = "answered"
        /\ OnlyAt(c) /\ Kept
        /\ call'[c].task = call[c].task /\ call'[c].of = NextScan /\ call'[c].saw = call[c].saw
        /\ call'[c].live = call[c].live
        /\ faults' \in 0..MaxFaults
    BY <1>2, <1>3, ScanExecutedFits
  <2> QED
    BY <1>2, <2>1, <2>2 DEF Served, ClientFits, ScanCreated
<1>4. CASE Fault /\ Rejected(c) /\ UNCHANGED runs
  <2>1. RunsFit
    BY <1>1, <1>4, RunsStay DEF ScanCreated
  <2>2. /\ CallFits' /\ call[c] \in Requests /\ call'[c] \in Requests /\ call'[c].at = "answered"
        /\ call'[c].end = "failed" /\ SameCall(call'[c], call[c]) /\ OnlyAt(c) /\ Kept
    BY <1>2, <1>4, RejectedFits DEF Sending
  <2>3. faults' \in 0..MaxFaults
    BY <1>4, FaultFits
  <2> QED
    BY <1>2, <1>4, <2>1, <2>2, <2>3 DEF Served, ClientFits, ScanCreated, SameCall
<1> QED
  BY <1>3, <1>4 DEF ScanCreated

(* A stop that is accepted is on record, or the run has ended. *)
LEMMA CancelServedFits ==
    ASSUME ITypes, NEW c \in Slots, CancelServed(c)
    PROVE  /\ Served(c) /\ RunsFit /\ UNCHANGED app /\ call[c].task = "cancel"
           /\ SameCall(call'[c], call[c]) /\ call[c].of \in Scans /\ Created' = Created
           /\ runs'[call[c].of].stop \/ runs'[call[c].of].at \in TerminalStates
           /\ call'[c].end = "done" => runs'[call[c].of].stop
<1> USE DEF ITypes, TypeOK
<1>1. RunsTyped
  BY DEF RunsTyped
<1>2. call[c].at = "sent" /\ call[c].task = "cancel" /\ call[c] \in Requests
  BY StandsThere DEF CancelServed, Accepted, At, Steps, Asking, Sending
<1>3. call[c].of \in Scans
  BY <1>2 DEF Requests, About
<1>4. CASE runs[call[c].of].at \in TerminalStates
  <2>1. RunsFit
    BY <1>1, <1>4, RunsStay DEF CancelServed
  <2>2. /\ CallFits' /\ call'[c] \in Requests /\ call'[c].at = "answered"
        /\ call'[c].end = "failed" /\ SameCall(call'[c], call[c]) /\ OnlyAt(c) /\ Kept
    BY <1>2, <1>4, RejectedFits DEF Sending, CancelServed
  <2>3. UNCHANGED <<app, runs, cached, permitted, faults>>
    BY <1>4 DEF CancelServed
  <2> QED
    BY <1>2, <1>3, <1>4, <2>1, <2>2, <2>3 DEF Served, ClientFits, SameCall, Created
<1>5. CASE runs[call[c].of].at \notin TerminalStates
  <2>1. /\ Executed(c, call[c]) /\ runs' = [runs EXCEPT ![call[c].of].stop = TRUE]
        /\ UNCHANGED <<app, reviews, cached, permitted>>
    BY <1>5 DEF CancelServed
  <2>2. RunsFit /\ runs'[call[c].of].stop
    BY <1>1, <1>3, <2>1, RunStoppedFits
  <2>3. /\ CallFits' /\ call'[c] \in Requests /\ call'[c].at = "answered"
        /\ SameCall(call'[c], call[c]) /\ OnlyAt(c) /\ Kept /\ faults' \in 0..MaxFaults
    BY <1>2, <2>1, ExecutedFits
  <2>4. Created' = Created
    BY <1>1, <1>3, <2>1 DEF Created, RunsTyped, Run
  <2> QED
    BY <1>2, <1>3, <2>1, <2>2, <2>3, <2>4 DEF Served, ClientFits, SameCall
<1> QED
  BY <1>4, <1>5

(* A review leaves the runs and the shell alone. *)
LEMMA TriageServing ==
    ASSUME ITypes, NEW c \in Slots, TriageServed(c)
    PROVE  /\ Served(c) /\ RunsFit /\ UNCHANGED <<app, runs>> /\ call[c].task = "triage"
           /\ SameCall(call'[c], call[c])
<1> USE DEF ITypes, TypeOK
<1>1. RunsTyped
  BY DEF RunsTyped
<1>2. call[c].at = "sent" /\ call[c].task = "triage" /\ call[c] \in Requests
  BY StandsThere DEF TriageServed, Accepted, At, Steps, Asking, Sending
<1>3. RunsFit
  BY <1>1, TriageServedFits
<1>4. Executed(c, call[c]) \/ (Rejected(c) /\ UNCHANGED faults)
  BY DEF TriageServed
<1>5. /\ CallFits' /\ call'[c] \in Requests /\ call'[c].at = "answered"
      /\ SameCall(call'[c], call[c]) /\ OnlyAt(c) /\ Kept /\ faults' \in 0..MaxFaults
  BY <1>2, <1>4, ExecutedFits, RejectedFits DEF Sending
<1>6. UNCHANGED <<app, runs, cached, permitted>>
  BY DEF TriageServed
<1> QED
  BY <1>2, <1>3, <1>5, <1>6 DEF Served, ClientFits, SameCall
-----------------------------------------------------------------------------
(* What the shell does with an answer. *)

(* The call whose turn it is. *)
LEMMA EndedThere ==
    ASSUME CallFits, NEW c \in Slots, NEW task, Ended(c, task)
    PROVE  call[c] \in Requests /\ call[c].at = "answered" /\ call[c].task = task
BY StandsThere DEF Ended, At, Steps, Asking

(* A call at a step is a request. *)
LEMMA AtThere ==
    ASSUME CallFits, NEW c \in Slots, NEW step \in Steps, At(c, step)
    PROVE  call[c] \in Requests /\ call[c].at = step
BY StandsThere DEF At

FreedAt(c) == CallFits' /\ call'[c] = Idle /\ OnlyAt(c) /\ Kept
MovedAt(c, step) ==
    /\ CallFits' /\ call'[c] \in Requests /\ call'[c].at = step /\ SameCall(call'[c], call[c])
    /\ OnlyAt(c) /\ Kept

(* The answer to a start of a scan frees its call; a success names a scan. *)
LEMMA ScanAnsweredFits ==
    ASSUME ITypes, NEW c \in Slots, ScanAnswered(c)
    PROVE  /\ call[c] \in Requests /\ call[c].task = "scan" /\ call[c].at = "answered"
           /\ call[c].end = "done" => call[c].of \in Scans
           /\ FreedAt(c) /\ AppFits(app')
<1>1. call[c] \in Requests /\ call[c].task = "scan" /\ call[c].at = "answered" /\ Frees(c)
  BY EndedThere DEF ScanAnswered, ITypes
<1>2. FreedAt(c)
  BY <1>1, FreesFits DEF FreedAt, ITypes, Sending
<1>3. call[c].end = "done" => call[c].of \in Scans
  BY <1>1 DEF Requests, Counts
<1>4. "queued" \in ScanRunState
  BY DEF ScanRunState
<1>5. app' \in App
  BY <1>3, <1>4 DEF ScanAnswered, ITypes, AppFits, App
<1>6. app'.selected = app.selected /\ app'.status = app.status
  BY DEF ScanAnswered, ITypes, AppFits, App
<1>7. app'.active = app.active \/ app'.active \in Scans
  BY <1>3 DEF ScanAnswered, ITypes, AppFits, App
<1>8. Selected(app')
  BY <1>6, <1>7, ScansThere DEF Selected, AppFits, ITypes
<1> QED
  BY <1>1, <1>2, <1>3, <1>5, <1>8 DEF AppFits

(* The answer to a stop frees its call. *)
LEMMA StopAnsweredFits ==
    ASSUME ITypes, NEW c \in Slots, StopAnswered(c)
    PROVE  /\ call[c] \in Requests /\ call[c].task = "cancel" /\ call[c].at = "answered"
           /\ FreedAt(c) /\ AppFits(app')
<1>1. call[c] \in Requests /\ call[c].task = "cancel" /\ call[c].at = "answered" /\ Frees(c)
  BY EndedThere DEF StopAnswered, ITypes
<1>2. FreedAt(c)
  BY <1>1, FreesFits DEF FreedAt, ITypes, Sending
<1> DEFINE cancelling == app.cancelling /\ call[c].end = "done"
<1>3. app \in App /\ app' = [app EXCEPT !.cancelling = cancelling]
  BY DEF StopAnswered, ITypes, AppFits
<1>4. cancelling \in BOOLEAN
  OBVIOUS
<1> HIDE DEF cancelling
<1>5. app' \in App /\ app'.selected = app.selected /\ app'.status = app.status /\ app'.active = app.active
  BY <1>3, <1>4 DEF App
<1> QED
  BY <1>1, <1>2, <1>5 DEF AppFits, Selected, ITypes

(* The answer to a review frees its call or reads the findings. *)
LEMMA TriageAnsweredFits ==
    ASSUME ITypes, NEW c \in Slots, TriageAnswered(c)
    PROVE  /\ call[c] \in Requests /\ call[c].task = "triage" /\ call[c].at = "answered"
           /\ FreedAt(c) \/ (MovedAt(c, "findings") /\ call[c].end = "done")
<1>1. call[c] \in Requests /\ call[c].task = "triage" /\ call[c].at = "answered"
  BY EndedThere DEF TriageAnswered, ITypes
<1>2. CASE Frees(c)
  BY <1>1, <1>2, FreesFits DEF FreedAt, ITypes, Sending
<1>3. CASE call[c].end = "done" /\ Goes(c, "findings")
  <2>1. Follows(call[c], "findings") /\ "findings" \in Steps
    BY <1>1 DEF Follows, Steps
  <2> QED
    BY <1>1, <1>3, <2>1, GoesFits DEF MovedAt, ITypes
<1> QED
  BY <1>1, <1>2, <1>3 DEF TriageAnswered

(* The list of scans empties the shell or leads to a created scan's findings. *)
LEMMA ScansListedFits ==
    ASSUME ITypes, NEW c \in Slots, ScansListed(c)
    PROVE  /\ call[c] \in Requests /\ call[c].task = "mount" /\ call[c].at = "scans"
           /\ AppFits(app')
           /\ \/ FreedAt(c) /\ app' = [Cleared(app) EXCEPT !.loading = FALSE]
              \/ /\ CallFits' /\ Kept /\ OnlyAt(c) /\ UNCHANGED app
                 /\ call'[c] \in Requests /\ call'[c].task = "mount" /\ call'[c].at = "findings"
                 /\ call'[c].of \in Created /\ call'[c].saw = runs[call'[c].of].at
<1> DEFINE found(s) == [call EXCEPT ![c].at = "findings", ![c].of = s, ![c].saw = runs[s].at]
<1>1. call[c] \in Requests /\ call[c].at = "scans"
  BY AtThere DEF ScansListed, ITypes, Steps
<1>2. call[c].task = "mount"
  BY <1>1 DEF Requests, Stands, Asking, Sending
<1>3. CASE Frees(c) /\ app' = [Cleared(app) EXCEPT !.loading = FALSE]
  <2>1. FreedAt(c)
    BY <1>1, <1>3, FreesFits DEF FreedAt, ITypes, Sending
  <2> QED
    BY <1>1, <1>2, <1>3, <2>1, ClearedFits DEF ITypes
<1>4. ASSUME NEW n \in Created, call' = found(n), UNCHANGED app
      PROVE  /\ CallFits' /\ Kept /\ OnlyAt(c)
             /\ call'[c] \in Requests /\ call'[c].task = "mount" /\ call'[c].at = "findings"
             /\ call'[c].of \in Created /\ call'[c].saw = runs[call'[c].of].at
  <2> DEFINE status == runs[n].at
             w == Found(call[c], n, status)
  <2>1. n \in Created /\ n \in Scans
    BY <1>4 DEF Created
  <2>2. status \in ScanRunState
    BY <2>1 DEF ITypes, TypeOK, Run, Created
  <2>3. call' = [call EXCEPT ![c] = w]
    BY <1>4 DEF Found, ITypes, CallFits
  <2>4. w = Found(call[c], n, status) /\ status = runs[n].at
    OBVIOUS
  <2> HIDE DEF status, w
  <2>5. /\ w \in Requests /\ w.at = "findings" /\ w.of = n /\ w.saw = status /\ w.task = "mount"
        /\ w.effects = 0
    BY <1>1, <1>2, <2>1, <2>2, <2>4, ListedScan
  <2>6. CallFits' /\ call'[c] = w /\ OnlyAt(c)
    BY <2>3, <2>5, Replaced DEF OnlyAt, ITypes
  <2>7. Keeps(call[c], w)
    BY <1>1, <2>5 DEF Keeps, Silent, Asking, Sending
  <2>8. Kept
    BY <2>6, <2>7, KeptSame DEF Kept, OnlyAt, ITypes
  <2> QED
    BY <2>1, <2>4, <2>5, <2>6, <2>8
<1>5. \/ Frees(c) /\ app' = [Cleared(app) EXCEPT !.loading = FALSE]
      \/ \E n \in Created : call' = found(n) /\ UNCHANGED app
  BY DEF ScansListed
<1> HIDE DEF found
<1> QED
  BY <1>1, <1>2, <1>3, <1>4, <1>5 DEF ITypes

(* Loaded findings are those of the call's scan, with the status it captured. *)
LEMMA FindingsLoadedFits ==
    ASSUME ITypes, NEW c \in Slots, FindingsLoaded(c)
    PROVE  /\ call[c] \in Requests /\ call[c].task \in {"triage", "refresh", "mount"}
           /\ call[c].at = "findings"
           /\ AppFits(app') /\ call[c].of \in Scans
           /\ FreedAt(c) \/ (MovedAt(c, "history") /\ call[c].task = "mount")
           /\ app'.scanning = app.scanning /\ app'.cancelling = app.cancelling
           /\ app'.stream = app.stream
           /\ app'.loading = app.loading \/ app'.loading = FALSE
           /\ app'.active = call[c].of /\ app'.from = call[c].of
           /\ app'.activeStatus = IF call[c].task = "triage" THEN call[c].saw.status ELSE call[c].saw
           /\ ShownIds(app') = runs[call[c].of].found
           /\ app'.offers = app.offers /\ app'.target = app.target
<1> DEFINE r == call[c]
           status == IF r.task = "triage" THEN r.saw.status ELSE r.saw
           loaded == Refreshed(app, r.of, r.saw, None, FALSE)
<1>1. r \in Requests /\ r.at = "findings"
  BY AtThere DEF FindingsLoaded, ITypes, Steps
<1>2. r.task \in {"triage", "refresh", "mount"} /\ r.of \in Scans
  BY <1>1 DEF Requests, Stands, About, Asking, Sending
<1>3. status \in ScanRunState \union {None}
  BY <1>1, <1>2 DEF Requests, Stands, About, TriageSaw, Asking, Sending, ScanRunState
<1>4. RunsTyped /\ AppFits(app)
  BY DEF ITypes, TypeOK, RunsTyped
<1>5. CASE r.task = "triage"
  <2>1. app' = Refreshed(app, r.of, status, r.saw.finding, TRUE) /\ Frees(c)
    BY <1>5 DEF FindingsLoaded
  <2> DEFINE preferred == r.saw.finding
             switch == TRUE
  <2>0. app' = Refreshed(app, r.of, status, preferred, switch) /\ switch \in BOOLEAN
    BY <2>1
  <2>2. preferred \in Findings \union {None}
    BY <1>1, <1>5 DEF Requests, About, TriageSaw
  <2>3. FreedAt(c)
    BY <1>1, <2>1, FreesFits DEF FreedAt, ITypes, Sending
  <2> HIDE DEF status, r, preferred, switch
  <2>4. /\ AppFits(app') /\ SameControls(app', app)
        /\ app'.active = r.of /\ app'.activeStatus = status /\ app'.from = r.of
        /\ ShownIds(app') = runs[r.of].found
        /\ app'.offers = app.offers /\ app'.target = app.target
    BY <1>2, <1>3, <1>4, <2>0, <2>2, RefreshedFits
  <2> QED
    BY <1>1, <1>2, <2>3, <2>4 DEF SameControls, status, r
<1>6. CASE r.task # "triage"
  <2> DEFINE scan == r.of
             switch == FALSE
             preferred == None
  <2>1. loaded = Refreshed(app, scan, status, preferred, switch)
    BY <1>6
  <2>2. switch \in BOOLEAN /\ preferred \in Findings \union {None} /\ scan \in Scans
    BY <1>2
  <2>3. scan = r.of
    OBVIOUS
  <2> HIDE DEF status, r, loaded, scan, switch, preferred
  <2>4. /\ AppFits(loaded) /\ SameControls(loaded, app)
        /\ loaded.active = scan /\ loaded.activeStatus = status /\ loaded.from = scan
        /\ ShownIds(loaded) = runs[scan].found
        /\ loaded.offers = app.offers /\ loaded.target = app.target
    BY <1>3, <1>4, <2>1, <2>2, RefreshedFits
  <2>5. /\ AppFits(loaded) /\ SameControls(loaded, app)
        /\ loaded.active = r.of /\ loaded.activeStatus = status /\ loaded.from = r.of
        /\ ShownIds(loaded) = runs[r.of].found
        /\ loaded.offers = app.offers /\ loaded.target = app.target
    BY <2>3, <2>4
  <2>6. CASE app' = loaded /\ Frees(c)
    <3>1. FreedAt(c)
      BY <1>1, <2>6, FreesFits DEF FreedAt, ITypes, Sending, r
    <3> QED
      BY <1>1, <1>2, <2>5, <2>6, <3>1 DEF SameControls, status, r
  <2>7. CASE app' = [loaded EXCEPT !.loading = FALSE] /\ Frees(c)
    <3>1. FreedAt(c)
      BY <1>1, <2>7, FreesFits DEF FreedAt, ITypes, Sending, r
    <3>2. /\ app' \in App /\ app'.loading = FALSE
          /\ app'.scanning = loaded.scanning /\ app'.cancelling = loaded.cancelling
          /\ app'.stream = loaded.stream /\ app'.active = loaded.active /\ app'.from = loaded.from
          /\ app'.activeStatus = loaded.activeStatus /\ app'.status = loaded.status
          /\ app'.selected = loaded.selected
          /\ app'.offers = loaded.offers /\ app'.target = loaded.target
      BY <2>5, <2>7 DEF App, AppFits
    <3>3. ShownIds(app') = ShownIds(loaded) /\ Selected(app')
      BY <2>5, <3>2 DEF ShownIds, Selected, AppFits
    <3> QED
      BY <1>1, <1>2, <2>5, <3>1, <3>2, <3>3 DEF SameControls, status, r, AppFits
  <2>8. CASE app' = loaded /\ Goes(c, "history") /\ r.task = "mount"
    <3>1. Follows(r, "history") /\ "history" \in Steps
      BY <1>1, <2>8 DEF Follows, Steps
    <3>2. MovedAt(c, "history")
      BY <1>1, <2>8, <3>1, GoesFits DEF MovedAt, ITypes, r
    <3> QED
      BY <1>1, <1>2, <2>5, <2>8, <3>2 DEF SameControls, status, r
  <2>9. \/ app' = loaded /\ Frees(c)
        \/ app' = [loaded EXCEPT !.loading = FALSE] /\ Frees(c)
        \/ app' = loaded /\ Goes(c, "history") /\ r.task = "mount"
    <3>1. CASE r.task = "refresh"
      BY <3>1 DEF FindingsLoaded, r, loaded
    <3>2. CASE r.task = "mount"
      BY <3>2 DEF FindingsLoaded, r, loaded
    <3> QED
      BY <1>2, <1>6, <3>1, <3>2 DEF r
  <2> QED
    BY <2>6, <2>7, <2>8, <2>9
<1> QED
  BY <1>5, <1>6

(* The saved results free the first load's call. *)
LEMMA HistoryLoadedFits ==
    ASSUME ITypes, NEW c \in Slots, HistoryLoaded(c)
    PROVE  /\ call[c] \in Requests /\ call[c].task = "mount" /\ call[c].at = "history"
           /\ FreedAt(c) /\ AppFits(app')
<1>1. call[c] \in Requests /\ call[c].at = "history" /\ Frees(c)
  BY AtThere DEF HistoryLoaded, ITypes, Steps
<1>2. call[c].task = "mount"
  BY <1>1 DEF Requests, Stands, Asking, Sending
<1>3. FreedAt(c)
  BY <1>1, FreesFits DEF FreedAt, ITypes, Sending
<1>4. app' \in App /\ app'.selected = app.selected /\ app'.status = app.status /\ app'.active = app.active
  BY DEF HistoryLoaded, ITypes, AppFits, App
<1> QED
  BY <1>1, <1>2, <1>3, <1>4 DEF AppFits, Selected, ITypes

(* A load that fails leaves the shell alone, unless it is the first. *)
LEMMA LoadFailsFits ==
    ASSUME ITypes, NEW c \in Slots, LoadFails(c)
    PROVE  /\ call[c] \in Requests /\ call[c].task \in {"triage", "refresh", "mount"}
           /\ call[c].at \in {"scans", "findings", "history"}
           /\ FreedAt(c) /\ AppFits(app') /\ faults' \in 0..MaxFaults
           /\ app' = IF call[c].task = "mount" THEN [Cleared(app) EXCEPT !.loading = FALSE] ELSE app
<1>1. call[c] \in Requests /\ call[c].at \in {"scans", "findings", "history"} /\ Frees(c)
  BY StandsThere DEF LoadFails, ITypes, Steps
<1>2. call[c].task \in {"triage", "refresh", "mount"}
  BY <1>1 DEF Requests, Stands, Asking, Sending
<1>3. FreedAt(c)
  BY <1>1, FreesFits DEF FreedAt, ITypes, Sending
<1>4. app' = IF call[c].task = "mount" THEN [Cleared(app) EXCEPT !.loading = FALSE] ELSE app
  BY DEF LoadFails
<1>5. AppFits(app')
  BY <1>4, ClearedFits DEF ITypes
<1>6. faults' \in 0..MaxFaults
  BY FaultFits DEF LoadFails, ITypes, TypeOK
<1> QED
  BY <1>1, <1>2, <1>3, <1>4, <1>5, <1>6

(* An answer to the shell frees its call, moves it on, or has the first load *)
(* go from the list of the scans to the findings of one of them.             *)
LEMMA ScanContinuing ==
    ASSUME ITypes, NEW c \in Slots, ScanContinues(c)
    PROVE  /\ call[c] \in Requests
           /\ \/ FreedAt(c)
              \/ /\ \E step \in {"findings", "history"} : MovedAt(c, step)
                 /\ call[c].at \in {"answered", "findings"}
              \/ /\ ScansListed(c) /\ OnlyAt(c)
                 /\ call'[c].task = "mount" /\ call'[c].at = "findings"
                 /\ call'[c].of \in Created /\ call'[c].saw = runs[call'[c].of].at
<1>1. CASE ScanAnswered(c)
  BY <1>1, ScanAnsweredFits
<1>2. CASE StopAnswered(c)
  BY <1>2, StopAnsweredFits
<1>3. CASE TriageAnswered(c)
  BY <1>3, TriageAnsweredFits
<1>4. CASE ScansListed(c)
  BY <1>4, ScansListedFits
<1>5. CASE FindingsLoaded(c)
  BY <1>5, FindingsLoadedFits
<1>6. CASE HistoryLoaded(c)
  BY <1>6, HistoryLoadedFits
<1>7. CASE LoadFails(c)
  BY <1>7, LoadFailsFits
<1> QED
  BY <1>1, <1>2, <1>3, <1>4, <1>5, <1>6, <1>7 DEF ScanContinues

(* The event stream ends with its run, and reads the findings of a success. *)
LEMMA StreamEndsFits ==
    ASSUME ITypes, StreamEnds
    PROVE  /\ CallFits' /\ Kept /\ AppFits(app') /\ app.stream \in Scans
           /\ runs[app.stream].at \in TerminalStates
           /\ \/ /\ UNCHANGED call /\ ~Succeeded(runs[app.stream].at)
                 /\ app'.active = app.stream /\ app'.activeStatus = runs[app.stream].at
              \/ /\ Succeeded(runs[app.stream].at)
                 /\ app'.active = app.active /\ app'.activeStatus = app.activeStatus
                 /\ \E r \in Requests : /\ r.task = "refresh" /\ r.at = "findings" /\ r.of = app.stream
                                        /\ r.saw = "completed" /\ BeganIn(call, r)
           /\ app'.scanning = FALSE /\ app'.cancelling = FALSE /\ app'.loading = FALSE
           /\ app'.stream = NoScan
           /\ app'.from = app.from /\ app'.status = app.status /\ app'.selected = app.selected
           /\ app'.view = app.view /\ app'.offers = app.offers /\ app'.target = app.target
<1> DEFINE s == app.stream
           ended == [app EXCEPT !.scanning = FALSE, !.cancelling = FALSE, !.loading = FALSE,
                                !.stream = NoScan]
<1>1. s \in Scans /\ runs[s].at \in TerminalStates /\ runs[s].at \in ScanRunState
  BY DEF StreamEnds, ITypes, AppFits, App, TerminalStates, ScanRunState
<1>2. /\ ended \in App /\ ended.scanning = FALSE /\ ended.cancelling = FALSE /\ ended.loading = FALSE
      /\ ended.stream = NoScan /\ ended.active = app.active /\ ended.activeStatus = app.activeStatus
      /\ ended.from = app.from /\ ended.status = app.status /\ ended.selected = app.selected
      /\ ended.view = app.view /\ ended.offers = app.offers /\ ended.target = app.target
  BY DEF ITypes, AppFits, App
<1> DEFINE later == [ended EXCEPT !.active = s, !.activeStatus = runs[s].at]
<1>3. /\ \/ /\ Succeeded(runs[s].at) /\ app' = ended
            /\ Begin([Call("refresh", s, "findings") EXCEPT !.saw = "completed"])
         \/ ~Succeeded(runs[s].at) /\ app' = later /\ UNCHANGED call
  BY DEF StreamEnds
<1>4. /\ later \in App /\ later.scanning = FALSE /\ later.cancelling = FALSE /\ later.loading = FALSE
      /\ later.stream = NoScan /\ later.active = s /\ later.activeStatus = runs[s].at
      /\ later.from = app.from /\ later.status = app.status /\ later.selected = app.selected
      /\ later.view = app.view /\ later.offers = app.offers /\ later.target = app.target
  <2> HIDE DEF ended, s
  <2> QED
    BY <1>1, <1>2 DEF App, s
<1> HIDE DEF s, ended, later
<1>5. CASE ~Succeeded(runs[s].at) /\ app' = later /\ UNCHANGED call
  <2>1. Selected(app')
    BY <1>1, <1>4, <1>5, ScansThere DEF Selected, ITypes, AppFits
  <2>2. CallFits' /\ Kept
    BY <1>5, KeptSame DEF ITypes, CallFits, Kept
  <2> QED
    BY <1>1, <1>4, <1>5, <2>1, <2>2 DEF AppFits, s
<1>6. CASE /\ Succeeded(runs[s].at) /\ app' = ended
           /\ Begin([Call("refresh", s, "findings") EXCEPT !.saw = "completed"])
  <2> DEFINE task == "refresh"
             at == "findings"
             v == Call(task, s, at)
             w == [v EXCEPT !.saw = "completed"]
  <2>1. task \in Tasks /\ at \in Steps
    BY DEF Tasks, ShellTasks, Steps
  <2>2. w = [v EXCEPT !.saw = "completed"] /\ Begin(w)
    BY <1>6
  <2>0. s \in Subjects
    BY <1>1 DEF Subjects
  <2>3. Fresh(v, task, s, at)
    BY <2>0, <2>1, Made
  <2> HIDE DEF v, w
  <2>4. "completed" \in ScanRunState
    BY DEF ScanRunState
  <2>5. w \in Shape /\ w.saw = "completed" /\ Same(w, v, {"saw"})
    BY <2>2, <2>3, <2>4, Captured DEF Fresh
  <2>6. w.task = "refresh" /\ w.of = s /\ w.at = "findings" /\ w.effects = 0
    BY <2>3, <2>5 DEF Fresh, Same, Fields
  <2>7. About(w)
    BY <1>1, <2>5, <2>6 DEF About, ListTasks, ManagerTasks, Lookups
  <2>8. w \in Requests
    BY <2>5, <2>6, <2>7, Read
  <2>9. CallFits' /\ BeganIn(call, w) /\ Kept
    BY <2>2, <2>6, <2>8, BeginFits DEF ITypes
  <2>11. Selected(app')
    BY <1>2, <1>6 DEF Selected, ITypes, AppFits
  <2> QED
    BY <1>1, <1>2, <1>6, <2>5, <2>6, <2>8, <2>9, <2>11 DEF AppFits, s
<1> QED
  BY <1>3, <1>5, <1>6
-----------------------------------------------------------------------------
(* What the operator does in the shell. *)

Begun(calls, task, of, saw, steps) ==
    \E w \in Requests :
        /\ BeganIn(calls, w)
        /\ w.task = task /\ w.of = of /\ w.saw = saw /\ w.live = TRUE /\ w.at \in steps

(* A mutation begins in a slot of its own. *)
LEMMA PostFits ==
    ASSUME CallFits, cached \in Held, NEW r \in Shape, r.task \in Posts, About(r), r.live = TRUE, Post(r)
    PROVE  CallFits' /\ Kept /\ Begun(call, r.task, r.of, r.saw, Sending)
<1> DEFINE w == Posted(r)
<1>1. w = Posted(r) /\ Begin(w)
  BY DEF Post
<1> HIDE DEF w
<1>2. w \in Requests /\ w.at \in Sending /\ SameCall(w, r)
  BY <1>1, Asked
<1>3. CallFits' /\ BeganIn(call, w) /\ Kept
  BY <1>1, <1>2, BeginFits DEF Sending
<1> QED
  BY <1>2, <1>3 DEF Begun, SameCall

(* A call of the operator's that captures nothing. *)
LEMMA SimplePost ==
    ASSUME CallFits, cached \in Held, NEW task \in {"scan", "cancel"},
           NEW of \in Scans \union {NoScan}, task = "cancel" => of \in Scans,
           NEW at \in Steps, Post(Call(task, of, at))
    PROVE  CallFits' /\ Kept /\ Begun(call, task, of, None, Sending)
<1> DEFINE r == Call(task, of, at)
<1>1. task \in Tasks /\ of \in Subjects /\ task \in Posts
  BY DEF Tasks, ShellTasks, Subjects, Posts
<1>2. Fresh(r, task, of, at) /\ Post(r)
  BY <1>1, Made
<1> HIDE DEF r
<1>3. r \in Shape /\ r.task = task /\ r.of = of /\ r.saw = None /\ r.live = TRUE
  BY <1>2 DEF Fresh
<1>4. About(r)
  BY <1>3 DEF About, ListTasks, ManagerTasks, Lookups
<1> QED
  BY <1>1, <1>2, <1>3, <1>4, PostFits

(* Run begins one call, of no scan yet. *)
LEMMA StartScanFits ==
    ASSUME ITypes, StartScan
    PROVE  CallFits' /\ Kept /\ Begun(call, "scan", NoScan, None, Sending) /\ AppFits(app')
<1> DEFINE at == "sent"
           task == "scan"
           of == NoScan
<1>1. at \in Steps /\ Post(Call(task, of, at)) /\ task \in {"scan", "cancel"} /\ cached \in Held
      /\ of \in Scans \union {NoScan} /\ (task = "cancel" => of \in Scans) /\ CallFits
  BY DEF StartScan, Steps, Asking, Sending, ITypes, TypeOK
<1> HIDE DEF at, task, of
<1>2. CallFits' /\ Kept /\ Begun(call, task, of, None, Sending)
  BY <1>1, SimplePost
<1>3. NothingShown \in [Findings -> FindingStatus \union {None}]
  BY DEF NothingShown
<1>4. app' \in App /\ app'.selected = None /\ app'.status = NothingShown
  BY <1>3 DEF StartScan, ITypes, AppFits, App
<1> QED
  BY <1>2, <1>4 DEF AppFits, Selected, NothingShown, task, of

(* Stop begins one call, of the active scan. *)
LEMMA StopScanFits ==
    ASSUME ITypes, StopScan
    PROVE  CallFits' /\ Kept /\ Begun(call, "cancel", app.active, None, Sending) /\ AppFits(app')
<1> DEFINE at == "sent"
           task == "cancel"
           of == app.active
<1>1. at \in Steps /\ Post(Call(task, of, at)) /\ task \in {"scan", "cancel"} /\ cached \in Held
      /\ of \in Scans \union {NoScan} /\ (task = "cancel" => of \in Scans) /\ CallFits
  BY DEF StopScan, Steps, Asking, Sending, ITypes, TypeOK, App
<1> HIDE DEF at, task, of
<1>2. CallFits' /\ Kept /\ Begun(call, task, of, None, Sending)
  BY <1>1, SimplePost
<1>3. app' \in App /\ app'.selected = app.selected /\ app'.status = app.status /\ app'.active = app.active
  BY DEF StopScan, ITypes, AppFits, App
<1> QED
  BY <1>2, <1>3 DEF AppFits, Selected, ITypes, task, of

(* What is done without a call. *)
LEMMA LooksFits ==
    ASSUME ITypes,
           \/ \E v \in Views : Navigate(v)
           \/ \E t \in TargetIds : ChooseTarget(t)
           \/ \E f \in Findings : SelectFinding(f)
    PROVE  /\ UNCHANGED <<clientVars, runs, reviews>> /\ AppFits(app') /\ SameControls(app', app)
           /\ SameShown(app', app)
<1>1. CASE \E v \in Views : Navigate(v)
  <2>1. PICK v \in Views : Navigate(v)
    BY <1>1
  <2>2. /\ app' \in App /\ SameControls(app', app) /\ SameShown(app', app)
        /\ app'.selected = app.selected
    BY <2>1 DEF Navigate, ITypes, AppFits, App, SameControls, SameShown
  <2> QED
    BY <2>1, <2>2 DEF Navigate, AppFits, Selected, ITypes, SameShown
<1>2. CASE \E t \in TargetIds : ChooseTarget(t)
  <2>1. PICK t \in TargetIds : ChooseTarget(t)
    BY <1>2
  <2>2. /\ app' \in App /\ SameControls(app', app) /\ SameShown(app', app)
        /\ app'.selected = app.selected
    BY <2>1 DEF ChooseTarget, ITypes, AppFits, App, SameControls, SameShown
  <2> QED
    BY <2>1, <2>2 DEF ChooseTarget, AppFits, Selected, ITypes, SameShown
<1>3. CASE \E f \in Findings : SelectFinding(f)
  <2>1. PICK f \in Findings : SelectFinding(f)
    BY <1>3
  <2>2. /\ app' \in App /\ SameControls(app', app) /\ SameShown(app', app)
        /\ app'.selected = f /\ app.status[f] # None
    BY <2>1 DEF ShownIds, SelectFinding, ITypes, AppFits, App, SameControls, SameShown
  <2> QED
    BY <2>1, <2>2 DEF SelectFinding, AppFits, Selected, ITypes, SameShown
<1> QED
  BY <1>1, <1>2, <1>3
-----------------------------------------------------------------------------
(* The panels. *)

(* While the workspace is shown there are a finding, its status and a scan. *)
LEMMA MountedTyped ==
    ASSUME AppFits(app), Mounted, RunsTyped
    PROVE  /\ app.selected \in Findings /\ app.status[app.selected] \in FindingStatus
           /\ app.active \in Scans /\ Key \in Keys /\ Explained \in Findings \X FindingStatus
           /\ app.status[app.selected] # None
BY DEF AppFits, App, Selected, Mounted, Key, Keys, Explained

(* What a panel asks about. *)
Fitting(task, of) ==
    \/ task \in Lookups \union {"chat"} /\ of \in Findings
    \/ task \in {"evidence", "artifact"} /\ of \in Keys

Reading(r, task, of) ==
    /\ r \in Requests /\ r.task = task /\ r.of = of /\ r.saw = None /\ r.live = TRUE
    /\ r.at = "read"

(* A panel's read is a request that is waited for. *)
LEMMA ReadRequest ==
    ASSUME NEW task \in PanelTasks, NEW of, Fitting(task, of), NEW r, r = Call(task, of, "read")
    PROVE  Reading(r, task, of)
<1>1. task \in Tasks /\ of \in Subjects
  BY DEF Tasks, Subjects, Fitting
<1> DEFINE at == "read"
<1>2. r = Call(task, of, at) /\ at \in Steps
  BY DEF Steps
<1>3. Fresh(r, task, of, at)
  BY <1>1, <1>2, Made
<1>4. About(r)
  BY <1>3 DEF Fresh, Fitting, About, PanelTasks, Lookups, ListTasks, ManagerTasks
<1>5. r \in Requests
  BY <1>3, <1>4, Read DEF Fresh
<1> QED
  BY <1>3, <1>5 DEF Fresh, Reading

(* A panel that reads again drops its reads and begins one. *)
LEMMA ReadRestarts ==
    ASSUME CallFits, NEW task \in PanelTasks, NEW of, Fitting(task, of), NEW tasks,
           Restart(tasks, Call(task, of, "read"))
    PROVE  /\ CallFits' /\ Kept
           /\ \E calls : Dropped(calls, tasks) /\ Begun(calls, task, of, None, {"read"})
<1> DEFINE r == Call(task, of, "read")
<1>1. r = Call(task, of, "read") /\ Restart(tasks, r)
  OBVIOUS
<1> HIDE DEF r
<1>2. Reading(r, task, of)
  BY <1>1, ReadRequest
<1>3. CallFits' /\ Kept /\ \E calls : Dropped(calls, tasks) /\ BeganIn(calls, r)
  BY <1>1, <1>2, RestartFits DEF Reading, Asking, Sending
<1> QED
  BY <1>2, <1>3 DEF Begun, Reading

(* A panel that reads begins one read. *)
LEMMA ReadBegins ==
    ASSUME CallFits, NEW task \in PanelTasks, NEW of, Fitting(task, of),
           Begin(Call(task, of, "read"))
    PROVE  CallFits' /\ Kept /\ Begun(call, task, of, None, {"read"})
<1> DEFINE r == Call(task, of, "read")
<1>1. r = Call(task, of, "read") /\ Begin(r)
  OBVIOUS
<1> HIDE DEF r
<1>2. Reading(r, task, of)
  BY <1>1, ReadRequest
<1>3. CallFits' /\ Kept /\ BeganIn(call, r)
  BY <1>1, <1>2, BeginFits DEF Reading
<1> QED
  BY <1>2, <1>3 DEF Begun, Reading

(* A panel that closes drops its reads. *)
LEMMA UnwantedDrops ==
    ASSUME CallFits, NEW tasks, call' = Unwanted(tasks)
    PROVE  CallFits' /\ Kept /\ Dropped(call', tasks)
<1>1. /\ call' \in [Slots -> {Idle} \union Requests] /\ Dropped(call', tasks)
      /\ \A c \in Slots : Keeps(call[c], call'[c])
  BY DroppedFits DEF Unwanted
<1> QED
  BY <1>1 DEF CallFits, Kept

Ran == [explain : {None} \union (Findings \X FindingStatus), cve : Findings \union {None},
        chat : Findings \union {None}, evidence : Keys \union {None}]
Told == [Lookups -> Findings \union {None}]

(* The fields of the panels' state, written out. *)
LEMMA PanelsAre ==
    Panels = [mounted : BOOLEAN, tab : {"intel", "chat"}, ran : Ran, told : Told,
              pending : NeedsReason \union {None}, reason : {None} \union Reason,
              open : BOOLEAN, requested : BOOLEAN, entry : Keys \union {None},
              artifact : Keys \union {None}, chatting : BOOLEAN,
              asked : Findings \union {None}, answered : Findings \union {None}]
BY DEF Panels, Ran, Told, Reason

(* What the panels write to these two fields stays within their types. *)
LEMMA RanAndTold ==
    ASSUME panels \in Panels
    PROVE  /\ panels.ran \in Ran /\ panels.told \in Told
           /\ \A e \in {None} \union (Findings \X FindingStatus) :
                 [panels.ran EXCEPT !.explain = e] \in Ran
           /\ \A f \in Findings \union {None} : [panels.ran EXCEPT !.cve = f] \in Ran
           /\ \A f \in Findings \union {None} : [panels.ran EXCEPT !.chat = f] \in Ran
           /\ [panels.ran EXCEPT !.cve = None, !.chat = None] \in Ran
           /\ \A k \in Keys \union {None} : [panels.ran EXCEPT !.evidence = k] \in Ran
           /\ \A l \in Lookups, f \in Findings \union {None} :
                 [panels.told EXCEPT ![l] = f] \in Told
<1>1. panels.ran \in Ran /\ panels.told \in Told
  BY PanelsAre
<1>2. \A e \in {None} \union (Findings \X FindingStatus) : [panels.ran EXCEPT !.explain = e] \in Ran
  BY <1>1 DEF Ran
<1>3. \A f \in Findings \union {None} : [panels.ran EXCEPT !.cve = f] \in Ran
  BY <1>1 DEF Ran
<1>4. \A f \in Findings \union {None} : [panels.ran EXCEPT !.chat = f] \in Ran
  BY <1>1 DEF Ran
<1>5. [panels.ran EXCEPT !.cve = None, !.chat = None] \in Ran
  BY <1>1 DEF Ran
<1>6. \A k \in Keys \union {None} : [panels.ran EXCEPT !.evidence = k] \in Ran
  BY <1>1 DEF Ran
<1>7. \A l \in Lookups, f \in Findings \union {None} : [panels.told EXCEPT ![l] = f] \in Told
  BY <1>1 DEF Told
<1> QED
  BY <1>1, <1>2, <1>3, <1>4, <1>5, <1>6, <1>7

(* Leaving the workspace drops every read of its panels. *)
LEMMA UnmountFits ==
    ASSUME ITypes, Unmount
    PROVE  panels' \in Panels /\ CallFits' /\ Kept /\ Dropped(call', PanelTasks)
<1>1. NewPanels \in Panels
  BY DEF NewPanels, Panels
<1> QED
  BY <1>1, UnwantedDrops DEF Unmount, ITypes

(* The explanation's effect reads for the finding shown. *)
LEMMA ExplainEffectFits ==
    ASSUME ITypes, ExplainEffect
    PROVE  /\ panels' \in Panels /\ CallFits' /\ Kept
           /\ \E calls : /\ Dropped(calls, {"explain"})
                         /\ Begun(calls, "explain", app.selected, None, {"read"})
<1>1. app.selected \in Findings /\ Explained \in Findings \X FindingStatus
  BY MountedTyped DEF ExplainEffect, ExplainDue, ITypes, TypeOK, RunsTyped
<1>2. panels' \in Panels
  <2>1. /\ panels \in Panels /\ [panels.ran EXCEPT !.explain = Explained] \in Ran
        /\ [panels.told EXCEPT !["explain"] = None] \in Told
    BY <1>1, RanAndTold DEF ITypes, TypeOK, Lookups
  <2>2. panels' = [panels EXCEPT !.mounted = TRUE,
                                 !.ran = [panels.ran EXCEPT !.explain = Explained],
                                 !.told = [panels.told EXCEPT !["explain"] = None]]
    BY <2>1, PanelsAre DEF ExplainEffect
  <2> QED
    BY <2>1, <2>2, PanelsAre
<1>3. Fitting("explain", app.selected) /\ "explain" \in PanelTasks
  BY <1>1 DEF Fitting, Lookups, PanelTasks
<1> QED
  BY <1>2, <1>3, ReadRestarts DEF ExplainEffect, ITypes

(* So does that of the CVE lookup. *)
LEMMA CveEffectFits ==
    ASSUME ITypes, CveEffect
    PROVE  /\ panels' \in Panels /\ CallFits' /\ Kept
           /\ \E calls : /\ Dropped(calls, {"cve"})
                         /\ Begun(calls, "cve", app.selected, None, {"read"})
<1>1. app.selected \in Findings
  BY MountedTyped DEF CveEffect, CveDue, ITypes, TypeOK, RunsTyped
<1>2. panels' \in Panels
  <2>1. /\ panels \in Panels /\ [panels.ran EXCEPT !.cve = app.selected] \in Ran
        /\ [panels.told EXCEPT !["cve"] = None] \in Told
    BY <1>1, RanAndTold DEF ITypes, TypeOK, Lookups
  <2>2. panels' = [panels EXCEPT !.ran = [panels.ran EXCEPT !.cve = app.selected],
                                 !.told = [panels.told EXCEPT !["cve"] = None]]
    BY <2>1, PanelsAre DEF CveEffect
  <2> QED
    BY <2>1, <2>2, PanelsAre
<1>3. Fitting("cve", app.selected) /\ "cve" \in PanelTasks
  BY <1>1 DEF Fitting, Lookups, PanelTasks
<1> QED
  BY <1>2, <1>3, ReadRestarts DEF CveEffect, ITypes

(* The chat's effect begins no call. *)
LEMMA ChatEffectFits ==
    ASSUME ITypes, ChatEffect
    PROVE  panels' \in Panels /\ UNCHANGED call
<1>1. app.selected \in Findings
  BY MountedTyped DEF ChatEffect, ChatDue, ITypes, TypeOK, RunsTyped
<1>2. panels \in Panels /\ [panels.ran EXCEPT !.chat = app.selected] \in Ran
  BY <1>1, RanAndTold DEF ITypes, TypeOK
<1>3. panels' = [panels EXCEPT !.ran = [panels.ran EXCEPT !.chat = app.selected],
                               !.asked = None, !.answered = None]
  BY <1>2, PanelsAre DEF ChatEffect
<1> QED
  BY <1>2, <1>3, PanelsAre DEF ChatEffect

(* The evidence's effect reads for the finding shown, if the panel is open. *)
LEMMA EvidenceEffectFits ==
    ASSUME ITypes, EvidenceEffect
    PROVE  /\ panels' \in Panels /\ CallFits' /\ Kept
           /\ \/ \E calls : Dropped(calls, {"evidence"}) /\ Begun(calls, "evidence", Key, None, {"read"})
              \/ Dropped(call', {"evidence"})
<1>1. Key \in Keys
  BY MountedTyped DEF EvidenceEffect, EvidenceDue, ITypes, TypeOK, RunsTyped
<1>2. panels' \in Panels
  <2>1. panels \in Panels /\ [panels.ran EXCEPT !.evidence = Key] \in Ran /\ panels.open \in BOOLEAN
    BY <1>1, RanAndTold, PanelsAre DEF ITypes, TypeOK
  <2>2. panels' = [panels EXCEPT !.mounted = TRUE, !.ran = [panels.ran EXCEPT !.evidence = Key],
                                 !.entry = None, !.artifact = None, !.requested = panels.open]
    BY <2>1, PanelsAre DEF EvidenceEffect
  <2> QED
    BY <2>1, <2>2, PanelsAre
<1>3. Fitting("evidence", Key) /\ "evidence" \in PanelTasks
  BY <1>1 DEF Fitting, PanelTasks
<1>4. CASE Restart({"evidence"}, Call("evidence", Key, "read"))
  BY <1>2, <1>3, <1>4, ReadRestarts DEF ITypes
<1>5. CASE call' = Unwanted({"evidence"})
  BY <1>2, <1>5, UnwantedDrops DEF ITypes
<1> QED
  BY <1>4, <1>5 DEF EvidenceEffect

(* A decision is sent with what the workspace shows at that moment. *)
LEMMA PatchedFits ==
    ASSUME ITypes, NEW status \in FindingStatus, NEW reason \in Reason \union {None},
           Patched(status, reason)
    PROVE  /\ CallFits' /\ Kept /\ UNCHANGED <<app, runs, reviews, cached, permitted, faults>>
           /\ app.selected \in Findings /\ app.active \in Scans
           /\ Begun(call, "triage", app.active,
                    [finding |-> app.selected, from |-> app.from, patch |-> status,
                     reason |-> reason, status |-> app.activeStatus], Sending)
<1> DEFINE saw == [finding |-> app.selected, from |-> app.from, patch |-> status,
                   reason |-> reason, status |-> app.activeStatus]
           task == "triage"
           at == "sent"
           v == Call(task, app.active, at)
           r == [v EXCEPT !.saw = saw]
<1>1. app.selected \in Findings /\ app.active \in Scans /\ app.from \in Scans \union {NoScan}
      /\ app.activeStatus \in ScanRunState \union {None}
  BY DEF Patched, ITypes, AppFits, App
<1>2. saw \in TriageSaw
  BY <1>1 DEF TriageSaw
<1>3. task \in Tasks /\ app.active \in Subjects /\ at \in Steps /\ task \in Posts
  BY <1>1 DEF Tasks, ShellTasks, Subjects, Steps, Asking, Sending, Posts
<1>4. Post(r) /\ r = [v EXCEPT !.saw = saw]
  BY DEF Patched
<1>5. Fresh(v, task, app.active, at)
  BY <1>3, Made
<1> HIDE DEF v, r, saw, at
<1>6. v \in Shape
  BY <1>5 DEF Fresh
<1>7. r \in Shape /\ r.saw = saw /\ Same(r, v, {"saw"})
  BY <1>2, <1>4, <1>6, Captured
<1>8. r.task = task /\ r.of = app.active /\ r.live = TRUE
  BY <1>5, <1>7 DEF Fresh, Same, Fields
<1>9. About(r)
  BY <1>1, <1>2, <1>7, <1>8 DEF About, ListTasks, ManagerTasks, Lookups
<1>10. CallFits' /\ Kept /\ Begun(call, task, app.active, saw, Sending)
  <2> HIDE DEF task
  <2>1. CallFits' /\ Kept /\ Begun(call, r.task, r.of, r.saw, Sending)
    BY <1>3, <1>4, <1>7, <1>8, <1>9, PostFits DEF ITypes, TypeOK
  <2> QED
    BY <1>7, <1>8, <2>1
<1>11. UNCHANGED <<app, runs, reviews, cached, permitted, faults>>
  BY DEF Patched
<1>12. saw = [finding |-> app.selected, from |-> app.from, patch |-> status,
              reason |-> reason, status |-> app.activeStatus]
  BY DEF saw
<1> QED
  BY <1>1, <1>10, <1>11, <1>12

(* A step that leaves the tokens alone keeps the client's types. *)
LEMMA StillTyped ==
    ASSUME ITypes, UNCHANGED <<cached, permitted>>, Fault \/ UNCHANGED faults
    PROVE  ClientFits
BY FaultFits DEF ITypes, TypeOK, ClientFits

(* Calls that stay as they are keep their types and their promises. *)
LEMMA CallsStay == ASSUME ITypes, UNCHANGED call PROVE CallFits' /\ Kept
BY KeptSame DEF ITypes, CallFits, Kept

(* Typing a reason and giving it up change the form alone. *)
LEMMA ReasonActsFit ==
    ASSUME ITypes, TypeReason \/ CancelReason
    PROVE  panels' \in Panels /\ UNCHANGED <<scanVars, clientVars>>
<1>0. panels \in Panels
  BY DEF ITypes, TypeOK
<1>1. CASE TypeReason
  <2> DEFINE typed == [finding |-> app.selected, status |-> panels.pending]
  <2>1. app.selected \in Findings /\ panels.pending \in NeedsReason
    BY <1>0, <1>1, MountedTyped, PanelsAre DEF TypeReason, ITypes, TypeOK, RunsTyped
  <2>2. typed \in Reason
    BY <2>1 DEF Reason
  <2>3. panels' = [panels EXCEPT !.reason = typed]
    BY <1>1 DEF TypeReason
  <2> HIDE DEF typed
  <2> QED
    BY <1>0, <1>1, <2>2, <2>3, PanelsAre DEF TypeReason
<1>2. CASE CancelReason
  BY <1>0, <1>2, PanelsAre DEF CancelReason
<1> QED
  BY <1>1, <1>2

(* A status that needs a reason opens the form, any other is sent at once. *)
LEMMA PickStatusFits ==
    ASSUME ITypes, NEW s \in FindingStatus, PickStatus(s)
    PROVE  /\ panels' \in Panels
           /\ \/ /\ s \in NeedsReason /\ UNCHANGED <<scanVars, clientVars>>
                 /\ panels' = [panels EXCEPT !.pending = s, !.reason = None]
              \/ s \notin NeedsReason /\ UNCHANGED panels /\ Patched(s, None)
<1>0. panels \in Panels
  BY DEF ITypes, TypeOK
<1>1. CASE /\ s \in NeedsReason /\ UNCHANGED <<scanVars, clientVars>>
           /\ panels' = [panels EXCEPT !.pending = s, !.reason = None]
  <2>1. panels' \in Panels
    BY <1>0, <1>1, PanelsAre
  <2> QED
    BY <1>1, <2>1
<1>2. CASE s \notin NeedsReason /\ UNCHANGED panels /\ Patched(s, None)
  BY <1>0, <1>2
<1> QED
  BY <1>1, <1>2 DEF PickStatus

(* The form is sent with the status it was opened for. *)
LEMMA ConfirmReasonFits ==
    ASSUME ITypes, ConfirmReason
    PROVE  /\ panels' \in Panels /\ Patched(panels.pending, panels.reason)
           /\ panels.pending \in NeedsReason /\ panels.reason \in Reason
           /\ panels.pending \in FindingStatus
<1>0. panels \in Panels
  BY DEF ITypes, TypeOK
<1>1. panels.pending \in NeedsReason /\ panels.reason \in Reason
  BY <1>0, PanelsAre DEF ConfirmReason
<1> QED
  BY <1>0, <1>1, PanelsAre DEF ConfirmReason, NeedsReason, FindingStatus

(* Opening the evidence reads it, closing drops the read. *)
LEMMA ToggleEvidenceFits ==
    ASSUME ITypes, ToggleEvidence
    PROVE  /\ panels' \in Panels /\ CallFits' /\ Kept
           /\ \/ Begun(call, "evidence", Key, None, {"read"})
              \/ Dropped(call', {"evidence"})
<1>0. panels \in Panels
  BY DEF ITypes, TypeOK
<1>1. Fitting("evidence", Key) /\ "evidence" \in PanelTasks
  BY MountedTyped DEF ToggleEvidence, ITypes, TypeOK, RunsTyped, Fitting, PanelTasks
<1>2. CASE /\ panels' = [panels EXCEPT !.open = TRUE, !.requested = TRUE]
           /\ Begin(Call("evidence", Key, "read"))
  <2>1. panels' \in Panels
    BY <1>0, <1>2, PanelsAre
  <2> QED
    BY <1>1, <1>2, <2>1, ReadBegins DEF ITypes
<1>3. CASE panels' = [panels EXCEPT !.open = ~@] /\ call' = Unwanted({"evidence"})
  <2> DEFINE open == ~panels.open
  <2>1. open \in BOOLEAN /\ panels' = [panels EXCEPT !.open = open]
    BY <1>0, <1>3, PanelsAre
  <2> HIDE DEF open
  <2>2. panels' \in Panels
    BY <1>0, <2>1, PanelsAre
  <2> QED
    BY <1>3, <2>2, UnwantedDrops DEF ITypes
<1> QED
  BY <1>2, <1>3 DEF ToggleEvidence

(* Opening the artifact reads it, closing forgets it. *)
LEMMA OpenArtifactFits ==
    ASSUME ITypes, OpenArtifact
    PROVE  /\ panels' \in Panels /\ CallFits' /\ Kept
           /\ \/ Begun(call, "artifact", Key, None, {"read"}) /\ UNCHANGED panels
              \/ UNCHANGED call /\ panels' = [panels EXCEPT !.artifact = None]
<1>0. panels \in Panels
  BY DEF ITypes, TypeOK
<1>1. Fitting("artifact", Key) /\ "artifact" \in PanelTasks
  BY MountedTyped DEF OpenArtifact, ArtifactsListed, ITypes, TypeOK, RunsTyped, Fitting, PanelTasks
<1>2. CASE Begin(Call("artifact", Key, "read")) /\ UNCHANGED panels
  BY <1>0, <1>1, <1>2, ReadBegins DEF ITypes
<1>3. CASE panels' = [panels EXCEPT !.artifact = None] /\ UNCHANGED call
  BY <1>0, <1>3, PanelsAre, CallsStay
<1> QED
  BY <1>2, <1>3 DEF OpenArtifact

(* Changing the tab drops the reads of the tab that is left. *)
LEMMA ShowTabFits ==
    ASSUME ITypes, NEW tab \in {"intel", "chat"}, ShowTab(tab)
    PROVE  panels' \in Panels /\ CallFits' /\ Kept /\ Dropped(call', {"cve", "chat"})
<1>1. /\ panels \in Panels /\ [panels.ran EXCEPT !.cve = None, !.chat = None] \in Ran
      /\ [panels.told EXCEPT !["cve"] = None] \in Told
  BY RanAndTold DEF ITypes, TypeOK, Lookups
<1>2. panels' = [panels EXCEPT !.tab = tab, !.ran = [panels.ran EXCEPT !.cve = None, !.chat = None],
                               !.told = [panels.told EXCEPT !["cve"] = None],
                               !.chatting = FALSE, !.asked = None, !.answered = None]
  BY <1>1, PanelsAre DEF ShowTab
<1> DEFINE ran == [panels.ran EXCEPT !.cve = None, !.chat = None]
           told == [panels.told EXCEPT !["cve"] = None]
           shown == [panels EXCEPT !.tab = tab, !.ran = ran, !.told = told]
<1>3. ran \in Ran /\ told \in Told /\ panels \in Panels
  BY <1>1
<1> HIDE DEF ran, told
<1>4. shown \in Panels
  BY <1>3, PanelsAre
<1>5. panels' = [shown EXCEPT !.chatting = FALSE, !.asked = None, !.answered = None]
  BY <1>2 DEF ran, told
<1> HIDE DEF shown
<1>6. panels' \in Panels
  BY <1>4, <1>5, PanelsAre
<1> QED
  BY <1>6, UnwantedDrops DEF ShowTab, ITypes

(* A question begins one read, about the finding shown. *)
LEMMA AskFits ==
    ASSUME ITypes, Ask
    PROVE  panels' \in Panels /\ CallFits' /\ Kept /\ Begun(call, "chat", app.selected, None, {"read"})
<1>0. panels \in Panels /\ app.selected \in Findings
  BY MountedTyped DEF Ask, MayAsk, ITypes, TypeOK, RunsTyped
<1>1. Fitting("chat", app.selected) /\ "chat" \in PanelTasks
  BY <1>0 DEF Fitting, PanelTasks
<1>2. panels' \in Panels
  BY <1>0, PanelsAre DEF Ask
<1> QED
  BY <1>1, <1>2, ReadBegins DEF Ask, ITypes

(* An answer is shown if it is waited for, and in its own panel alone. *)
LEMMA LookupAnsweredFits ==
    ASSUME ITypes, NEW c \in Slots, LookupAnswered(c)
    PROVE  /\ panels' \in Panels /\ FreedAt(c) /\ ClientFits
           /\ call[c] \in Requests /\ call[c].task \in Lookups \union {"evidence", "artifact"}
           /\ call[c].at = "read"
           /\ \/ UNCHANGED panels
              \/ /\ call[c].live /\ call[c].task \in Lookups
                 /\ panels' = [panels EXCEPT !.told = [panels.told EXCEPT ![call[c].task] = call[c].of]]
              \/ /\ call[c].live /\ call[c].task = "evidence"
                 /\ panels' = [panels EXCEPT !.entry = call[c].of]
              \/ /\ call[c].live /\ call[c].task = "artifact"
                 /\ panels' = [panels EXCEPT !.artifact = call[c].of]
<1>0. panels \in Panels
  BY DEF ITypes, TypeOK
<1>1. call[c] \in Requests /\ call[c].at = "read" /\ call[c].task \in Lookups \union {"evidence", "artifact"}
  BY AtThere DEF LookupAnswered, ITypes, Steps
<1>2. FreedAt(c)
  BY <1>1, FreesFits DEF LookupAnswered, FreedAt, ITypes, Sending
<1>3. ClientFits
  BY StillTyped DEF LookupAnswered
<1>4. \/ UNCHANGED panels
      \/ /\ call[c].live /\ call[c].task \in Lookups
         /\ panels' = [panels EXCEPT !.told = [panels.told EXCEPT ![call[c].task] = call[c].of]]
      \/ call[c].live /\ call[c].task = "evidence" /\ panels' = [panels EXCEPT !.entry = call[c].of]
      \/ call[c].live /\ call[c].task = "artifact" /\ panels' = [panels EXCEPT !.artifact = call[c].of]
  <2>1. PICK ok \in BOOLEAN :
           panels' = IF ~(ok /\ Wanted(c)) THEN panels
                     ELSE CASE call[c].task \in Lookups ->
                             [panels EXCEPT !.told[call[c].task] = call[c].of]
                      [] call[c].task = "evidence" -> [panels EXCEPT !.entry = call[c].of]
                      [] OTHER -> [panels EXCEPT !.artifact = call[c].of]
    BY DEF LookupAnswered
  <2>2. call[c].task = "artifact" => call[c].task \notin Lookups
    BY DEF Lookups
  <2>3. call[c].task = "evidence" => call[c].task \notin Lookups
    BY DEF Lookups
  <2>4. CASE ~(ok /\ Wanted(c))
    BY <2>1, <2>4
  <2>5. CASE ok /\ Wanted(c) /\ call[c].task \in Lookups
    <3>1. panels' = [panels EXCEPT !.told[call[c].task] = call[c].of]
      BY <2>1, <2>2, <2>3, <2>5
    <3>2. call[c].live
      BY <2>5 DEF Wanted
    <3> QED
      BY <2>5, <3>1, <3>2
  <2>6. CASE ok /\ Wanted(c) /\ call[c].task = "evidence"
    BY <2>1, <2>3, <2>6 DEF Wanted
  <2>7. CASE ok /\ Wanted(c) /\ call[c].task = "artifact"
    BY <2>1, <2>2, <2>7 DEF Wanted
  <2> QED
    BY <1>1, <2>4, <2>5, <2>6, <2>7
<1>5. panels' \in Panels
  <2>1. CASE call[c].task \in Lookups
    <3>1. call[c].of \in Findings
      BY <1>1, <2>1 DEF Requests, About
    <3>2. [panels.told EXCEPT ![call[c].task] = call[c].of] \in Told
      BY <1>0, <2>1, <3>1, RanAndTold
    <3>3. \/ UNCHANGED panels
          \/ panels' = [panels EXCEPT !.told = [panels.told EXCEPT ![call[c].task] = call[c].of]]
      BY <1>4, <2>1 DEF Lookups
    <3> QED
      BY <1>0, <3>2, <3>3, PanelsAre
  <2>2. CASE call[c].task \in {"evidence", "artifact"}
    <3>1. call[c].of \in Keys
      BY <1>1, <2>2 DEF Requests, About
    <3> HIDE DEF Keys
    <3>2. \/ UNCHANGED panels \/ panels' = [panels EXCEPT !.entry = call[c].of]
          \/ panels' = [panels EXCEPT !.artifact = call[c].of]
      BY <1>4, <2>2 DEF Lookups
    <3> QED
      BY <1>0, <3>1, <3>2, PanelsAre
  <2> QED
    BY <1>1, <2>1, <2>2
<1> QED
  BY <1>1, <1>2, <1>3, <1>4, <1>5

(* The chat's answer frees its call. *)
LEMMA ChatAnsweredFits ==
    ASSUME ITypes, NEW c \in Slots, ChatAnswered(c)
    PROVE  /\ panels' \in Panels /\ FreedAt(c)
           /\ call[c] \in Requests /\ call[c].task = "chat" /\ call[c].of \in Findings
           /\ call[c].at = "read"
<1>0. panels \in Panels
  BY DEF ITypes, TypeOK
<1>1. call[c] \in Requests /\ call[c].at = "read" /\ call[c].task = "chat"
  BY AtThere DEF ChatAnswered, ITypes, Steps
<1>2. FreedAt(c)
  BY <1>1, FreesFits DEF ChatAnswered, FreedAt, ITypes, Sending
<1>3. call[c].of \in Findings
  BY <1>1 DEF Requests, About
<1> DEFINE last == IF panels.asked # None THEN call[c].of ELSE panels.answered
<1>4. last \in Findings \union {None}
  BY <1>0, <1>3, PanelsAre
<1>5. panels' = IF ~call[c].live THEN panels
                ELSE [panels EXCEPT !.chatting = FALSE, !.asked = None, !.answered = last]
  BY <1>0, PanelsAre DEF ChatAnswered
<1> HIDE DEF last
<1> DEFINE told == [panels EXCEPT !.chatting = FALSE, !.asked = None]
<1>6. told \in Panels
  BY <1>0, PanelsAre
<1>7. panels' = IF ~call[c].live THEN panels ELSE [told EXCEPT !.answered = last]
  BY <1>5
<1> HIDE DEF told
<1>8. [told EXCEPT !.answered = last] \in Panels
  BY <1>4, <1>6, PanelsAre
<1>9. panels' \in Panels
  BY <1>0, <1>7, <1>8
<1> QED
  BY <1>1, <1>2, <1>3, <1>9
-----------------------------------------------------------------------------
(* The Targets view. *)

(* Every form of a URL that a target has is a URL. *)
LEMMA UrlsThere ==
    /\ Scaffold \in Urls
    /\ \A t \in TargetIds : Typed(t) \in Urls /\ Published(t) \in Urls
    /\ None \notin TargetIds /\ None \notin Docker /\ Docker \subseteq TargetIds
    /\ NewId \in TargetIds
BY TargetsAssumption, ScanAssumption DEF Scaffold, Typed, Published

(* A step of the view may show a target's published URL for its stored one. *)
Shown(m, state) ==
    /\ m \in Manager
    /\ m.mounted = state.mounted /\ m.saving = state.saving /\ m.testing = state.testing
    /\ m.scanning = state.scanning /\ m.stream = state.stream /\ m.agents = state.agents
    /\ m.listed = state.listed /\ m.selected = state.selected /\ m.draftId = state.draftId
    /\ \/ m.draft = state.draft
       \/ /\ DockerUrl(state) \notin {None, DockerUrl(manager)}
          /\ m.agents /\ m.draftId \in Docker /\ m.draft = Published(m.draftId)

(* The lock of a Docker target changes its URL alone. *)
LEMMA LockedFits ==
    ASSUME NEW state \in Manager
    PROVE  Shown(Locked(state), state)
<1>1. CASE DockerUrl(state) \in {None, DockerUrl(manager)}
  BY <1>1 DEF Locked, Shown
<1>2. CASE DockerUrl(state) \notin {None, DockerUrl(manager)}
  <2>1. state.agents /\ state.draftId \in Docker /\ DockerUrl(state) = Published(state.draftId)
    BY <1>2 DEF DockerUrl
  <2>2. DockerUrl(state) \in Urls
    BY <2>1, UrlsThere
  <2>3. Locked(state) = [state EXCEPT !.draft = DockerUrl(state)]
    BY <1>2 DEF Locked
  <2> DEFINE url == DockerUrl(state)
  <2> HIDE DEF url
  <2>4. [state EXCEPT !.draft = url] \in Manager
    BY <2>2 DEF Manager, url
  <2> QED
    BY <1>2, <2>1, <2>3, <2>4 DEF Shown, Manager, url
<1> QED
  BY <1>1, <1>2

(* What a locked form shows is a URL. *)
LEMMA LockedUrlFits ==
    ASSUME manager \in Manager
    PROVE  LockedUrl(manager) \in Urls
BY UrlsThere DEF LockedUrl, DockerUrl, Manager

(* What the view shows differs from the state that was set by the lock alone. *)
LEMMA ShowsFits ==
    ASSUME NEW state \in Manager, Shows(state)
    PROVE  Shown(manager', state)
BY LockedFits DEF Shows

(* A call of a view that is gone sets nothing. *)
LEMMA ShowsIfFits ==
    ASSUME NEW c \in Slots, NEW state \in Manager, ShowsIf(c, state)
    PROVE  IF call[c].live THEN Shown(manager', state) ELSE UNCHANGED manager
BY LockedFits DEF ShowsIf

(* What the form holds stays. *)
SameForm(a, b) ==
    /\ a.mounted = b.mounted /\ a.listed = b.listed /\ a.draftId = b.draftId /\ a.draft = b.draft
    /\ a.agents = b.agents

(* Buttons and answers that are not about the list change no draft. *)
LEMMA FormStays ==
    ASSUME NEW m, NEW state \in Manager, manager \in Manager, SameForm(state, manager), Shown(m, state)
    PROVE  m \in Manager /\ SameForm(m, manager)
<1>1. DockerUrl(state) = DockerUrl(manager)
  BY DEF DockerUrl, SameForm
<1> QED
  BY <1>1 DEF Shown, SameForm

(* Selecting a target fills the form from the list. *)
LEMMA SelectTargetFits ==
    ASSUME NEW state \in Manager, NEW t \in TargetIds, state.listed[t] # None
    PROVE  /\ SelectTarget(state, t) \in Manager
           /\ SelectTarget(state, t).draftId = t /\ SelectTarget(state, t).draft = state.listed[t]
           /\ SelectTarget(state, t).listed = state.listed
           /\ SelectTarget(state, t).mounted = state.mounted
           /\ SelectTarget(state, t).agents = state.agents
<1> DEFINE url == state.listed[t]
<1>1. url \in Urls
  BY DEF Manager
<1>2. SelectTarget(state, t) = [state EXCEPT !.selected = t, !.draftId = t, !.draft = url]
  BY DEF SelectTarget, DraftFromRecord
<1> HIDE DEF url
<1>3. /\ SelectTarget(state, t) \in Manager
      /\ SelectTarget(state, t).draftId = t /\ SelectTarget(state, t).draft = url
      /\ SelectTarget(state, t).listed = state.listed
      /\ SelectTarget(state, t).mounted = state.mounted
      /\ SelectTarget(state, t).agents = state.agents
  BY <1>1, <1>2 DEF Manager
<1> QED
  BY <1>3 DEF url

(* Releasing a control leaves the form alone. *)
LEMMA ReleasedFits ==
    ASSUME manager \in Manager, NEW r
    PROVE  Released(r) \in Manager /\ SameForm(Released(r), manager)
<1> DEFINE b == manager.saving /\ r.task = "load"
<1>1. b \in BOOLEAN /\ Released(r) = [manager EXCEPT !.saving = b]
  BY DEF Manager, Released
<1> HIDE DEF b
<1> QED
  BY <1>1 DEF Manager, SameForm

(* What is selected when the list has come. *)
Reselected(m, r) ==
    /\ m \in Manager /\ m.listed = targets /\ m.mounted = manager.mounted /\ m.agents = manager.agents
    /\ \/ /\ m.draftId \in TargetIds /\ targets[m.draftId] # None /\ m.draft = targets[m.draftId]
          /\ Preferred(r) \in TargetIds /\ targets[Preferred(r)] # None => m.draftId = Preferred(r)
       \/ m.draftId = None /\ m.draft = Scaffold /\ \A t \in TargetIds : targets[t] = None

(* A list selects the preferred target, else one that it has. *)
LEMMA ListedFits ==
    ASSUME ITypes, NEW r
    PROVE  Reselected(Listed(r), r)
<1> DEFINE ids == Records(targets)
           loaded == [Released(r) EXCEPT !.listed = targets]
<1>0. manager \in Manager /\ targets \in [TargetIds -> Urls \union {None}]
  BY DEF ITypes, TypeOK
<1>1. Released(r) \in Manager /\ SameForm(Released(r), manager)
  BY <1>0, ReleasedFits
<1>2. /\ loaded \in Manager /\ loaded.listed = targets /\ loaded.mounted = manager.mounted
      /\ loaded.agents = manager.agents
  BY <1>0, <1>1 DEF Manager, SameForm
<1>3. \A t \in TargetIds : t \in ids <=> targets[t] # None
  BY DEF Records
<1>4. ids \subseteq TargetIds
  BY DEF Records
<1>5. Listed(r) = IF Preferred(r) \in ids THEN SelectTarget(loaded, Preferred(r))
                  ELSE IF ids # {} THEN SelectTarget(loaded, CHOOSE t \in ids : TRUE)
                  ELSE [loaded EXCEPT !.selected = None, !.draftId = None, !.draft = Scaffold]
  BY DEF Listed
<1> HIDE DEF ids, loaded
<1>6. CASE Preferred(r) \in ids
  BY <1>2, <1>3, <1>4, <1>5, <1>6, SelectTargetFits DEF Reselected
<1>7. CASE Preferred(r) \notin ids /\ ids # {}
  <2> DEFINE t == CHOOSE t \in ids : TRUE
  <2>1. t \in ids
    BY <1>7
  <2>2. Listed(r) = SelectTarget(loaded, t)
    BY <1>5, <1>7
  <2> HIDE DEF t
  <2> QED
    BY <1>2, <1>3, <1>4, <1>7, <2>1, <2>2, SelectTargetFits DEF Reselected
<1>8. CASE ids = {}
  <2>1. Listed(r) = [loaded EXCEPT !.selected = None, !.draftId = None, !.draft = Scaffold]
    BY <1>5, <1>8
  <2>2. Scaffold \in Urls
    BY UrlsThere
  <2>3. /\ Listed(r) \in Manager /\ Listed(r).listed = loaded.listed
        /\ Listed(r).mounted = loaded.mounted /\ Listed(r).agents = loaded.agents
        /\ Listed(r).draftId = None /\ Listed(r).draft = Scaffold
    BY <1>2, <2>1, <2>2 DEF Manager
  <2> QED
    BY <1>2, <1>3, <1>8, <2>3 DEF Reselected
<1> QED
  BY <1>6, <1>7, <1>8

(* What a call of the view captures. *)
FormSaw == [url |-> manager.draft, shown |-> LockedUrl(manager),
            selected |-> manager.selected, target |-> app.target]

Filled(r, task, of) ==
    /\ r \in Shape /\ r.task = task /\ r.of = of /\ r.at = "sent" /\ r.saw = FormSaw
    /\ r.live = TRUE /\ r.effects = 0

(* What a handler captures of the form is well typed. *)
LEMMA FormTyped == ASSUME ITypes PROVE FormSaw \in ListSaw
<1>1. manager \in Manager /\ app \in App
  BY DEF ITypes, TypeOK
<1>2. LockedUrl(manager) \in Urls
  BY <1>1, LockedUrlFits
<1>3. manager.draft \in Urls /\ manager.selected \in TargetIds \union {None}
  BY <1>1 DEF Manager
<1>4. app.target \in TargetIds \union {None}
  BY <1>1 DEF App
<1> QED
  BY <1>2, <1>3, <1>4 DEF FormSaw, ListSaw

(* A call of the view carries what the form shows. *)
LEMMA ManagerTaskFills ==
    ASSUME ITypes, NEW task \in ManagerTasks, NEW of \in Subjects, NEW r, r = ManagerTask(task, of)
    PROVE  Filled(r, task, of)
<1> DEFINE at == "sent"
           v == Call(task, of, at)
<1>1. task \in Tasks /\ at \in Steps
  BY DEF Tasks, ListTasks, Steps, Asking, Sending
<1>2. Fresh(v, task, of, at)
  BY <1>1, Made
<1>3. r = [v EXCEPT !.saw = FormSaw]
  BY DEF ManagerTask, FormSaw
<1>4. FormSaw \in ListSaw
  BY FormTyped
<1> HIDE DEF v, at
<1>5. r \in Shape /\ r.saw = FormSaw /\ Same(r, v, {"saw"})
  <2>1. v \in Shape
    BY <1>2 DEF Fresh
  <2> QED
    BY <1>3, <1>4, <2>1, Captured
<1>6. r.task = task /\ r.of = of /\ r.at = at /\ r.live = TRUE /\ r.effects = 0
  BY <1>2, <1>5 DEF Fresh, Same, Fields
<1> QED
  BY <1>5, <1>6 DEF Filled, at

(* So does a mutation, which begins in a slot of its own. *)
LEMMA FormPost ==
    ASSUME ITypes, NEW task \in {"save", "testsave", "drop", "validate", "targetscan"},
           NEW of, IF task = "targetscan" THEN of = NoScan ELSE of \in TargetIds,
           Post(ManagerTask(task, of))
    PROVE  CallFits' /\ Kept /\ Begun(call, task, of, FormSaw, Sending)
<1> DEFINE r == ManagerTask(task, of)
<1>1. task \in ManagerTasks /\ of \in Subjects /\ task \in Posts
  BY DEF ManagerTasks, Subjects, Posts
<1>2. Filled(r, task, of) /\ Post(r)
  BY <1>1, ManagerTaskFills
<1> HIDE DEF r
<1>3. r \in Shape /\ r.task = task /\ r.of = of /\ r.saw = FormSaw /\ r.live = TRUE
  BY <1>2 DEF Filled
<1>4. About(r)
  BY <1>3, FormTyped DEF About, ListTasks, ManagerTasks, Lookups
<1>5. CallFits' /\ Kept /\ Begun(call, r.task, r.of, r.saw, Sending)
  BY <1>1, <1>2, <1>3, <1>4, PostFits DEF ITypes, TypeOK
<1> QED
  BY <1>3, <1>5

(* Opening the view asks for the list and the agents and for nothing else. *)
LEMMA MountManagerFits ==
    ASSUME ITypes, MountManager
    PROVE  /\ manager' \in Manager /\ manager'.mounted /\ CallFits' /\ Kept
           /\ manager'.draftId = manager.draftId /\ manager'.draft = manager.draft
           /\ manager'.listed = manager.listed /\ manager'.agents = manager.agents
           /\ ~manager.mounted
           /\ \A e \in Slots :
                 \/ call'[e] = call[e]
                 \/ /\ call[e] = Idle /\ call'[e] \in Requests
                    /\ call'[e].task \in {"load", "agents"} /\ call'[e].at \in {"list", "agents"}
<1>1. manager \in Manager /\ CallFits
  BY DEF ITypes, TypeOK
<1>2. /\ manager' \in Manager /\ manager'.mounted
      /\ manager'.draftId = manager.draftId /\ manager'.draft = manager.draft
      /\ manager'.listed = manager.listed /\ manager'.agents = manager.agents
      /\ ~manager.mounted
  BY <1>1 DEF MountManager, Manager
<1>3. ASSUME NEW task \in {"load", "agents"}, NEW at \in {"list", "agents"},
             task = "load" <=> at = "list", NEW w, w = [ManagerTask(task, None) EXCEPT !.at = at]
      PROVE  w \in Requests /\ w.task = task /\ w.at = at
  <2> DEFINE v == ManagerTask(task, None)
  <2>1. task \in ManagerTasks /\ None \in Subjects /\ at \in Steps
    BY DEF ManagerTasks, Subjects, Steps
  <2>2. Filled(v, task, None)
    BY <2>1, ManagerTaskFills
  <2>3. w = [v EXCEPT !.at = at]
    BY <1>3
  <2> HIDE DEF v
  <2>4. w \in Shape /\ w.at = at /\ Same(w, v, {"at"})
    BY <2>1, <2>2, <2>3 DEF Filled, Shape, Same, Fields
  <2>5. w.task = task /\ w.saw = FormSaw /\ w.effects = 0
    BY <2>2, <2>4 DEF Filled, Same, Fields
  <2>6. About(w)
    BY <2>5, FormTyped DEF About, Lookups
  <2>7. w \in Requests
    BY <1>3, <2>4, <2>5, <2>6, Read
  <2> QED
    BY <2>4, <2>5, <2>7
<1>4. PICK c \in FreeSlots, d \in FreeSlots :
        /\ c # d
        /\ call' = [call EXCEPT ![c] = [ManagerTask("load", None) EXCEPT !.at = "list"],
                                ![d] = [ManagerTask("agents", None) EXCEPT !.at = "agents"]]
  BY DEF MountManager
<1> DEFINE v == [ManagerTask("load", None) EXCEPT !.at = "list"]
           w == [ManagerTask("agents", None) EXCEPT !.at = "agents"]
<1>5. v \in Requests /\ v.task = "load" /\ v.at = "list"
  BY <1>3
<1>6. w \in Requests /\ w.task = "agents" /\ w.at = "agents"
  BY <1>3
<1>7. call' = [call EXCEPT ![c] = v, ![d] = w]
  BY <1>4
<1>8. c \in Slots /\ d \in Slots /\ call[c] = Idle /\ call[d] = Idle
  BY DEF FreeSlots
<1> HIDE DEF v, w
<1>9. CallFits' /\ call'[d] = w /\ call'[c] = v /\ \A e \in Slots \ {c, d} : call'[e] = call[e]
  BY <1>1, <1>4, <1>5, <1>6, <1>7, <1>8 DEF CallFits
<1>10. Keeps(Idle, v) /\ Keeps(Idle, w)
  BY <1>5, <1>6 DEF Keeps, Silent, Idle, Asking, Sending
<1>11. Kept
  BY <1>1, <1>8, <1>9, <1>10, KeptSame DEF Kept
<1>12. \A e \in Slots :
                 \/ call'[e] = call[e]
                 \/ /\ call[e] = Idle /\ call'[e] \in Requests
                    /\ call'[e].task \in {"load", "agents"} /\ call'[e].at \in {"list", "agents"}
  BY <1>5, <1>6, <1>8, <1>9
<1> QED
  BY <1>2, <1>9, <1>11, <1>12

(* Leaving the view drops its calls and its form. *)
LEMMA UnmountManagerFits ==
    ASSUME ITypes, UnmountManager
    PROVE  /\ manager' \in Manager /\ manager' = NewManager /\ CallFits' /\ Kept
           /\ Dropped(call', ManagerTasks)
<1>1. NewManager \in Manager
  BY UrlsThere DEF NewManager, Manager
<1>2. /\ call' \in [Slots -> {Idle} \union Requests] /\ Dropped(call', ManagerTasks)
      /\ \A c \in Slots : Keeps(call[c], call'[c])
  BY DroppedFits DEF UnmountManager, ITypes
<1> QED
  BY <1>1, <1>2 DEF UnmountManager, CallFits, Kept

(* The operator chooses what the form shows. *)
LEMMA PickTargetFits ==
    ASSUME ITypes, NEW t \in TargetIds, PickTarget(t)
    PROVE  /\ manager' \in Manager /\ UNCHANGED call
           /\ manager.listed[t] # None /\ manager'.draftId = t /\ manager'.listed = manager.listed
           /\ manager'.draft = manager.listed[t] \/ manager'.draft = Published(t)
           /\ manager'.mounted = manager.mounted
<1>1. manager \in Manager /\ manager.listed[t] # None
  BY DEF ITypes, TypeOK, PickTarget, Records
<1> DEFINE m == SelectTarget(manager, t)
<1>2. /\ m \in Manager /\ m.draftId = t /\ m.draft = manager.listed[t] /\ m.listed = manager.listed
      /\ m.mounted = manager.mounted
  BY <1>1, SelectTargetFits
<1>3. Shows(m)
  BY DEF PickTarget
<1> HIDE DEF m
<1>4. Shown(manager', m)
  BY <1>2, <1>3, ShowsFits
<1> QED
  BY <1>1, <1>2, <1>4 DEF Shown, PickTarget

(* A new target starts from the defaults, or locked. *)
LEMMA AddTargetFits ==
    ASSUME ITypes, AddTarget
    PROVE  /\ manager' \in Manager /\ UNCHANGED call
           /\ manager'.draftId = NewId /\ manager'.listed = manager.listed
           /\ manager'.draft \in {Scaffold, Published(NewId)}
           /\ manager'.mounted = manager.mounted
<1> DEFINE m == [manager EXCEPT !.selected = None, !.draftId = NewId, !.draft = Scaffold]
<1>1. /\ m \in Manager /\ m.draftId = NewId /\ m.draft = Scaffold /\ m.listed = manager.listed
      /\ m.mounted = manager.mounted
  BY UrlsThere DEF ITypes, TypeOK, Manager
<1>2. Shows(m)
  BY DEF AddTarget
<1> HIDE DEF m
<1>3. Shown(manager', m)
  BY <1>1, <1>2, ShowsFits
<1> QED
  BY <1>1, <1>3 DEF Shown, AddTarget

(* Typing changes the URL of the target shown. *)
LEMMA TypeUrlFits ==
    ASSUME ITypes, TypeUrl
    PROVE  /\ manager' \in Manager /\ UNCHANGED call
           /\ manager'.draftId = manager.draftId /\ manager.draftId \in TargetIds
           /\ manager'.listed = manager.listed /\ manager'.draft = Typed(manager.draftId)
           /\ manager'.mounted = manager.mounted
<1> DEFINE url == Typed(manager.draftId)
           m == [manager EXCEPT !.draft = url]
<1>1. manager \in Manager /\ manager.draftId \in TargetIds /\ url \in Urls
  BY UrlsThere DEF ITypes, TypeOK, Manager, TypeUrl
<1>2. Shows(m) /\ DockerUrl(manager) = None
  BY DEF TypeUrl
<1>3. m = [manager EXCEPT !.draft = url]
  OBVIOUS
<1> HIDE DEF m, url
<1>4. /\ m \in Manager /\ m.draftId = manager.draftId /\ m.draft = url /\ m.listed = manager.listed
      /\ m.mounted = manager.mounted /\ m.agents = manager.agents
  BY <1>1, <1>3 DEF Manager
<1>5. DockerUrl(m) = None
  BY <1>2, <1>4 DEF DockerUrl
<1>6. Shown(manager', m)
  BY <1>2, <1>4, ShowsFits
<1> QED
  BY <1>1, <1>4, <1>5, <1>6 DEF Shown, TypeUrl, url

(* The buttons that send what the form shows. *)
LEMMA ButtonsFit ==
    ASSUME ITypes, SaveTarget \/ DeleteTarget \/ TestConnectivity \/ StartTargetScan
    PROVE  /\ manager' \in Manager /\ SameForm(manager', manager) /\ CallFits' /\ Kept
           /\ manager.draftId \in TargetIds
           /\ \/ Begun(call, "targetscan", NoScan, FormSaw, Sending)
              \/ \E task \in {"save", "testsave", "drop", "validate"} :
                    Begun(call, task, manager.draftId, FormSaw, Sending)
<1>1. manager \in Manager /\ manager.draftId \in TargetIds
  BY DEF ITypes, TypeOK, Manager, SaveTarget, DeleteTarget, TestConnectivity, StartTargetScan, Buttons
<1>2. ASSUME NEW task \in {"save", "testsave", "drop", "validate"},
             Post(ManagerTask(task, manager.draftId))
      PROVE  CallFits' /\ Kept /\ Begun(call, task, manager.draftId, FormSaw, Sending)
  BY <1>1, <1>2, FormPost
<1>3. ASSUME NEW m \in {[manager EXCEPT !.saving = TRUE], [manager EXCEPT !.testing = TRUE],
                        [manager EXCEPT !.testing = TRUE, !.saving = TRUE],
                        [manager EXCEPT !.scanning = TRUE]}, Shows(m)
      PROVE  manager' \in Manager /\ SameForm(manager', manager)
  <2>1. m \in Manager /\ SameForm(m, manager)
    BY <1>1 DEF Manager, SameForm
  <2> QED
    BY <1>1, <1>3, <2>1, ShowsFits, FormStays
<1>4. CASE SaveTarget
  BY <1>1, <1>2, <1>3, <1>4 DEF SaveTarget
<1>5. CASE DeleteTarget
  BY <1>1, <1>2, <1>3, <1>5 DEF DeleteTarget
<1>6. CASE TestConnectivity
  BY <1>1, <1>2, <1>3, <1>6 DEF TestConnectivity
<1>7. CASE StartTargetScan
  <2>1. CallFits' /\ Kept /\ Begun(call, "targetscan", NoScan, FormSaw, Sending)
    BY <1>7, FormPost DEF StartTargetScan
  <2> QED
    BY <1>1, <1>3, <1>7, <2>1 DEF StartTargetScan
<1> QED
  BY <1>4, <1>5, <1>6, <1>7

(* The registry carries out what the view asks for. *)
RegistryFits == targets' \in [TargetIds -> Urls \union {None}] /\ staleWrite' \in BOOLEAN

(* The registry takes the URL of an accepted save, for the call's target alone. *)
LEMMA TargetServedFits ==
    ASSUME ITypes, NEW c \in Slots, TargetServed(c)
    PROVE  /\ Served(c) /\ SameCall(call'[c], call[c]) /\ RegistryFits
           /\ call[c].task \in {"save", "testsave", "drop"} /\ call[c].of \in TargetIds
           /\ call[c].saw \in ListSaw
           /\ \/ /\ call[c].task # "drop"
                 /\ targets' = [t \in TargetIds |-> IF t = call[c].of THEN call[c].saw.url ELSE targets[t]]
              \/ /\ call[c].task = "drop"
                 /\ targets' = [t \in TargetIds |-> IF t = call[c].of THEN None ELSE targets[t]]
              \/ UNCHANGED targets /\ call'[c].end # "done"
              \/ UNCHANGED targets /\ call[c].task = "drop"
<1>1. /\ call[c].at = "sent" /\ call[c].task \in {"save", "testsave", "drop"} /\ call[c] \in Requests
  BY StandsThere DEF TargetServed, Accepted, At, ITypes, Steps, Asking, Sending
<1>2. call[c].of \in TargetIds /\ call[c].saw \in ListSaw
  BY <1>1 DEF Requests, About, ListTasks, ManagerTasks
<1>3. call[c].saw.url \in Urls
  BY <1>2 DEF ListSaw
<1>4. targets \in [TargetIds -> Urls \union {None}] /\ staleWrite \in BOOLEAN /\ faults \in 0..MaxFaults
      /\ cached \in Held /\ permitted \in BOOLEAN /\ CallFits
  BY DEF ITypes, TypeOK
<1>5. CASE /\ File!WriteBack(targets, {call[c].of}, IF call[c].task = "drop" THEN None ELSE call[c].saw.url)
           /\ Executed(c, call[c])
  <2> DEFINE url == IF call[c].task = "drop" THEN None ELSE call[c].saw.url
  <2>1. url \in Urls \union {None}
    BY <1>3
  <2>2. \/ UNCHANGED <<targets, staleWrite>> /\ url = None
        \/ /\ targets' = [t \in TargetIds |-> IF t \in {call[c].of} THEN url ELSE targets[t]]
           /\ staleWrite' \in BOOLEAN
    <3> HIDE DEF url
    <3>1. File!WriteBack(targets, {call[c].of}, url)
      BY <1>5 DEF url
    <3> QED
      BY <1>4, <3>1 DEF File!WriteBack, File!Changed, File!registryVars, File!Registered
  <2>3. RegistryFits
    <3> HIDE DEF url
    <3> QED
      BY <1>4, <2>1, <2>2 DEF RegistryFits
  <2>4. call[c].task # "drop" => url # None
    BY <1>3, TargetsAssumption
  <2>5. \/ /\ call[c].task # "drop"
           /\ targets' = [t \in TargetIds |-> IF t = call[c].of THEN call[c].saw.url ELSE targets[t]]
        \/ /\ call[c].task = "drop"
           /\ targets' = [t \in TargetIds |-> IF t = call[c].of THEN None ELSE targets[t]]
        \/ UNCHANGED targets /\ call[c].task = "drop"
    BY <2>2, <2>4
  <2>6. /\ CallFits' /\ call'[c] \in Requests /\ call'[c].at = "answered"
        /\ SameCall(call'[c], call[c]) /\ OnlyAt(c) /\ Kept /\ faults' \in 0..MaxFaults
    BY <1>1, <1>4, <1>5, ExecutedFits
  <2> QED
    BY <1>1, <1>2, <1>4, <2>3, <2>5, <2>6 DEF Served, ClientFits, SameCall, TargetServed
<1>6. CASE Fault /\ Rejected(c) /\ UNCHANGED <<targets, staleWrite>>
  <2>1. /\ CallFits' /\ call[c] \in Requests /\ call'[c] \in Requests /\ call'[c].at = "answered"
        /\ call'[c].end = "failed" /\ SameCall(call'[c], call[c]) /\ OnlyAt(c) /\ Kept
    BY <1>1, <1>4, <1>6, RejectedFits DEF Sending
  <2>2. faults' \in 0..MaxFaults
    BY <1>4, <1>6, FaultFits
  <2> QED
    BY <1>1, <1>2, <1>4, <1>6, <2>1, <2>2 DEF Served, ClientFits, RegistryFits, SameCall, TargetServed
<1> QED
  BY <1>5, <1>6 DEF TargetServed

(* A test of a target leaves its call itself. *)
LEMMA ValidateServedFits ==
    ASSUME ITypes, NEW c \in Slots, ValidateServed(c)
    PROVE  Served(c) /\ SameCall(call'[c], call[c]) /\ call[c].task = "validate"
<1>1. call[c].at = "sent" /\ call[c].task = "validate" /\ call[c] \in Requests /\ CallFits
      /\ faults \in 0..MaxFaults /\ cached \in Held /\ permitted \in BOOLEAN
  BY StandsThere DEF ValidateServed, Accepted, At, ITypes, TypeOK, Steps, Asking, Sending
<1>2. Executed(c, call[c]) \/ (Rejected(c) /\ UNCHANGED faults)
  BY DEF ValidateServed
<1>3. /\ CallFits' /\ call'[c] \in Requests /\ call'[c].at = "answered"
      /\ SameCall(call'[c], call[c]) /\ OnlyAt(c) /\ Kept /\ faults' \in 0..MaxFaults
  BY <1>1, <1>2, ExecutedFits, RejectedFits DEF Sending
<1> QED
  BY <1>1, <1>3 DEF Served, ClientFits, SameCall, ValidateServed, ManagerStep

(* What the view does with an answer. *)
LEMMA TargetAnsweredFits ==
    ASSUME ITypes, NEW c \in Slots, TargetAnswered(c)
    PROVE  /\ manager' \in Manager /\ SameForm(manager', manager)
           /\ call[c] \in Requests /\ call[c].at = "answered"
           /\ call[c].task \in {"save", "testsave", "drop"}
           /\ \/ FreedAt(c)
              \/ MovedAt(c, "list") /\ call[c].end = "done"
              \/ MovedAt(c, "saved") /\ call[c].task = "testsave"
<1>1. call[c] \in Requests /\ call[c].at = "answered" /\ call[c].task \in {"save", "testsave", "drop"}
      /\ CallFits /\ manager \in Manager
  BY StandsThere DEF TargetAnswered, At, ITypes, TypeOK, Steps, Asking
<1>2. CASE call[c].end = "done"
  <2>1. UNCHANGED manager /\ Goes(c, "list")
    BY <1>2 DEF TargetAnswered
  <2>2. Follows(call[c], "list") /\ "list" \in Steps
    BY <1>1 DEF Follows, Steps
  <2> QED
    BY <1>1, <1>2, <2>1, <2>2, GoesFits DEF MovedAt, SameForm
<1>3. CASE call[c].end # "done"
  <2> DEFINE m == [manager EXCEPT !.saving = FALSE]
  <2>1. m \in Manager /\ SameForm(m, manager)
    BY <1>1 DEF Manager, SameForm
  <2>2. /\ ShowsIf(c, m)
        /\ IF call[c].task = "testsave" THEN Goes(c, "saved") ELSE Frees(c)
    BY <1>3 DEF TargetAnswered
  <2> HIDE DEF m
  <2>3. manager' \in Manager /\ SameForm(manager', manager)
    <3>1. IF call[c].live THEN Shown(manager', m) ELSE UNCHANGED manager
      BY <2>1, <2>2, ShowsIfFits
    <3>2. CASE call[c].live
      BY <1>1, <2>1, <3>1, <3>2, FormStays
    <3>3. CASE ~call[c].live
      BY <1>1, <3>1, <3>3 DEF SameForm
    <3> QED
      BY <3>2, <3>3
  <2>4. CASE call[c].task = "testsave" /\ Goes(c, "saved")
    <3>1. Follows(call[c], "saved") /\ "saved" \in Steps
      BY <1>1, <2>4 DEF Follows, Steps
    <3> QED
      BY <1>1, <2>3, <2>4, <3>1, GoesFits DEF MovedAt
  <2>5. CASE Frees(c)
    BY <1>1, <2>3, <2>5, FreesFits DEF FreedAt, Sending
  <2> QED
    BY <2>2, <2>4, <2>5
<1> QED
  BY <1>2, <1>3

(* A list that comes in. *)
LEMMA TargetsListedFits ==
    ASSUME ITypes, NEW c \in Slots, TargetsListed(c)
    PROVE  /\ manager' \in Manager /\ ClientFits /\ CallFits' /\ Kept
           /\ call[c] \in Requests /\ call[c].at = "list"
           /\ call[c].task \in {"load", "save", "testsave", "drop"}
           /\ \/ SameForm(manager', manager)
              \/ call[c].live /\ \E m : Reselected(m, call[c]) /\ Shown(manager', m)
           /\ \/ FreedAt(c)
              \/ MovedAt(c, "offers")
              \/ /\ call[c].task = "testsave"
                 /\ call'[c] \in Requests /\ call'[c].at = "saved" /\ SameCall(call'[c], call[c])
                 /\ \A d \in Slots \ {c} :
                       \/ call'[d] = call[d]
                       \/ call[d] = Idle /\ call'[d] \in Requests /\ call'[d].task = "offers"
<1>1. call[c] \in Requests /\ call[c].at = "list" /\ CallFits /\ manager \in Manager
  BY AtThere DEF TargetsListed, ITypes, TypeOK, Steps
<1>2. call[c].task \in {"load", "save", "testsave", "drop"}
  BY <1>1 DEF Requests, Stands, Asking, Sending
<1>3. /\ manager' \in Manager
      /\ \/ SameForm(manager', manager)
         \/ call[c].live /\ \E m : Reselected(m, call[c]) /\ Shown(manager', m)
  <2>1. CASE ShowsIf(c, Listed(call[c]))
    <3>1. Reselected(Listed(call[c]), call[c])
      BY ListedFits
    <3>2. IF call[c].live THEN Shown(manager', Listed(call[c])) ELSE UNCHANGED manager
      BY <2>1, <3>1, ShowsIfFits DEF Reselected
    <3> QED
      BY <1>1, <3>1, <3>2 DEF Shown, SameForm
  <2>2. CASE ShowsIf(c, Released(call[c]))
    <3>1. Released(call[c]) \in Manager /\ SameForm(Released(call[c]), manager)
      BY <1>1, ReleasedFits
    <3>2. IF call[c].live THEN Shown(manager', Released(call[c])) ELSE UNCHANGED manager
      BY <2>2, <3>1, ShowsIfFits
    <3>3. CASE call[c].live
      BY <1>1, <3>1, <3>2, <3>3, FormStays
    <3>4. CASE ~call[c].live
      BY <1>1, <3>2, <3>4 DEF SameForm
    <3> QED
      BY <3>3, <3>4
  <2> QED
    BY <2>1, <2>2 DEF TargetsListed
<1>4. ClientFits
  <2>1. UNCHANGED <<cached, permitted>> /\ (Fault \/ UNCHANGED faults)
    BY DEF TargetsListed, ManagerStep
  <2> QED
    BY <2>1, StillTyped
<1>5. CASE call[c].task = "load"
  <2>1. Frees(c)
    BY <1>5 DEF TargetsListed
  <2> QED
    BY <1>1, <1>2, <1>3, <1>4, <2>1, FreesFits DEF FreedAt, Sending
<1>6. CASE call[c].task \in {"save", "drop"}
  <2>1. Goes(c, "offers")
    BY <1>6 DEF TargetsListed
  <2>2. Follows(call[c], "offers") /\ "offers" \in Steps
    BY <1>1, <1>6 DEF Follows, Steps
  <2> QED
    BY <1>1, <1>2, <1>3, <1>4, <2>1, <2>2, GoesFits DEF MovedAt
<1>7. CASE call[c].task = "testsave"
  <2> DEFINE v == [call[c] EXCEPT !.at = "saved"]
             w == [call[c] EXCEPT !.task = "offers", !.at = "offers"]
             calls == [call EXCEPT ![c] = v]
  <2>1. BeginIn(calls, w)
    BY <1>1, <1>7 DEF TargetsListed, CallFits
  <2>10. v = AtSaved(call[c]) /\ w = AtOffers(call[c])
    BY DEF AtSaved, AtOffers
  <2> HIDE DEF v, w
  <2>2. /\ v \in Requests /\ v.at = "saved" /\ SameCall(v, call[c])
        /\ w \in Requests /\ w.at = "offers" /\ w.task = "offers"
    BY <1>1, <1>7, <2>10, Reloading
  <2>3. calls \in [Slots -> {Idle} \union Requests] /\ calls[c] = v
        /\ \A d \in Slots \ {c} : calls[d] = call[d]
    BY <1>1, <2>2 DEF CallFits
  <2> HIDE DEF calls
  <2>4. CallFits' /\ BeganIn(calls, w)
    BY <2>1, <2>2, <2>3, Begins
  <2>5. PICK d \in Slots : call[d] = Idle /\ call'[d] = w /\ \A e \in Slots \ {d} : call'[e] = calls[e]
    BY <2>4 DEF BeganIn
  <2>6. c # d
    BY <1>1, <2>5, NotIdle
  <2>7. Keeps(Idle, w) /\ Keeps(call[c], v)
    BY <1>1, <2>2 DEF Keeps, Silent, Idle, Asking, Sending
  <2>8. Kept
    BY <1>1, <2>3, <2>5, <2>6, <2>7, KeptSame DEF Kept
  <2>9. call'[c] = v /\ \A e \in Slots \ {c} : call'[e] = call[e] \/ (call[e] = Idle /\ call'[e] = w)
    BY <2>3, <2>5, <2>6
  <2> QED
    BY <1>1, <1>2, <1>3, <1>4, <1>7, <2>2, <2>4, <2>8, <2>9
<1> QED
  BY <1>2, <1>5, <1>6, <1>7

(* A save that was asked to test goes on with the test, form untouched. *)
LEMMA ValidateAfterSaveFits ==
    ASSUME ITypes, NEW c \in Slots, ValidateAfterSave(c)
    PROVE  /\ CallFits' /\ Kept /\ OnlyAt(c) /\ UNCHANGED manager
           /\ call[c] \in Requests /\ call[c].task = "testsave" /\ call[c].at = "saved"
           /\ call'[c] \in Requests /\ call'[c].task = "validate" /\ call'[c].at \in Sending
<1>1. call[c] \in Requests /\ call[c].at = "saved" /\ CallFits
  BY AtThere DEF ValidateAfterSave, ITypes, Steps
<1>2. call[c].task = "testsave"
  BY <1>1 DEF Requests, Stands, Asking, Sending
<1> DEFINE r == [call[c] EXCEPT !.task = "validate"]
           w == Posted(r)
<1>3. call' = [call EXCEPT ![c] = w]
  BY <1>1 DEF ValidateAfterSave, CallFits
<1>4. w = Posted(r) /\ r = [call[c] EXCEPT !.task = "validate"]
  OBVIOUS
<1> HIDE DEF r, w
<1>5. "validate" \in Tasks /\ "validate" \in Posts
  BY DEF Tasks, ListTasks, ManagerTasks, Posts
<1>6. r \in Shape /\ r.task = "validate" /\ Same(r, call[c], {"task"})
  BY <1>1, <1>4, <1>5 DEF Requests, Shape, Same, Fields
<1>7. r.of = call[c].of /\ r.saw = call[c].saw
  BY <1>6 DEF Same, Fields
<1>8. About(r)
  BY <1>1, <1>2, <1>6, <1>7 DEF Requests, About, ListTasks, ManagerTasks, Lookups
<1>9. w \in Requests /\ w.at \in Sending /\ SameCall(w, r)
  BY <1>4, <1>5, <1>6, <1>8, Asked DEF ITypes, TypeOK
<1>10. CallFits' /\ call'[c] = w /\ OnlyAt(c)
  BY <1>1, <1>3, <1>9, Replaced DEF OnlyAt
<1>11. Keeps(call[c], w)
  BY <1>1, <1>9 DEF Keeps, Silent, Asking, Sending
<1>12. Kept
  BY <1>1, <1>10, <1>11, KeptSame DEF Kept, OnlyAt
<1> QED
  BY <1>1, <1>2, <1>6, <1>9, <1>10, <1>12 DEF ValidateAfterSave, SameCall

(* The header's list of targets leaves the scan that is shown alone. *)
LEMMA OffersLoadedFits ==
    ASSUME ITypes, NEW c \in Slots, OffersLoaded(c)
    PROVE  /\ FreedAt(c) /\ AppFits(app') /\ SameControls(app', app) /\ SameShown(app', app)
           /\ app'.selected = app.selected /\ app'.view = app.view
           /\ call[c] \in Requests /\ call[c].task \in {"save", "drop", "offers"} /\ call[c].at = "offers"
<1>1. call[c] \in Requests /\ call[c].at = "offers" /\ Frees(c)
  BY AtThere DEF OffersLoaded, ITypes, Steps
<1>2. call[c].task \in {"save", "drop", "offers"}
  BY <1>1 DEF Requests, Stands, Asking, Sending
<1>3. FreedAt(c)
  BY <1>1, FreesFits DEF FreedAt, ITypes, Sending
<1> DEFINE ids == Records(targets)
           first == CHOOSE t \in ids : TRUE
           target == IF call[c].saw.target \in ids THEN app.target ELSE IF ids = {} THEN None ELSE first
<1>4. ids \in SUBSET TargetIds
  BY DEF Records
<1>5. target \in TargetIds \union {None}
  <2>1. app.target \in TargetIds \union {None}
    BY DEF ITypes, TypeOK, App
  <2>2. ids # {} => first \in ids
    OBVIOUS
  <2> HIDE DEF ids, first
  <2> QED
    BY <1>4, <2>1, <2>2 DEF ids, first
<1>6. app' = [app EXCEPT !.offers = ids, !.target = target]
  BY DEF OffersLoaded, ITypes, TypeOK, App
<1> HIDE DEF ids, target
<1>7. /\ app' \in App /\ SameControls(app', app) /\ SameShown(app', app)
      /\ app'.selected = app.selected /\ app'.view = app.view
  BY <1>4, <1>5, <1>6 DEF ITypes, TypeOK, App, SameControls, SameShown
<1>8. AppFits(app')
  BY <1>7 DEF AppFits, Selected, SameShown, ITypes
<1> QED
  BY <1>1, <1>2, <1>3, <1>7, <1>8

(* The agents change the URL of a Docker target alone, to its published one. *)
LEMMA AgentsAnsweredFits ==
    ASSUME ITypes, NEW c \in Slots, AgentsAnswered(c)
    PROVE  /\ FreedAt(c) /\ manager' \in Manager
           /\ call[c] \in Requests /\ call[c].task = "agents" /\ call[c].at = "agents"
           /\ manager'.draftId = manager.draftId /\ manager'.listed = manager.listed
           /\ manager'.mounted = manager.mounted
           /\ \/ manager'.draft = manager.draft
              \/ manager'.draftId \in Docker /\ manager'.draft = Published(manager'.draftId)
           /\ ~call[c].live => UNCHANGED manager
<1>1. call[c] \in Requests /\ call[c].at = "agents" /\ Frees(c)
  BY AtThere DEF AgentsAnswered, ITypes, Steps
<1>2. call[c].task = "agents"
  BY <1>1 DEF Requests, Stands, Asking, Sending
<1>3. FreedAt(c)
  BY <1>1, FreesFits DEF FreedAt, ITypes, Sending
<1> DEFINE m == [manager EXCEPT !.agents = TRUE]
<1>4. manager \in Manager
  BY DEF ITypes, TypeOK
<1>5. /\ m \in Manager /\ m.draftId = manager.draftId /\ m.draft = manager.draft
      /\ m.listed = manager.listed /\ m.mounted = manager.mounted
  BY <1>4 DEF Manager
<1>6. ShowsIf(c, m)
  BY DEF AgentsAnswered
<1> HIDE DEF m
<1>7. IF call[c].live THEN Shown(manager', m) ELSE UNCHANGED manager
  BY <1>5, <1>6, ShowsIfFits
<1> QED
  BY <1>1, <1>2, <1>3, <1>4, <1>5, <1>7 DEF Shown

(* A test's answer and a scan's leave the form alone. *)
LEMMA ValidatedFits ==
    ASSUME ITypes, NEW c \in Slots, Validated(c) \/ TargetScanAnswered(c)
    PROVE  /\ FreedAt(c) /\ manager' \in Manager /\ SameForm(manager', manager)
           /\ call[c] \in Requests /\ call[c].task \in {"validate", "targetscan"}
           /\ call[c].at = "answered"
<1>1. /\ call[c] \in Requests /\ call[c].at = "answered" /\ Frees(c)
      /\ call[c].task \in {"validate", "targetscan"} /\ manager \in Manager
  BY EndedThere DEF Validated, TargetScanAnswered, ITypes, TypeOK
<1>2. FreedAt(c)
  BY <1>1, FreesFits DEF FreedAt, ITypes, Sending
<1>3. PICK m : m \in Manager /\ SameForm(m, manager) /\ ShowsIf(c, m)
  <2>1. CASE Validated(c)
    <3>1. ShowsIf(c, [manager EXCEPT !.testing = FALSE])
      BY <2>1 DEF Validated
    <3>2. /\ [manager EXCEPT !.testing = FALSE] \in Manager
          /\ SameForm([manager EXCEPT !.testing = FALSE], manager)
      BY <1>1 DEF Manager, SameForm
    <3> QED
      BY <3>1, <3>2
  <2>2. CASE TargetScanAnswered(c)
    <3> DEFINE s == call[c].of
    <3>1. call[c].task = "targetscan"
      BY <2>2 DEF TargetScanAnswered, Ended
    <3>2. s \in Scans \union {NoScan}
      BY <1>1, <3>1 DEF Requests, About
    <3>3. \/ ShowsIf(c, [manager EXCEPT !.stream = s])
          \/ ShowsIf(c, [manager EXCEPT !.scanning = FALSE])
      BY <2>2 DEF TargetScanAnswered
    <3> HIDE DEF s
    <3>4. /\ [manager EXCEPT !.stream = s] \in Manager
          /\ SameForm([manager EXCEPT !.stream = s], manager)
      BY <1>1, <3>2 DEF Manager, SameForm
    <3>5. /\ [manager EXCEPT !.scanning = FALSE] \in Manager
          /\ SameForm([manager EXCEPT !.scanning = FALSE], manager)
      BY <1>1 DEF Manager, SameForm
    <3> QED
      BY <3>3, <3>4, <3>5
  <2> QED
    BY <2>1, <2>2
<1>4. IF call[c].live THEN Shown(manager', m) ELSE UNCHANGED manager
  BY <1>3, ShowsIfFits
<1>5. CASE call[c].live
  BY <1>1, <1>2, <1>3, <1>4, <1>5, FormStays
<1>6. CASE ~call[c].live
  BY <1>1, <1>2, <1>4, <1>6 DEF SameForm
<1> QED
  BY <1>5, <1>6

(* So does the end of a target's scan. *)
LEMMA ManagerStreamEndsFits ==
    ASSUME ITypes, ManagerStreamEnds
    PROVE  manager' \in Manager /\ SameForm(manager', manager) /\ CallFits' /\ Kept
<1> DEFINE m == [manager EXCEPT !.scanning = FALSE, !.stream = NoScan]
<1>1. manager \in Manager /\ m \in Manager /\ SameForm(m, manager)
  BY DEF ITypes, TypeOK, Manager, SameForm
<1>2. Shows(m) /\ UNCHANGED call
  BY DEF ManagerStreamEnds
<1> HIDE DEF m
<1> QED
  BY <1>1, <1>2, ShowsFits, FormStays, CallsStay
-----------------------------------------------------------------------------
(* The types. *)

Fits ==
    /\ CallFits' /\ Kept /\ AppFits(app') /\ RunsFit /\ panels' \in Panels /\ manager' \in Manager
    /\ RegistryFits /\ ClientFits

(* What a step leaves alone stays within its types. *)
LEMMA StayFits ==
    ASSUME ITypes
    PROVE  /\ UNCHANGED call => CallFits' /\ Kept
           /\ UNCHANGED app => AppFits(app')
           /\ UNCHANGED <<runs, reviews>> => RunsFit
           /\ UNCHANGED panels => panels' \in Panels
           /\ UNCHANGED manager => manager' \in Manager
           /\ UNCHANGED <<targets, staleWrite>> => RegistryFits
           /\ UNCHANGED <<cached, permitted, faults>> => ClientFits
<1>1. UNCHANGED call => CallFits' /\ Kept
  BY CallsStay
<1>2. UNCHANGED app => AppFits(app')
  BY DEF ITypes
<1>3. UNCHANGED <<runs, reviews>> => RunsFit
  BY RunsStay DEF ITypes, TypeOK, RunsTyped
<1>4. UNCHANGED panels => panels' \in Panels
  BY DEF ITypes, TypeOK
<1>5. UNCHANGED manager => manager' \in Manager
  BY DEF ITypes, TypeOK
<1>6. UNCHANGED <<targets, staleWrite>> => RegistryFits
  BY DEF ITypes, TypeOK, RegistryFits
<1>7. UNCHANGED <<cached, permitted, faults>> => ClientFits
  BY DEF ITypes, TypeOK, ClientFits
<1> QED
  BY <1>1, <1>2, <1>3, <1>4, <1>5, <1>6, <1>7

(* React's effects keep the types. *)
LEMMA ReactFits ==
    ASSUME ITypes, React
    PROVE  Fits
<1>1. CASE PanelEffects /\ UNCHANGED managerVars
  <2>1. panels' \in Panels /\ CallFits' /\ Kept
    <3>1. CASE Unmount
      BY <3>1, UnmountFits
    <3>2. CASE ExplainEffect
      BY <3>2, ExplainEffectFits
    <3>3. CASE CveEffect
      BY <3>3, CveEffectFits
    <3>4. CASE ChatEffect
      BY <3>4, ChatEffectFits, CallsStay
    <3>5. CASE EvidenceEffect
      BY <3>5, EvidenceEffectFits
    <3> QED
      BY <1>1, <3>1, <3>2, <3>3, <3>4, <3>5 DEF PanelEffects
  <2>2. UNCHANGED <<app, runs, reviews, cached, permitted, faults, manager, targets, staleWrite>>
    BY <1>1 DEF PanelEffects, PanelsStep, scanVars, managerVars
  <2> QED
    BY <2>1, <2>2, StayFits DEF Fits
<1>2. CASE ManagerEffects /\ UNCHANGED panels
  <2>1. manager' \in Manager /\ CallFits' /\ Kept
    BY <1>2, MountManagerFits, UnmountManagerFits DEF ManagerEffects
  <2>2. UNCHANGED <<app, runs, reviews, cached, permitted, faults, panels, targets, staleWrite>>
    BY <1>2 DEF ManagerEffects, ManagerStep, scanVars
  <2> QED
    BY <2>1, <2>2, StayFits DEF Fits
<1> QED
  BY <1>1, <1>2 DEF React

(* The header's controls do. *)
LEMMA ScanActsFit ==
    ASSUME ITypes, ScanActs, UNCHANGED <<panels, managerVars>>
    PROVE  Fits
<1>1. UNCHANGED <<runs, reviews, cached, permitted, faults, panels, manager, targets, staleWrite>>
  BY DEF ScanActs, StartScan, StopScan, Navigate, ChooseTarget, SelectFinding, managerVars, clientVars
<1>2. AppFits(app') /\ CallFits' /\ Kept
  <2>1. CASE StartScan
    BY <2>1, StartScanFits
  <2>2. CASE StopScan
    BY <2>2, StopScanFits
  <2>3. CASE \/ \E v \in Views : Navigate(v)
             \/ \E t \in TargetIds : ChooseTarget(t)
             \/ \E f \in Findings : SelectFinding(f)
    <3>1. UNCHANGED clientVars /\ AppFits(app')
      BY <2>3, LooksFits
    <3> QED
      BY <3>1, CallsStay DEF clientVars
  <2> QED
    BY <2>1, <2>2, <2>3 DEF ScanActs
<1> QED
  BY <1>1, <1>2, StayFits DEF Fits

(* The panels' controls do. *)
LEMMA PanelsActFit ==
    ASSUME ITypes, PanelsAct, UNCHANGED managerVars
    PROVE  Fits
<1>1. UNCHANGED <<manager, targets, staleWrite>>
  BY DEF managerVars
<1>2. panels' \in Panels /\ CallFits' /\ Kept /\ UNCHANGED <<app, runs, reviews, cached, permitted, faults>>
  <2>1. CASE TypeReason \/ CancelReason
    <3>1. panels' \in Panels /\ UNCHANGED <<scanVars, clientVars>>
      BY <2>1, ReasonActsFit
    <3> QED
      BY <3>1, CallsStay DEF scanVars, clientVars
  <2>2. CASE ConfirmReason
    <3>1. /\ panels' \in Panels /\ Patched(panels.pending, panels.reason)
          /\ panels.pending \in FindingStatus /\ panels.reason \in Reason \union {None}
      BY <2>2, ConfirmReasonFits
    <3> QED
      BY <3>1, PatchedFits
  <2>3. CASE MarkForReview
    <3>1. Patched("triaged", None) /\ UNCHANGED panels
      BY <2>3 DEF MarkForReview
    <3> DEFINE s == "triaged"
               reason == None
    <3>2. s \in FindingStatus /\ reason \in Reason \union {None} /\ Patched(s, reason)
      BY <3>1 DEF FindingStatus
    <3> HIDE DEF s, reason
    <3> QED
      BY <3>1, <3>2, PatchedFits, StayFits
  <2>4. CASE ToggleEvidence
    BY <2>4, ToggleEvidenceFits DEF ToggleEvidence, PanelsStep, scanVars
  <2>5. CASE OpenArtifact
    BY <2>5, OpenArtifactFits DEF OpenArtifact, PanelsStep, scanVars
  <2>6. CASE Ask
    BY <2>6, AskFits DEF Ask, PanelsStep, scanVars
  <2>7. CASE \E s \in Statuses : PickStatus(s)
    <3>1. PICK s \in Statuses : PickStatus(s)
      BY <2>7
    <3>2. s \in FindingStatus
      BY StatusAssumption
    <3> DEFINE reason == None
    <3>3. reason \in Reason \union {None}
      OBVIOUS
    <3>4. /\ panels' \in Panels
          /\ UNCHANGED <<scanVars, clientVars>> \/ Patched(s, reason)
      BY <3>1, <3>2, PickStatusFits
    <3> HIDE DEF reason
    <3>5. CASE UNCHANGED <<scanVars, clientVars>>
      BY <3>4, <3>5, CallsStay DEF scanVars, clientVars
    <3>6. CASE Patched(s, reason)
      BY <3>2, <3>3, <3>4, <3>6, PatchedFits
    <3> QED
      BY <3>4, <3>5, <3>6
  <2>8. CASE \E tab \in {"intel", "chat"} : ShowTab(tab)
    <3>1. PICK tab \in {"intel", "chat"} : ShowTab(tab)
      BY <2>8
    <3> QED
      BY <3>1, ShowTabFits DEF ShowTab, PanelsStep, scanVars
  <2> QED
    BY <2>1, <2>2, <2>3, <2>4, <2>5, <2>6, <2>7, <2>8 DEF PanelsAct
<1> QED
  BY <1>1, <1>2, StayFits DEF Fits

(* The Targets view's controls do. *)
LEMMA ManagerActsFit ==
    ASSUME ITypes, ManagerActs, UNCHANGED panels
    PROVE  Fits
<1>1. UNCHANGED <<app, runs, reviews, cached, permitted, faults, panels, targets, staleWrite>>
  BY DEF ManagerActs, ManagerStep, scanVars
<1>2. manager' \in Manager /\ CallFits' /\ Kept
  BY AddTargetFits, TypeUrlFits, ButtonsFit, PickTargetFits, CallsStay DEF ManagerActs
<1> QED
  BY <1>1, <1>2, StayFits DEF Fits

(* The server's handlers, the network and the ends of runs do. *)
LEMMA HandleFits ==
    ASSUME ITypes, Handle
    PROVE  Fits
<1>1. ASSUME NEW c \in Slots, ScanServing(c), UNCHANGED <<panels, managerVars>>
      PROVE  Fits
  <2>1. Served(c) /\ RunsFit /\ UNCHANGED app
    BY <1>1, ScanCreatedFits, CancelServedFits, TriageServing DEF ScanServing
  <2>2. UNCHANGED <<panels, manager, targets, staleWrite>>
    BY <1>1 DEF managerVars
  <2> QED
    BY <2>1, <2>2, StayFits DEF Fits, Served
<1>2. ASSUME NEW c \in Slots, ManagerServing(c), UNCHANGED panels
      PROVE  Fits
  <2>1. CASE TargetServed(c)
    <3>1. UNCHANGED <<manager, app, runs, reviews>>
      BY <2>1 DEF TargetServed, scanVars
    <3> QED
      BY <1>2, <2>1, <3>1, TargetServedFits, StayFits DEF Fits, Served
  <2>2. CASE ValidateServed(c)
    <3>1. UNCHANGED <<manager, app, runs, reviews, targets, staleWrite>>
      BY <2>2 DEF ValidateServed, ManagerStep, scanVars
    <3> QED
      BY <1>2, <2>2, <3>1, ValidateServedFits, StayFits DEF Fits, Served
  <2> QED
    BY <1>2, <2>1, <2>2 DEF ManagerServing
<1>3. CASE ClientSteps /\ UNCHANGED <<scanVars, panels, managerVars>>
  <2>1. UNCHANGED <<app, runs, reviews, panels, manager, targets, staleWrite>>
    BY <1>3 DEF scanVars, managerVars
  <2> QED
    BY <1>3, <2>1, ClientMoves, StayFits DEF Fits
<1>4. ASSUME NEW s \in Scans, RunEnds(s), UNCHANGED <<panels, managerVars>>
      PROVE  Fits
  <2>1. RunsFit
    BY <1>4, RunEndsFit DEF ITypes, TypeOK, RunsTyped
  <2>2. UNCHANGED <<app, call, cached, permitted, faults, panels, manager, targets, staleWrite>>
    BY <1>4 DEF RunEnds, clientVars, managerVars
  <2> QED
    BY <2>1, <2>2, StayFits DEF Fits
<1> QED
  BY <1>1, <1>2, <1>3, <1>4 DEF Handle

(* The shell's continuations do. *)
LEMMA ScanContinuesFits ==
    ASSUME ITypes, NEW c \in Slots, ScanContinues(c), UNCHANGED <<panels, managerVars>>
    PROVE  Fits
<1>1. UNCHANGED <<panels, manager, targets, staleWrite, runs, reviews>>
  BY DEF managerVars, scanVars, ScanContinues, ScanAnswered, StopAnswered, TriageAnswered, ScansListed,
         FindingsLoaded, HistoryLoaded, LoadFails
<1>2. AppFits(app') /\ CallFits' /\ Kept
  <2>1. CASE ScanAnswered(c)
    BY <2>1, ScanAnsweredFits DEF FreedAt
  <2>2. CASE StopAnswered(c)
    BY <2>2, StopAnsweredFits DEF FreedAt
  <2>3. CASE TriageAnswered(c)
    <3>1. UNCHANGED app
      BY <2>3 DEF TriageAnswered, scanVars
    <3> QED
      BY <2>3, <3>1, TriageAnsweredFits, StayFits DEF FreedAt, MovedAt
  <2>4. CASE ScansListed(c)
    BY <2>4, ScansListedFits DEF FreedAt
  <2>5. CASE FindingsLoaded(c)
    BY <2>5, FindingsLoadedFits DEF FreedAt, MovedAt
  <2>6. CASE HistoryLoaded(c)
    BY <2>6, HistoryLoadedFits DEF FreedAt
  <2>7. CASE LoadFails(c)
    BY <2>7, LoadFailsFits DEF FreedAt
  <2> QED
    BY <2>1, <2>2, <2>3, <2>4, <2>5, <2>6, <2>7 DEF ScanContinues
<1>3. ClientFits
  <2>1. UNCHANGED <<cached, permitted>> /\ (Fault \/ UNCHANGED faults)
    BY DEF ScanContinues, ScanAnswered, StopAnswered, TriageAnswered, ScansListed,
           FindingsLoaded, HistoryLoaded, LoadFails
  <2> QED
    BY <2>1, StillTyped
<1> QED
  BY <1>1, <1>2, <1>3, StayFits DEF Fits

(* The Targets view's continuations do. *)
LEMMA ManagerContinuesFits ==
    ASSUME ITypes, NEW c \in Slots, ManagerContinues(c), UNCHANGED panels
    PROVE  Fits
<1>1. UNCHANGED <<runs, reviews, targets, staleWrite>>
  BY DEF ManagerContinues, TargetAnswered, TargetsListed, ValidateAfterSave, OffersLoaded,
         AgentsAnswered, Validated, TargetScanAnswered, ManagerStep, scanVars, managerVars
<1>2. ClientFits
  <2>1. UNCHANGED <<cached, permitted>> /\ (Fault \/ UNCHANGED faults)
    BY DEF ManagerContinues, TargetAnswered, TargetsListed, ValidateAfterSave, OffersLoaded,
           AgentsAnswered, Validated, TargetScanAnswered, ManagerStep
  <2> QED
    BY <2>1, StillTyped
<1>3. CASE OffersLoaded(c)
  <2>1. UNCHANGED manager
    BY <1>3 DEF OffersLoaded, managerVars
  <2> QED
    BY <1>1, <1>2, <1>3, <2>1, OffersLoadedFits, StayFits DEF Fits, FreedAt
<1>4. CASE ~OffersLoaded(c)
  <2>1. UNCHANGED app
    BY <1>4 DEF ManagerContinues, TargetAnswered, TargetsListed, ValidateAfterSave,
         AgentsAnswered, Validated, TargetScanAnswered, ManagerStep, scanVars
  <2>2. manager' \in Manager /\ CallFits' /\ Kept
    <3>1. CASE TargetAnswered(c)
      BY <3>1, TargetAnsweredFits DEF FreedAt, MovedAt
    <3>2. CASE TargetsListed(c)
      BY <3>2, TargetsListedFits
    <3>3. CASE ValidateAfterSave(c)
      BY <3>3, ValidateAfterSaveFits, StayFits
    <3>4. CASE AgentsAnswered(c)
      BY <3>4, AgentsAnsweredFits DEF FreedAt
    <3>5. CASE Validated(c) \/ TargetScanAnswered(c)
      BY <3>5, ValidatedFits DEF FreedAt
    <3> QED
      BY <1>4, <3>1, <3>2, <3>3, <3>4, <3>5 DEF ManagerContinues
  <2> QED
    BY <1>1, <1>2, <2>1, <2>2, StayFits DEF Fits
<1> QED
  BY <1>3, <1>4

(* Every continuation does. *)
LEMMA ContinueFits ==
    ASSUME ITypes, Continue
    PROVE  Fits
<1>1. ASSUME NEW c \in Slots, PanelsContinue(c), UNCHANGED managerVars
      PROVE  Fits
  <2>1. UNCHANGED <<app, runs, reviews, manager, targets, staleWrite>>
    BY <1>1 DEF PanelsContinue, LookupAnswered, ChatAnswered, PanelsStep, scanVars, managerVars
  <2>2. panels' \in Panels /\ FreedAt(c) /\ ClientFits
    <3>1. CASE LookupAnswered(c)
      BY <3>1, LookupAnsweredFits
    <3>2. CASE ChatAnswered(c)
      BY <3>2, ChatAnsweredFits, StayFits DEF ChatAnswered, PanelsStep
    <3> QED
      BY <1>1, <3>1, <3>2 DEF PanelsContinue
  <2> QED
    BY <2>1, <2>2, StayFits DEF Fits, FreedAt
<1>2. CASE StreamEnds /\ UNCHANGED <<panels, managerVars>>
  <2>1. UNCHANGED <<runs, reviews, cached, permitted, faults, panels, manager, targets, staleWrite>>
    BY <1>2 DEF StreamEnds, managerVars
  <2> QED
    BY <1>2, <2>1, StreamEndsFits, StayFits DEF Fits
<1>3. CASE ManagerStreamEnds /\ UNCHANGED panels
  <2>1. UNCHANGED <<app, runs, reviews, cached, permitted, faults, panels, targets, staleWrite>>
    BY <1>3 DEF ManagerStreamEnds, ManagerStep, scanVars
  <2> QED
    BY <1>3, <2>1, ManagerStreamEndsFits, StayFits DEF Fits
<1> QED
  BY <1>1, <1>2, <1>3, ScanContinuesFits, ManagerContinuesFits DEF Continue

(* Every step keeps the types, the order of the scans and the calls' promises. *)
LEMMA TypesStep ==
    ASSUME ITypes, [Next]_vars
    PROVE  ITypes' /\ Fits
<1>1. CASE UNCHANGED vars
  <2>1. /\ UNCHANGED <<call, cached, permitted, faults, app, runs, reviews, panels>>
        /\ UNCHANGED <<manager, targets, staleWrite, gestures>>
    BY <1>1 DEF vars, clientVars, scanVars, managerVars
  <2>2. Fits
    BY <2>1, StayFits DEF Fits
  <2> QED
    BY <2>1, <2>2 DEF Fits, ITypes, TypeOK, AppFits, RunsFit, RunsTyped, RegistryFits, ClientFits
<1>2. CASE Next
  <2>1. Fits /\ gestures' \in 0..MaxGestures
    <3>0. gestures \in 0..MaxGestures
      BY DEF ITypes, TypeOK
    <3>1. CASE React
      BY <3>0, <3>1, ReactFits DEF React
    <3>2. CASE Operate
      <4>1. gestures' \in 0..MaxGestures
        BY <3>0, <3>2, GesturesAssumption DEF Operate
      <4> QED
        BY <3>2, <4>1, ScanActsFit, PanelsActFit, ManagerActsFit DEF Operate
    <3>3. CASE Handle
      BY <3>0, <3>3, HandleFits DEF Handle
    <3>4. CASE Continue
      BY <3>0, <3>4, ContinueFits DEF Continue
    <3> QED
      BY <1>2, <3>1, <3>2, <3>3, <3>4 DEF Next
  <2> QED
    BY <2>1 DEF Fits, ITypes, TypeOK, AppFits, RunsFit, RunsTyped, RegistryFits, ClientFits
<1> QED
  BY <1>1, <1>2

(* The runs of an earlier session are the first ones, and alike. *)
LEMMA BeforeFits ==
    ASSUME NEW n \in Nat, n \in Scans, NEW at \in ScanRunState \union {"none"},
           NEW found \in SUBSET Findings, runs = Before(n, at, found)
    PROVE  /\ runs \in [Scans -> Run] /\ InOrder
           /\ \A s \in Scans : s <= n => runs[s] = [at |-> at, stop |-> FALSE, found |-> found]
           /\ \A s \in Scans : ~(s <= n) => runs[s] = NoRun
<1>1. [at |-> at, stop |-> FALSE, found |-> found] \in Run /\ NoRun \in Run
  BY DEF Run, NoRun
<1>2. runs \in [Scans -> Run]
  BY <1>1 DEF Before
<1>3. /\ \A s \in Scans : s <= n => runs[s] = [at |-> at, stop |-> FALSE, found |-> found]
      /\ \A s \in Scans : ~(s <= n) => runs[s] = NoRun
  BY DEF Before
<1>4. PICK k \in Nat : Scans = 1..k
  BY ScanAssumption, FS_CardinalityType
<1>5. InOrder
  <2>1. CASE at = "none"
    <3>1. Created = {}
      <4>1. ASSUME NEW s \in Scans
            PROVE  runs[s].at = "none"
        <5>1. CASE s <= n
          <6>1. runs[s] = [at |-> at, stop |-> FALSE, found |-> found]
            BY <1>3, <5>1
          <6> QED
            BY <2>1, <6>1
        <5>2. CASE ~(s <= n)
          <6>1. runs[s] = NoRun
            BY <1>3, <5>2
          <6> QED
            BY <6>1 DEF NoRun
        <5> QED
          BY <5>1, <5>2
      <4> QED
        BY <4>1 DEF Created
    <3>2. {} = 1..0
      OBVIOUS
    <3> QED
      BY <3>1, <3>2 DEF InOrder
  <2>2. CASE at # "none"
    <3>1. \A s \in Scans : s \in Created <=> s <= n
      BY <1>3, <2>2 DEF Created, NoRun
    <3>2. Created \subseteq Scans
      BY DEF Created
    <3>3. Created = 1..n
      <4>1. n \in 1..k
        BY <1>4
      <4>2. \A s : s \in Created <=> s \in 1..k /\ s <= n
        BY <1>4, <3>1, <3>2
      <4>3. \A s : s \in 1..n <=> s \in 1..k /\ s <= n
        BY <4>1
      <4> QED
        BY <4>2, <4>3
    <3> QED
      BY <3>3 DEF InOrder
  <2> QED
    BY <2>1, <2>2
<1> QED
  BY <1>2, <1>3, <1>5

(* The registry that the server stored has every target but the new one. *)
LEMMA StoredFits ==
    ASSUME NEW form \in {"old", "alias"}, targets = Stored(form)
    PROVE  /\ targets \in [TargetIds -> Urls \union {None}]
           /\ \A t \in TargetIds : targets[t] = IF t = NewId THEN None ELSE <<form, t>>
BY TargetsAssumption DEF Stored

(* A shell that has loaded its targets shows the same scan. *)
LEMMA LoadedFits ==
    ASSUME NEW state \in App
    PROVE  /\ Loaded(state) \in App /\ SameControls(Loaded(state), state) /\ SameShown(Loaded(state), state)
           /\ Loaded(state).selected = state.selected /\ Loaded(state).view = state.view
<1> DEFINE ids == Records(targets)
           first == FirstOf(ids)
<1>1. ids \in SUBSET TargetIds /\ (ids = {} => first = None) /\ (ids # {} => first \in ids)
  BY FirstOfIn DEF Records
<1>2. Loaded(state) = [state EXCEPT !.offers = ids, !.target = first]
  BY DEF Loaded
<1>3. first \in TargetIds \union {None}
  BY <1>1
<1> HIDE DEF ids, first
<1>4. Loaded(state) \in App
  BY <1>1, <1>2, <1>3 DEF App
<1>5. /\ SameControls(Loaded(state), state) /\ SameShown(Loaded(state), state)
      /\ Loaded(state).selected = state.selected /\ Loaded(state).view = state.view
  BY <1>2 DEF App, SameControls, SameShown
<1> QED
  BY <1>4, <1>5

(* The console as it opens. *)
LEMMA OpeningFits ==
    ASSUME Opening, targets \in [TargetIds -> Urls \union {None}]
    PROVE  /\ runs \in [Scans -> Run] /\ InOrder /\ AppFits(app) /\ panels \in Panels /\ CallFits
           /\ gestures \in 0..MaxGestures /\ panels = NewPanels
           /\ app.active = NoScan /\ app.from = NoScan /\ app.stream = NoScan /\ ~app.scanning
           /\ app.loading = TRUE /\ app.selected = None /\ app.status = NothingShown
           /\ app.view = "overview"
           /\ \A c \in Slots : call[c] = Idle \/ (call[c].task = "mount" /\ call[c].at = "scans"
                                                  /\ call[c].effects = 0)
<1>1. /\ runs \in [Scans -> Run] /\ InOrder
  <2>1. PICK at \in {"none", "running", "completed", "failed"}, found \in {{}, Findings} :
           runs = Before(1, at, found)
    BY DEF Opening
  <2>2. at \in ScanRunState \union {"none"} /\ found \in SUBSET Findings /\ 1 \in Scans /\ 1 \in Nat
    BY <2>1, ScansThere DEF ScanRunState
  <2> DEFINE n == 1
  <2>3. runs = Before(n, at, found) /\ n \in Scans /\ n \in Nat
    BY <2>1, <2>2
  <2> HIDE DEF n
  <2> QED
    BY <2>2, <2>3, BeforeFits
<1> DEFINE a == [NewApp("overview") EXCEPT !.loading = TRUE]
<1>2. /\ a \in App /\ a.selected = None /\ a.status = NothingShown /\ a.active = NoScan
      /\ a.from = NoScan /\ a.stream = NoScan /\ a.scanning = FALSE /\ a.loading = TRUE
      /\ a.view = "overview"
  BY DEF NewApp, App, NothingShown, Views
<1>3. app = Loaded(a)
  BY DEF Opening
<1> HIDE DEF a
<1>4. /\ app \in App /\ SameControls(app, a) /\ SameShown(app, a) /\ app.selected = a.selected
      /\ app.view = a.view
  BY <1>2, <1>3, LoadedFits
<1>5. AppFits(app)
  BY <1>2, <1>4 DEF AppFits, Selected, SameShown, NothingShown
<1>6. panels \in Panels
  BY DEF Opening, NewPanels, Panels
<1>7. CallFits /\ \A c \in Slots : call[c] = Idle \/ (call[c].task = "mount" /\ call[c].at = "scans"
                                                     /\ call[c].effects = 0)
  <2>1. PICK m \in Slots :
          call = [c \in Slots |-> IF c = m THEN Call("mount", NoScan, "scans") ELSE Idle]
    BY DEF Opening
  <2> DEFINE task == "mount"
             at == "scans"
             of == NoScan
             v == Call(task, of, at)
  <2>2. task \in Tasks /\ at \in Steps /\ of \in Subjects
    BY DEF Tasks, ShellTasks, Steps, Subjects
  <2>3. Fresh(v, task, of, at)
    BY <2>2, Made
  <2>4. call = [c \in Slots |-> IF c = m THEN v ELSE Idle]
    BY <2>1
  <2> HIDE DEF v
  <2>5. About(v)
    BY <2>3 DEF Fresh, About, ListTasks, ManagerTasks, Lookups
  <2>6. v \in Requests /\ v.task = "mount" /\ v.at = "scans" /\ v.effects = 0
    BY <2>3, <2>5, Read DEF Fresh
  <2> QED
    BY <2>4, <2>6 DEF CallFits
<1>8. gestures \in 0..MaxGestures
  BY GesturesAssumption DEF Opening
<1> QED
  BY <1>1, <1>2, <1>4, <1>5, <1>6, <1>7, <1>8 DEF SameControls, SameShown, Opening

(* The workspace with a reason asked for is well typed. *)
LEMMA DecidingFits ==
    ASSUME AppFits(app), Mounted, RunsTyped
    PROVE  Deciding \in Panels
<1>1. app.selected \in Findings /\ Key \in Keys /\ Explained \in Findings \X FindingStatus
  BY MountedTyped
<1> DEFINE f == app.selected
           ran == [explain |-> Explained, cve |-> f, chat |-> None, evidence |-> Key]
           reason == [finding |-> f, status |-> "accepted_risk"]
<1>2. ran \in Ran
  BY <1>1 DEF Ran
<1>3. reason \in Reason
  BY <1>1 DEF Reason, NeedsReason
<1>4. Deciding = [NewPanels EXCEPT !.mounted = TRUE, !.ran = ran, !.pending = "accepted_risk",
                                   !.reason = reason]
  BY DEF Deciding
<1>5. NewPanels \in Panels
  BY DEF NewPanels, Panels
<1> HIDE DEF ran, reason
<1>6. "accepted_risk" \in NeedsReason \union {None}
  BY DEF NeedsReason
<1> QED
  BY <1>2, <1>3, <1>4, <1>5, <1>6, PanelsAre

(* The console while a completed scan is reviewed. *)
LEMMA ReviewingFits ==
    ASSUME Reviewing, targets \in [TargetIds -> Urls \union {None}],
           reviews \in [Scans -> [Findings -> FindingStatus]]
    PROVE  /\ runs = Before(1, "completed", Findings)
           /\ runs \in [Scans -> Run] /\ InOrder /\ AppFits(app) /\ panels \in Panels /\ CallFits
           /\ gestures \in 0..MaxGestures
           /\ app.active = 1 /\ app.activeStatus = "completed" /\ app.from = 1
           /\ app.stream = NoScan /\ ~app.scanning /\ ~app.loading /\ ShownIds(app) = Findings
           /\ \A c \in Slots : call[c] = Idle
<1>1. /\ runs \in [Scans -> Run] /\ InOrder
  <2> DEFINE n == 1
             at == "completed"
             found == Findings
  <2>1. /\ runs = Before(n, at, found) /\ n \in Scans /\ n \in Nat
        /\ at \in ScanRunState \union {"none"} /\ found \in SUBSET Findings
    BY ScansThere DEF ScanRunState, Reviewing
  <2> HIDE DEF n, at, found
  <2> QED
    BY <2>1, BeforeFits
<1> DEFINE first == FirstOf(Findings)
           shown == [f \in Findings |-> "open"]
           a == [NewApp("workspace") EXCEPT
                 !.active = 1, !.activeStatus = "completed", !.from = 1,
                 !.status = shown, !.selected = first]
<1>2. first \in Findings \union {None} /\ shown \in [Findings -> FindingStatus \union {None}]
      /\ (first # None => first \in Findings)
  BY FirstOfIn DEF FindingStatus
<1>3. \A f \in Findings : shown[f] # None
  BY ScanAssumption DEF FindingStatus
<1>4. app = Loaded(a)
  BY DEF Reviewing
<1>5. "completed" \in ScanRunState /\ 1 \in Scans /\ "workspace" \in Views
  BY ScansThere DEF ScanRunState, Views
<1>6. a = [NewApp("workspace") EXCEPT !.active = 1, !.activeStatus = "completed", !.from = 1,
                                      !.status = shown, !.selected = first]
  OBVIOUS
<1> HIDE DEF first, shown, a
<1>7. NewApp("workspace") \in App /\ NewApp("workspace").stream = NoScan
      /\ NewApp("workspace").scanning = FALSE /\ NewApp("workspace").loading = FALSE
  BY <1>5 DEF NewApp, App, NothingShown
<1>8. /\ a \in App /\ a.active = 1 /\ a.activeStatus = "completed" /\ a.from = 1 /\ a.status = shown
      /\ a.selected = first /\ a.stream = NoScan /\ a.scanning = FALSE /\ a.loading = FALSE
  BY <1>2, <1>5, <1>6, <1>7 DEF App
<1>9. /\ app \in App /\ SameControls(app, a) /\ SameShown(app, a) /\ app.selected = a.selected
  BY <1>4, <1>8, LoadedFits
<1>10. AppFits(app)
  BY <1>2, <1>3, <1>5, <1>8, <1>9, ScansThere DEF AppFits, Selected, SameShown
<1>11. ShownIds(app) = Findings
  BY <1>3, <1>8, <1>9 DEF ShownIds, SameShown
<1>12. panels \in Panels /\ gestures \in 0..MaxGestures
  <2>1. NewPanels \in Panels
    BY DEF NewPanels, Panels
  <2>2. 0 \in 0..MaxGestures /\ 1 \in 0..MaxGestures
    BY GesturesAssumption
  <2>3. RunsTyped
    BY <1>1 DEF RunsTyped
  <2> QED
    BY <1>10, <2>1, <2>2, <2>3, DecidingFits DEF Reviewing
<1> QED
  BY <1>1, <1>8, <1>9, <1>10, <1>11, <1>12 DEF SameControls, SameShown, Reviewing, CallFits

(* The console while targets are edited. *)
LEMMA ConfiguringFits ==
    ASSUME Configuring, targets \in [TargetIds -> Urls \union {None}]
    PROVE  /\ runs = Before(2, "completed", {})
           /\ runs \in [Scans -> Run] /\ InOrder /\ AppFits(app) /\ panels \in Panels /\ CallFits
           /\ gestures \in 0..MaxGestures /\ panels = NewPanels
           /\ app.active = 2 /\ app.activeStatus = "completed" /\ app.from = 2
           /\ app.stream = NoScan /\ ~app.scanning /\ ~app.loading /\ app.status = NothingShown
           /\ app.selected = None
           /\ \A c \in Slots : call[c] = Idle
<1>1. /\ runs \in [Scans -> Run] /\ InOrder
  <2> DEFINE n == 2
             at == "completed"
             found == {}
  <2>1. /\ runs = Before(n, at, found) /\ n \in Scans /\ n \in Nat
        /\ at \in ScanRunState \union {"none"} /\ found \in SUBSET Findings
    BY ScansThere DEF ScanRunState, Configuring
  <2> HIDE DEF n, at, found
  <2> QED
    BY <2>1, BeforeFits
<1> DEFINE a == [NewApp("targets") EXCEPT !.active = 2, !.activeStatus = "completed", !.from = 2]
<1>2. "completed" \in ScanRunState /\ 2 \in Scans /\ "targets" \in Views
  BY ScansThere DEF ScanRunState, Views
<1>3. /\ a \in App /\ a.active = 2 /\ a.activeStatus = "completed" /\ a.from = 2
      /\ a.status = NothingShown
      /\ a.selected = None /\ a.stream = NoScan /\ a.scanning = FALSE /\ a.loading = FALSE
  BY <1>2 DEF NewApp, App, NothingShown
<1>4. app = Loaded(a)
  BY DEF Configuring
<1> HIDE DEF a
<1>5. /\ app \in App /\ SameControls(app, a) /\ SameShown(app, a) /\ app.selected = a.selected
  BY <1>3, <1>4, LoadedFits
<1>6. AppFits(app)
  BY <1>3, <1>5 DEF AppFits, Selected, SameShown, NothingShown
<1>7. panels \in Panels
  BY DEF Configuring, NewPanels, Panels
<1> QED
  BY <1>1, <1>3, <1>5, <1>6, <1>7, GesturesAssumption DEF SameControls, SameShown, Configuring, CallFits

(* All of these are well typed. *)
LEMMA InitTypes ==
    ASSUME Init
    PROVE  ITypes
<1>1. reviews \in [Scans -> [Findings -> FindingStatus]] /\ staleWrite \in BOOLEAN
  BY DEF Init, FindingStatus
<1>2. manager \in Manager
  BY UrlsThere DEF Init, NewManager, Manager
<1>3. cached \in Held /\ permitted \in BOOLEAN /\ faults \in 0..MaxFaults
  <2>1. \E copies \in {{"none"}, {"none", "valid"}} : ClientInit(copies)
    BY DEF Init
  <2>2. /\ cached \in Held /\ (permitted = TRUE \/ permitted = FALSE)
        /\ (faults = 0 \/ faults = 1)
    BY <2>1 DEF ClientInit, Held
  <2>3. faults \in 0..MaxFaults
    BY <2>2, ClientAssumption
  <2> QED
    BY <2>2, <2>3
<1>4. targets \in [TargetIds -> Urls \union {None}]
  <2>1. \E form \in {"old", "alias"} : targets = Stored(form)
    BY DEF Init, Opening, Reviewing, Configuring
  <2> QED
    BY <2>1, StoredFits
<1>5. /\ runs \in [Scans -> Run] /\ InOrder /\ AppFits(app) /\ panels \in Panels /\ CallFits
      /\ gestures \in 0..MaxGestures
  BY <1>1, <1>4, OpeningFits, ReviewingFits, ConfiguringFits DEF Init
<1> QED
  BY <1>1, <1>2, <1>3, <1>4, <1>5 DEF ITypes, TypeOK, AppFits

(* Every variable keeps its type: in particular the calls of the console keep to *)
(* the routes of their tasks, and the scans the shell and the panels are about    *)
(* are scans of the server.                                                       *)
THEOREM TypeCorrect == Spec => []TypeOK
<1>1. Init => ITypes
  BY InitTypes
<1>2. ITypes /\ [Next]_vars => ITypes'
  BY TypesStep
<1>3. ITypes => TypeOK
  BY DEF ITypes
<1> QED
  BY <1>1, <1>2, <1>3, PTL DEF Spec
-----------------------------------------------------------------------------
(* The promise of a call: how each slot appears to the caller. *)

Looks(c, status, times) == CallStatus[c] = status /\ CallEffects[c] = times

(* How a slot looks to the promise, by the step its call is at. *)
LEMMA SlotLooks ==
    ASSUME CallFits, NEW c \in Slots
    PROVE  /\ Silent(call[c]) => Looks(c, "idle", 0)
           /\ call[c].at \in Sending => Looks(c, "asked", 0)
           /\ call[c].at = "answered" =>
                /\ Looks(c, call[c].end, call[c].effects)
                /\ call[c].end \in {"done", "failed", "refused"} /\ call[c].effects \in {0, 1}
                /\ call[c].end = "done" => call[c].effects = 1
                /\ call[c].end = "refused" => call[c].effects = 0
<1>1. CASE call[c] = Idle
  <2>1. call[c].at = "idle"
    BY <1>1 DEF Idle
  <2>2. CallStatus[c] = "idle" /\ CallEffects[c] = 0
    BY <1>1, <2>1 DEF CallStatus, CallEffects, Sending
  <2> QED
    BY <2>1, <2>2 DEF Looks, Silent, Asking, Sending
<1>2. CASE call[c] \in Requests
  <2>1. call[c] # Idle /\ Counts(call[c]) /\ call[c].effects \in {0, 1}
    BY <1>2, NotIdle DEF Requests, Shape
  <2>2. CallEffects[c] = call[c].effects
    BY <2>1 DEF CallEffects
  <2>3. /\ call[c].at \in Sending => CallStatus[c] = "asked"
        /\ call[c].at = "answered" => CallStatus[c] = call[c].end
        /\ call[c].at \notin Asking => CallStatus[c] = "idle"
    BY DEF CallStatus, Sending, Asking
  <2> QED
    BY <2>1, <2>2, <2>3 DEF Looks, Silent, Counts, Asking, Sending
<1> QED
  BY <1>1, <1>2 DEF CallFits

(* A call that keeps its promise moves as MutationCall does, or not at all. *)
LEMMA SlotKeeps ==
    ASSUME CallFits, CallFits', NEW c \in Slots, Keeps(call[c], call'[c])
    PROVE  UNCHANGED <<CallStatus[c], CallEffects[c]>> \/ Promise!Step(c)
<1>0. CallFits' => /\ Silent(call'[c]) => Looks(c, "idle", 0)'
                   /\ call'[c].at \in Sending => Looks(c, "asked", 0)'
                   /\ call'[c].at = "answered" =>
                        /\ CallStatus'[c] = call'[c].end /\ CallEffects'[c] = call'[c].effects
                        /\ call'[c].end \in {"done", "failed", "refused"} /\ call'[c].effects \in {0, 1}
                        /\ call'[c].end = "done" => call'[c].effects = 1
                        /\ call'[c].end = "refused" => call'[c].effects = 0
  <2>1. (CallFits => /\ Silent(call[c]) => Looks(c, "idle", 0)
                     /\ call[c].at \in Sending => Looks(c, "asked", 0)
                     /\ call[c].at = "answered" =>
                          /\ Looks(c, call[c].end, call[c].effects)
                          /\ call[c].end \in {"done", "failed", "refused"} /\ call[c].effects \in {0, 1}
                          /\ call[c].end = "done" => call[c].effects = 1
                          /\ call[c].end = "refused" => call[c].effects = 0)'
    BY SlotLooks, PTL
  <2> QED
    BY <2>1 DEF Looks, Silent
<1>1. CASE Silent(call[c]) /\ Silent(call'[c])
  BY <1>0, <1>1, SlotLooks DEF Looks
<1>2. CASE Silent(call[c]) /\ call'[c].at \in Sending
  <2>1. Promise!Ask(c)
    BY <1>0, <1>2, SlotLooks DEF Looks, Promise!Ask, Promise!Goes
  <2> QED
    BY <2>1 DEF Promise!Step
<1>3. CASE call[c].at \in Sending /\ call'[c].at \in Sending
  BY <1>0, <1>3, SlotLooks DEF Looks
<1>4. CASE /\ call[c].at \in Sending /\ call'[c].at = "answered"
           /\ call'[c].end = "refused" => ~permitted \/ call[c].lapsed
  <2>1. CallStatus[c] = "asked"
    BY <1>4, SlotLooks DEF Looks
  <2>2. /\ CallStatus'[c] = call'[c].end /\ CallEffects'[c] = call'[c].effects
        /\ call'[c].end \in {"done", "failed", "refused"} /\ call'[c].effects \in {0, 1}
        /\ call'[c].end = "done" => call'[c].effects = 1
        /\ call'[c].end = "refused" => call'[c].effects = 0
    BY <1>0, <1>4
  <2>3. CASE call'[c].end = "done"
    BY <2>1, <2>2, <2>3 DEF Promise!Step, Promise!Succeed, Promise!Goes
  <2>4. CASE call'[c].end = "failed"
    <3>1. call'[c].effects \in 0..1
      BY <2>2
    <3> QED
      BY <2>1, <2>2, <2>4, <3>1 DEF Promise!Step, Promise!Fail, Promise!Goes
  <2>5. CASE call'[c].end = "refused"
    <3>1. call[c] # Idle
      BY <1>4 DEF Idle, Sending
    <3>2. CallExcused[c]
      BY <1>4, <2>5, <3>1 DEF CallExcused
    <3>3. Promise!Refuse(c)
      BY <2>1, <2>2, <2>5, <3>2 DEF Promise!Refuse, Promise!Goes
    <3> QED
      BY <3>3 DEF Promise!Step
  <2> QED
    BY <2>2, <2>3, <2>4, <2>5
<1>5. CASE call[c].at = "answered" /\ Silent(call'[c])
  <2>1. Promise!Settle(c)
    BY <1>0, <1>5, SlotLooks DEF Looks, Promise!Settle, Promise!Goes
  <2> QED
    BY <2>1 DEF Promise!Step
<1>6. CASE /\ call[c].at = "answered" /\ call'[c].at = "answered" /\ call'[c].end = call[c].end
           /\ call'[c].effects = call[c].effects
  BY <1>0, <1>6, SlotLooks DEF Looks
<1> QED
  BY <1>1, <1>2, <1>3, <1>4, <1>5, <1>6 DEF Keeps

(* The calls begin as those of MutationCall. *)
LEMMA PromiseStarts == ASSUME Init PROVE Promise!Init
<1>1. CallFits
  BY InitTypes DEF ITypes
<1>2. ASSUME NEW c \in Slots PROVE Silent(call[c])
  <2>1. call[c] = Idle \/ call[c] = Call("mount", NoScan, "scans")
    BY DEF Init, Opening, Reviewing, Configuring
  <2> QED
    BY <2>1 DEF Silent, Idle, Call, Asking, Sending
<1>3. \A c \in Slots : CallStatus[c] = "idle" /\ CallEffects[c] = 0
  BY <1>1, <1>2, SlotLooks DEF Looks
<1> QED
  BY <1>3 DEF Promise!Init, CallStatus, CallEffects

(* api.ts:66-112: the client keeps the promise of MutationCall, whatever tokens *)
(* lapse, answers are lost and handlers refuse, in every order: a retry never    *)
(* carries a change out twice, and an outdated token alone fails no call.        *)
THEOREM ClientKeepsPromise == Spec => PromiseKept
<1>1. Init => Promise!Init
  BY PromiseStarts
<1>2. ITypes /\ [Next]_vars => [Promise!Next]_<<CallStatus, CallEffects>>
  <2> SUFFICES ASSUME ITypes, [Next]_vars
               PROVE  Promise!Next
    OBVIOUS
  <2>1. CallFits /\ CallFits' /\ Kept
    BY TypesStep DEF ITypes, Fits
  <2> QED
    BY <2>1, SlotKeeps DEF Kept, Promise!Next
<1>3. Init => ITypes
  BY InitTypes
<1>4. ITypes /\ [Next]_vars => ITypes'
  BY TypesStep
<1> QED
  BY <1>1, <1>2, <1>3, <1>4, PTL DEF Spec, PromiseKept, Promise!Spec
-----------------------------------------------------------------------------
(* What is noted as having been under way at once. *)

IOverlap ==
    /\ Late => "late" \in overlapped
    /\ Creating => "creating" \in overlapped
    /\ Unstarted => "unstarted" \in overlapped
    /\ Misplaced => "artifact" \in overlapped
    /\ Relisted => "typing" \in overlapped

(* What overlaps at the start has been noted. *)
LEMMA InitOverlap == ASSUME Init PROVE IOverlap
<1>1. \A c \in Slots : call[c] = Idle \/ call[c] = Call("mount", NoScan, "scans")
  BY DEF Init, Opening, Reviewing, Configuring
<1>2. Fetching = {} \/ \E c \in Slots : Fetching = {c}
  <2>1. CASE Opening
    <3>1. PICK m \in Slots :
             call = [c \in Slots |-> IF c = m THEN Call("mount", NoScan, "scans") ELSE Idle]
      BY <2>1 DEF Opening
    <3>2. Fetching \subseteq {m}
      BY <3>1 DEF Fetching, Open
    <3> QED
      BY <3>2
  <2>2. CASE Reviewing \/ Configuring
    <3>1. \A c \in Slots : call[c] = Idle
      BY <2>2 DEF Reviewing, Configuring
    <3> QED
      BY <3>1 DEF Fetching, Open
  <2> QED
    BY <2>1, <2>2 DEF Init
<1>3. \A c \in Fetching : Fetching = {c}
  BY <1>2
<1>4. ~app.scanning
  <2>1. targets \in [TargetIds -> Urls \union {None}] /\ reviews \in [Scans -> [Findings -> FindingStatus]]
    BY InitTypes DEF ITypes, TypeOK
  <2> QED
    BY <2>1, OpeningFits, ReviewingFits, ConfiguringFits DEF Init
<1>5. Open({"scan"}) = {} /\ Open({"artifact"}) = {}
  BY <1>1 DEF Open, Call
<1>6. manager.draftId = None
  BY DEF Init, NewManager
<1> QED
  BY <1>3, <1>4, <1>5, <1>6
     DEF IOverlap, Late, Creating, Unstarted, Misplaced, Relisted, Edited

(* What overlaps is noted as it begins, and nothing that was noted is dropped. *)
LEMMA OverlapStep ==
    ASSUME IOverlap, [Next]_vars
    PROVE  /\ IOverlap'
           /\ overlapped \subseteq overlapped'
           /\ Relocked => "relocked" \in overlapped'
           /\ panels.pending # None /\ app'.selected # app.selected => "pending" \in overlapped'
           /\ Edited' /\ manager'.draft # manager.draft /\ Saves' # {} => "typing" \in overlapped'
<1>1. CASE UNCHANGED vars
  <2>1. UNCHANGED <<call, app, panels, manager, overlapped>>
    BY <1>1 DEF vars, clientVars, scanVars, managerVars
  <2>2. /\ Late' = Late /\ Creating' = Creating /\ Unstarted' = Unstarted
        /\ Misplaced' = Misplaced /\ Relisted' = Relisted
    BY <2>1 DEF Late, Creating, Unstarted, Misplaced, Relisted, Edited, Saves, Fetching,
                Open, Key
  <2> QED
    BY <2>1, <2>2 DEF IOverlap, Relocked
<1>2. CASE Next
  <2>1. overlapped' = overlapped \union Overlaps
    BY <1>2 DEF Next
  <2>2. /\ Late' => "late" \in overlapped'
        /\ Creating' => "creating" \in overlapped'
        /\ Unstarted' => "unstarted" \in overlapped'
        /\ Misplaced' => "artifact" \in overlapped'
        /\ Relocked => "relocked" \in overlapped'
        /\ Relisted' => "typing" \in overlapped'
        /\ panels.pending # None /\ app'.selected # app.selected => "pending" \in overlapped'
        /\ Edited' /\ manager'.draft # manager.draft /\ Saves' # {} => "typing" \in overlapped'
    BY <2>1 DEF Overlaps
  <2> QED
    BY <2>1, <2>2 DEF IOverlap
<1> QED
  BY <1>1, <1>2
-----------------------------------------------------------------------------
(* Which component a step is of, and the tasks of the calls it touches. *)

Among(tasks) ==
    \A c \in Slots :
        \/ call'[c] = call[c]
        \/ /\ call[c] = Idle \/ call[c].task \in tasks
           /\ call'[c] = Idle \/ call'[c].task \in tasks

ShellStep ==
    /\ UNCHANGED <<panels, managerVars>>
    /\ \/ ScanActs \/ StreamEnds \/ (\E s \in Scans : RunEnds(s))
       \/ \E c \in Slots : ScanServing(c) \/ ScanContinues(c)

PanelStep ==
    /\ UNCHANGED managerVars
    /\ PanelEffects \/ (Settled /\ PanelsAct) \/ \E c \in Slots : PanelsContinue(c)

ManagerMoves ==
    /\ UNCHANGED panels
    /\ \/ ManagerEffects \/ ManagerActs \/ ManagerStreamEnds
       \/ \E c \in Slots : ManagerServing(c) \/ ManagerContinues(c)

ClientStep == ClientSteps /\ UNCHANGED <<scanVars, panels, managerVars>>

(* A step is of the shell, of the panels, of the Targets view or of the client. *)
LEMMA StepKinds ==
    ASSUME Next
    PROVE  ShellStep \/ PanelStep \/ ManagerMoves \/ ClientStep
<1>1. CASE React
  BY <1>1 DEF React, PanelStep, ManagerMoves
<1>2. CASE Operate
  BY <1>2 DEF Operate, PanelStep, ManagerMoves, ShellStep
<1>3. CASE Handle
  BY <1>3 DEF Handle, ManagerMoves, ShellStep, ClientStep
<1>4. CASE Continue
  BY <1>4 DEF Continue, PanelStep, ManagerMoves, ShellStep
<1> QED
  BY <1>1, <1>2, <1>3, <1>4 DEF Next

(* A step without calls touches those of any tasks. *)
LEMMA AmongStays == ASSUME UNCHANGED call, NEW tasks PROVE Among(tasks)
BY DEF Among

(* A step at one call touches the calls of its task alone. *)
LEMMA AmongAt ==
    ASSUME NEW tasks, NEW c \in Slots, OnlyAt(c), call[c].task \in tasks,
           call'[c] = Idle \/ call'[c].task \in tasks
    PROVE  Among(tasks)
BY DEF Among, OnlyAt

(* So does one that ends it, *)
LEMMA AmongFreed ==
    ASSUME NEW tasks, NEW c \in Slots, FreedAt(c), call[c].task \in tasks
    PROVE  Among(tasks)
BY AmongAt DEF FreedAt

(* that takes it further, *)
LEMMA AmongMoved ==
    ASSUME NEW tasks, NEW c \in Slots, NEW step, MovedAt(c, step), call[c].task \in tasks
    PROVE  Among(tasks)
BY AmongAt DEF MovedAt, SameCall

(* or that serves it. *)
LEMMA AmongServed ==
    ASSUME NEW tasks, NEW c \in Slots, Served(c), call[c].task \in tasks
    PROVE  Among(tasks)
BY AmongAt DEF Served

(* A step that begins a call touches those of its task alone. *)
LEMMA AmongBegan ==
    ASSUME NEW tasks, NEW r, BeganIn(call, r), r.task \in tasks
    PROVE  Among(tasks)
BY DEF Among, BeganIn

(* The same of a call that is described by its fields. *)
LEMMA AmongBegun ==
    ASSUME NEW tasks, NEW task \in tasks, NEW of, NEW saw, NEW steps, Begun(call, task, of, saw, steps)
    PROVE  Among(tasks)
BY AmongBegan DEF Begun

(* A step that drops calls touches those of the tasks it drops. *)
LEMMA AmongDropped ==
    ASSUME NEW tasks, NEW ts \in SUBSET tasks, Dropped(call', ts)
    PROVE  Among(tasks)
<1>1. ASSUME NEW c \in Slots
      PROVE  \/ call'[c] = call[c]
             \/ call[c].task \in tasks /\ call'[c].task \in tasks
  <2>1. CASE call[c] # Idle /\ call[c].task \in ts
    <3>1. call'[c].task = call[c].task
      BY <2>1 DEF Dropped, Same, Fields
    <3> QED
      BY <2>1, <3>1
  <2>2. CASE ~(call[c] # Idle /\ call[c].task \in ts)
    BY <2>2 DEF Dropped
  <2> QED
    BY <2>1, <2>2
<1> QED
  BY <1>1 DEF Among

(* A step that drops calls and begins one touches those of their tasks. *)
LEMMA AmongRestarted ==
    ASSUME NEW tasks, NEW ts \in SUBSET tasks, NEW calls, Dropped(calls, ts),
           NEW task \in tasks, NEW of, NEW saw, NEW steps, Begun(calls, task, of, saw, steps)
    PROVE  Among(tasks)
<1>1. PICK d \in Slots, w \in Requests :
        /\ call[d] = Idle /\ call'[d] = w /\ w.task = task
        /\ \A e \in Slots \ {d} : call'[e] = calls[e]
  BY DEF Begun, BeganIn
<1>2. ASSUME NEW c \in Slots \ {d}
      PROVE  \/ call'[c] = call[c]
             \/ call[c].task \in tasks /\ call'[c].task \in tasks
  <2>0. call'[c] = calls[c]
    BY <1>1
  <2>1. CASE call[c] # Idle /\ call[c].task \in ts
    <3>1. calls[c].task = call[c].task
      BY <2>1 DEF Dropped, Same, Fields
    <3> QED
      BY <2>0, <2>1, <3>1
  <2>2. CASE ~(call[c] # Idle /\ call[c].task \in ts)
    BY <2>0, <2>2 DEF Dropped
  <2> QED
    BY <2>1, <2>2
<1> QED
  BY <1>1, <1>2 DEF Among

OfShell == ShellTasks \union {"targetscan"}

(* The shell touches its own calls alone. *)
LEMMA ShellAmong ==
    ASSUME ITypes, ShellStep
    PROVE  Among(OfShell)
<1>0. /\ "scan" \in OfShell /\ "cancel" \in OfShell /\ "triage" \in OfShell /\ "mount" \in OfShell
      /\ "refresh" \in OfShell /\ "targetscan" \in OfShell
  BY DEF OfShell, ShellTasks
<1>1. CASE ScanActs
  <2>1. CASE StartScan
    BY <1>0, <2>1, StartScanFits, AmongBegun
  <2>2. CASE StopScan
    BY <1>0, <2>2, StopScanFits, AmongBegun
  <2>3. CASE \/ \E v \in Views : Navigate(v)
             \/ \E t \in TargetIds : ChooseTarget(t)
             \/ \E f \in Findings : SelectFinding(f)
    BY <2>3, LooksFits, AmongStays DEF clientVars
  <2> QED
    BY <1>1, <2>1, <2>2, <2>3 DEF ScanActs
<1>2. CASE StreamEnds
  BY <1>0, <1>2, StreamEndsFits, AmongStays, AmongBegan
<1>3. CASE \E s \in Scans : RunEnds(s)
  BY <1>3, AmongStays DEF RunEnds, clientVars
<1>4. CASE \E c \in Slots : ScanServing(c)
  <2>1. PICK c \in Slots : ScanServing(c)
    BY <1>4
  <2>2. Served(c) /\ call[c].task \in OfShell
    BY <1>0, <2>1, ScanCreatedFits, CancelServedFits, TriageServing DEF ScanServing
  <2> QED
    BY <2>2, AmongServed
<1>5. CASE \E c \in Slots : ScanContinues(c)
  <2>1. PICK c \in Slots : ScanContinues(c)
    BY <1>5
  <2>2. CASE ScanAnswered(c) \/ StopAnswered(c) \/ HistoryLoaded(c) \/ LoadFails(c)
    <3>1. FreedAt(c) /\ call[c].task \in OfShell
      BY <1>0, <2>2, ScanAnsweredFits, StopAnsweredFits, HistoryLoadedFits, LoadFailsFits
    <3> QED
      BY <3>1, AmongFreed
  <2>3. CASE TriageAnswered(c)
    BY <1>0, <2>3, TriageAnsweredFits, AmongFreed, AmongMoved
  <2>4. CASE ScansListed(c)
    BY <1>0, <2>4, ScansListedFits, AmongFreed, AmongAt
  <2>5. CASE FindingsLoaded(c)
    BY <1>0, <2>5, FindingsLoadedFits, AmongFreed, AmongMoved
  <2> QED
    BY <2>1, <2>2, <2>3, <2>4, <2>5 DEF ScanContinues
<1> QED
  BY <1>1, <1>2, <1>3, <1>4, <1>5 DEF ShellStep

OfPanels == PanelTasks \union {"triage"}

(* A decision is sent, with the reason that was typed when it needs one. *)
Decides ==
    \E status \in FindingStatus, reason \in Reason \union {None} :
        /\ Patched(status, reason)
        /\ \/ reason = None /\ status \notin NeedsReason
           \/ /\ reason # None /\ reason = panels.reason
              /\ panels.pending # None /\ status = panels.pending

(* The panels touch their reads alone, unless a decision is sent. *)
LEMMA PanelKinds ==
    ASSUME ITypes, PanelStep
    PROVE  (Among(PanelTasks) \/ Decides) /\ UNCHANGED scanVars
<1>0. /\ "explain" \in PanelTasks /\ "cve" \in PanelTasks /\ "evidence" \in PanelTasks
      /\ "artifact" \in PanelTasks /\ "chat" \in PanelTasks
  BY DEF PanelTasks, Lookups
<1>1. CASE PanelEffects
  <2>0. UNCHANGED scanVars
    BY <1>1 DEF PanelEffects, PanelsStep
  <2>1. CASE Unmount
    BY <1>0, <2>0, <2>1, UnmountFits, AmongDropped
  <2>2. CASE ExplainEffect
    <3>1. {"explain"} \in SUBSET PanelTasks
      BY <1>0
    <3> QED
      BY <1>0, <2>0, <2>2, <3>1, ExplainEffectFits, AmongRestarted
  <2>3. CASE CveEffect
    <3>1. {"cve"} \in SUBSET PanelTasks
      BY <1>0
    <3> QED
      BY <1>0, <2>0, <2>3, <3>1, CveEffectFits, AmongRestarted
  <2>4. CASE ChatEffect
    BY <2>0, <2>4, ChatEffectFits, AmongStays
  <2>5. CASE EvidenceEffect
    <3>1. {"evidence"} \in SUBSET PanelTasks
      BY <1>0
    <3> QED
      BY <1>0, <2>0, <2>5, <3>1, EvidenceEffectFits, AmongRestarted, AmongDropped
  <2> QED
    BY <1>1, <2>1, <2>2, <2>3, <2>4, <2>5 DEF PanelEffects
<1>2. CASE PanelsAct
  <2>1. CASE TypeReason \/ CancelReason
    BY <2>1, ReasonActsFit, AmongStays DEF clientVars
  <2>2. CASE ConfirmReason
    <3>1. Patched(panels.pending, panels.reason) /\ panels.pending \in FindingStatus
          /\ panels.reason \in Reason \union {None}
      BY <2>2, ConfirmReasonFits
    <3>2. panels.pending # None /\ panels.reason # None
      BY <2>2 DEF ConfirmReason
    <3> QED
      BY <3>1, <3>2, PatchedFits DEF scanVars, Decides
  <2>3. CASE MarkForReview
    <3>1. Patched("triaged", None) /\ "triaged" \in FindingStatus /\ None \in Reason \union {None}
      BY <2>3 DEF MarkForReview, FindingStatus
    <3>2. "triaged" \notin NeedsReason
      BY DEF NeedsReason
    <3> QED
      BY <3>1, <3>2, PatchedFits DEF scanVars, Decides
  <2>4. CASE ToggleEvidence
    <3>1. {"evidence"} \in SUBSET PanelTasks
      BY <1>0
    <3> QED
      BY <1>0, <2>4, <3>1, ToggleEvidenceFits, AmongBegun, AmongDropped DEF ToggleEvidence, PanelsStep
  <2>5. CASE OpenArtifact
    BY <1>0, <2>5, OpenArtifactFits, AmongBegun, AmongStays DEF OpenArtifact, PanelsStep
  <2>6. CASE Ask
    BY <1>0, <2>6, AskFits, AmongBegun DEF Ask, PanelsStep
  <2>7. CASE \E s \in Statuses : PickStatus(s)
    <3>1. PICK s \in FindingStatus : PickStatus(s)
      BY <2>7, StatusAssumption
    <3>2. None \in Reason \union {None}
      OBVIOUS
    <3>3. CASE Patched(s, None) /\ s \notin NeedsReason
      BY <3>2, <3>3, PatchedFits DEF scanVars, Decides
    <3>4. CASE UNCHANGED <<scanVars, clientVars>>
      BY <3>4, AmongStays DEF clientVars
    <3> QED
      BY <3>1, <3>3, <3>4, PickStatusFits
  <2>8. CASE \E tab \in {"intel", "chat"} : ShowTab(tab)
    <3>1. {"cve", "chat"} \in SUBSET PanelTasks
      BY <1>0
    <3> QED
      BY <2>8, <3>1, ShowTabFits, AmongDropped DEF ShowTab, PanelsStep
  <2> QED
    BY <1>2, <2>1, <2>2, <2>3, <2>4, <2>5, <2>6, <2>7, <2>8 DEF PanelsAct
<1>3. CASE \E c \in Slots : PanelsContinue(c)
  <2>1. PICK c \in Slots : PanelsContinue(c)
    BY <1>3
  <2>2. FreedAt(c) /\ call[c].task \in PanelTasks
    BY <1>0, <2>1, LookupAnsweredFits, ChatAnsweredFits DEF PanelsContinue, PanelTasks
  <2>3. UNCHANGED scanVars
    BY <2>1 DEF PanelsContinue, LookupAnswered, ChatAnswered, PanelsStep
  <2> QED
    BY <2>2, <2>3, AmongFreed
<1> QED
  BY <1>1, <1>2, <1>3 DEF PanelStep

(* What touches few tasks touches no more than many. *)
LEMMA AmongWider ==
    ASSUME NEW few, NEW tasks, few \subseteq tasks, Among(few)
    PROVE  Among(tasks)
BY DEF Among

(* The panels touch their reads and reviews alone. *)
LEMMA PanelAmong ==
    ASSUME ITypes, PanelStep
    PROVE  Among(OfPanels) /\ UNCHANGED scanVars
<1>1. PanelTasks \subseteq OfPanels /\ "triage" \in OfPanels
  BY DEF OfPanels
<1>2. CASE Among(PanelTasks)
  BY <1>1, <1>2, AmongWider, PanelKinds
<1>3. CASE Decides
  BY <1>1, <1>3, PatchedFits, AmongBegun, PanelKinds DEF Decides
<1> QED
  BY <1>2, <1>3, PanelKinds

(* The Targets view touches its calls alone, and shows no other scan. *)
LEMMA ManagerAmong ==
    ASSUME ITypes, ManagerMoves
    PROVE  /\ Among(ListTasks) /\ UNCHANGED <<panels, runs, reviews>>
           /\ AppFits(app') /\ SameControls(app', app) /\ SameShown(app', app)
           /\ app'.selected = app.selected /\ app'.view = app.view
<1>0. /\ ManagerTasks \subseteq ListTasks /\ "offers" \in ListTasks
      /\ {"load", "agents", "save", "drop", "testsave", "validate", "targetscan"} \subseteq ListTasks
  BY DEF ListTasks, ManagerTasks
<1>1. UNCHANGED <<panels, runs, reviews>>
      /\ (UNCHANGED app \/ \E c \in Slots : OffersLoaded(c))
  <2>1. CASE ManagerEffects \/ ManagerActs \/ ManagerStreamEnds
    BY <2>1 DEF ManagerMoves, ManagerEffects, ManagerActs, ManagerStreamEnds, ManagerStep, scanVars
  <2>2. CASE \E c \in Slots : ManagerServing(c)
    BY <2>2 DEF ManagerMoves, ManagerServing, TargetServed, ValidateServed, ManagerStep, scanVars
  <2>3. CASE \E c \in Slots : ManagerContinues(c)
    BY <2>3 DEF ManagerMoves, ManagerContinues, TargetAnswered, TargetsListed, ValidateAfterSave,
                OffersLoaded, AgentsAnswered, Validated, TargetScanAnswered, ManagerStep, scanVars
  <2> QED
    BY <2>1, <2>2, <2>3 DEF ManagerMoves
<1>2. /\ AppFits(app') /\ SameControls(app', app) /\ SameShown(app', app)
      /\ app'.selected = app.selected /\ app'.view = app.view
  <2>1. CASE UNCHANGED app
    BY <2>1 DEF ITypes, SameControls, SameShown
  <2>2. CASE \E c \in Slots : OffersLoaded(c)
    BY <2>2, OffersLoadedFits
  <2> QED
    BY <1>1, <2>1, <2>2
<1>3. Among(ListTasks)
  <2>1. CASE ManagerEffects
    <3>1. CASE MountManager
      BY <1>0, <3>1, MountManagerFits DEF Among
    <3>2. CASE UnmountManager
      BY <1>0, <3>2, UnmountManagerFits, AmongDropped
    <3> QED
      BY <2>1, <3>1, <3>2 DEF ManagerEffects
  <2>2. CASE ManagerActs
    <3>1. CASE AddTarget \/ TypeUrl \/ \E t \in TargetIds : PickTarget(t)
      BY <3>1, AddTargetFits, TypeUrlFits, PickTargetFits, AmongStays
    <3>2. CASE SaveTarget \/ DeleteTarget \/ TestConnectivity \/ StartTargetScan
      <4>1. CASE Begun(call, "targetscan", NoScan, FormSaw, Sending)
        <5>1. "targetscan" \in ListTasks
          BY <1>0
        <5> QED
          BY <4>1, <5>1, AmongBegun
      <4>2. CASE \E task \in {"save", "testsave", "drop", "validate"} :
                    Begun(call, task, manager.draftId, FormSaw, Sending)
        <5>1. PICK task \in {"save", "testsave", "drop", "validate"} :
                    Begun(call, task, manager.draftId, FormSaw, Sending)
          BY <4>2
        <5>2. task \in ListTasks
          BY <1>0
        <5> QED
          BY <5>1, <5>2, AmongBegun
      <4> QED
        BY <3>2, <4>1, <4>2, ButtonsFit
    <3> QED
      BY <2>2, <3>1, <3>2 DEF ManagerActs
  <2>3. CASE ManagerStreamEnds
    BY <2>3, AmongStays DEF ManagerStreamEnds
  <2>4. CASE \E c \in Slots : ManagerServing(c)
    <3>1. PICK c \in Slots : ManagerServing(c)
      BY <2>4
    <3>2. Served(c) /\ call[c].task \in ListTasks
      BY <1>0, <3>1, TargetServedFits, ValidateServedFits DEF ManagerServing
    <3> QED
      BY <3>2, AmongServed
  <2>5. CASE \E c \in Slots : ManagerContinues(c)
    <3>1. PICK c \in Slots : ManagerContinues(c)
      BY <2>5
    <3>2. CASE TargetAnswered(c)
      BY <1>0, <3>2, TargetAnsweredFits, AmongFreed, AmongMoved
    <3>3. CASE TargetsListed(c)
      <4>1. call[c].task \in ListTasks
        BY <1>0, <3>3, TargetsListedFits
      <4>2. CASE /\ call'[c] \in Requests /\ SameCall(call'[c], call[c])
                 /\ \A d \in Slots \ {c} :
                       \/ call'[d] = call[d]
                       \/ call[d] = Idle /\ call'[d] \in Requests /\ call'[d].task = "offers"
        BY <1>0, <4>1, <4>2 DEF Among, SameCall
      <4> QED
        BY <3>3, <4>1, <4>2, TargetsListedFits, AmongFreed, AmongMoved
    <3>4. CASE ValidateAfterSave(c)
      BY <1>0, <3>4, ValidateAfterSaveFits, AmongAt
    <3>5. CASE OffersLoaded(c)
      BY <1>0, <3>5, OffersLoadedFits, AmongFreed
    <3>6. CASE AgentsAnswered(c)
      BY <1>0, <3>6, AgentsAnsweredFits, AmongFreed
    <3>7. CASE Validated(c) \/ TargetScanAnswered(c)
      BY <1>0, <3>7, ValidatedFits, AmongFreed
    <3> QED
      BY <3>1, <3>2, <3>3, <3>4, <3>5, <3>6, <3>7 DEF ManagerContinues
  <2> QED
    BY <2>1, <2>2, <2>3, <2>4, <2>5 DEF ManagerMoves
<1> QED
  BY <1>1, <1>2, <1>3
-----------------------------------------------------------------------------
(* The Targets view: what the draft, the list and the saves are of. *)

OfTarget(url, t) == url[2] \in {None, t} /\ (url = Scaffold => t = NewId)

(* A save the registry has carried out, and not yet listed for. *)
Written(r) == r.at = "list" \/ (r.at = "answered" /\ r.end = "done")

IRegistry ==
    \A t \in TargetIds :
        /\ targets[t] # None => OfTarget(targets[t], t)
        /\ manager.listed[t] # None => OfTarget(manager.listed[t], t)
IDraft ==
    IF manager.draftId = None THEN manager.draft = Scaffold
    ELSE OfTarget(manager.draft, manager.draftId)
(* What the form shows is what would be saved. *)
ILocked == DockerUrl(manager) \in {None, manager.draft} \/ "relocked" \in overlapped
ISaves ==
    \A c \in Saves :
        /\ OfTarget(call[c].saw.url, call[c].of)
        /\ call[c].saw.url = call[c].saw.shown \/ "relocked" \in overlapped
(* The draft that is being edited is the one that a save under way has stored. *)
IEdited ==
    Edited /\ "typing" \notin overlapped =>
        \A c \in Saves : Written(call[c]) => targets[manager.draftId] = manager.draft
IManager == IRegistry /\ IDraft /\ ILocked /\ ISaves /\ IEdited

(* What a step does to the registry, to a save, and to the form. *)

SaveTasks == {"save", "testsave"}

With(t, url) == [u \in TargetIds |-> IF u = t THEN url ELSE targets[u]]

RegistryMove ==
    \/ UNCHANGED targets
    \/ \E c \in Saves : targets' = With(call[c].of, call[c].saw.url)
    \/ \E c \in Open({"drop"}) : targets' = With(call[c].of, None)

SaveMove(c) ==
    Of(call'[c], SaveTasks) =>
        \/ /\ call'[c].at \in Sending /\ call'[c].saw = FormSaw
           /\ call'[c].of = manager.draftId /\ manager.draftId \in TargetIds
        \/ /\ Of(call[c], SaveTasks) /\ call'[c].of = call[c].of /\ call'[c].saw = call[c].saw
           /\ Written(call'[c]) => Written(call[c]) \/ targets' = With(call[c].of, call[c].saw.url)

FormMove ==
    /\ manager'.listed \in {manager.listed, targets, NewManager.listed}
    /\ \/ manager'.draftId = manager.draftId /\ manager'.draft = manager.draft
       \/ manager'.draftId = None /\ manager'.draft = Scaffold
       \/ manager'.draftId = NewId /\ manager'.draft = Scaffold
       \/ /\ manager'.draftId \in TargetIds
          /\ \/ manager'.listed[manager'.draftId] # None
                /\ manager'.draft = manager'.listed[manager'.draftId]
             \/ manager'.draft = Published(manager'.draftId)
             \/ manager'.draft = Typed(manager'.draftId)

(* Docker's URL for the form stays, or is gone, or has become that of the draft. *)
LockMove == DockerUrl(manager)' \in {None, DockerUrl(manager), manager'.draft}

TargetsMove == RegistryMove /\ FormMove /\ \A c \in Slots : SaveMove(c)

(* A call that stays as it is, is no move of a save. *)
LEMMA SaveStays == ASSUME NEW c \in Slots, call'[c] = call[c] PROVE SaveMove(c)
BY DEF SaveMove

(* Nor is a step among calls of other tasks. *)
LEMMA OtherSaves ==
    ASSUME NEW tasks, Among(tasks), SaveTasks \intersect tasks = {}
    PROVE  \A c \in Slots : SaveMove(c)
BY SaveStays DEF Among, SaveMove, Of

(* A step at one call moves at most that save. *)
LEMMA SavedAt ==
    ASSUME NEW c \in Slots, OnlyAt(c), SaveMove(c)
    PROVE  \A d \in Slots : SaveMove(d)
BY SaveStays DEF OnlyAt

(* A form that stays as it is, is a move of the form. *)
LEMMA FormKept ==
    ASSUME SameForm(manager', manager)
    PROVE  FormMove
BY DEF FormMove, SameForm

(* Steps of other components leave the registry, the form and the saves alone. *)
LEMMA OthersMove ==
    ASSUME ITypes, ShellStep \/ PanelStep \/ ClientStep
    PROVE  TargetsMove
<1>1. UNCHANGED managerVars
  BY DEF ShellStep, PanelStep, ClientStep
<1>2. RegistryMove /\ FormMove
  BY <1>1 DEF managerVars, RegistryMove, FormMove
<1>3. CASE ShellStep
  <2>1. SaveTasks \intersect OfShell = {}
    BY DEF SaveTasks, OfShell, ShellTasks
  <2> QED
    BY <1>2, <1>3, <2>1, ShellAmong, OtherSaves DEF TargetsMove
<1>4. CASE PanelStep
  <2>1. SaveTasks \intersect OfPanels = {}
    BY DEF SaveTasks, OfPanels, PanelTasks, Lookups
  <2> QED
    BY <1>2, <1>4, <2>1, PanelAmong, OtherSaves DEF TargetsMove
<1>5. CASE ClientStep
  <2>1. ASSUME NEW c \in Slots PROVE SaveMove(c)
    <3>1. ClientMove(call[c], call'[c])
      BY <1>5, ClientMoves DEF ClientStep
    <3>2. CASE call'[c] = call[c]
      BY <3>2, SaveStays
    <3>3. CASE call'[c] # call[c]
      <4>1. /\ call[c] \in Requests /\ SameCall(call'[c], call[c]) /\ call'[c].at \in Asking
            /\ call'[c].at = "answered" => call'[c].end # "done"
        BY <3>1, <3>3 DEF ClientMove
      <4>2. call[c] # Idle
        BY <4>1, NotIdle
      <4> QED
        BY <4>1, <4>2 DEF SaveMove, SameCall, Of, Written, Asking, Sending
    <3> QED
      BY <3>2, <3>3
  <2> QED
    BY <1>2, <2>1 DEF TargetsMove
<1> QED
  BY <1>3, <1>4, <1>5

(* The Targets view's effects move them in one of the listed ways. *)
LEMMA EffectsMove ==
    ASSUME ITypes, ManagerEffects
    PROVE  TargetsMove
<1>0. UNCHANGED targets
  BY DEF ManagerEffects, ManagerStep
<1>1. CASE MountManager
  <2>1. FormMove
    BY <1>1, MountManagerFits DEF FormMove
  <2>2. ASSUME NEW c \in Slots PROVE SaveMove(c)
    BY <1>1, MountManagerFits, SaveStays DEF SaveMove, Of, SaveTasks
  <2> QED
    BY <1>0, <2>1, <2>2 DEF TargetsMove, RegistryMove
<1>2. CASE UnmountManager
  <2>1. FormMove
    BY <1>2, UnmountManagerFits DEF FormMove, NewManager
  <2>2. ASSUME NEW c \in Slots PROVE SaveMove(c)
    <3>1. Dropped(call', ManagerTasks)
      BY <1>2, UnmountManagerFits
    <3>2. CASE call[c] # Idle /\ call[c].task \in ManagerTasks
      <4>1. call'[c] \in Requests /\ Same(call'[c], call[c], {"live"})
        BY <3>1, <3>2 DEF Dropped
      <4>2. /\ call'[c].task = call[c].task /\ call'[c].of = call[c].of
            /\ call'[c].saw = call[c].saw /\ call'[c].at = call[c].at /\ call'[c].end = call[c].end
        BY <4>1 DEF Same, Fields
      <4> QED
        BY <3>2, <4>2 DEF SaveMove, Of, Written
    <3>3. CASE ~(call[c] # Idle /\ call[c].task \in ManagerTasks)
      BY <3>1, <3>3, SaveStays DEF Dropped
    <3> QED
      BY <3>2, <3>3
  <2> QED
    BY <1>0, <2>1, <2>2 DEF TargetsMove, RegistryMove
<1> QED
  BY <1>1, <1>2 DEF ManagerEffects

(* So do its controls, *)
LEMMA ActsMove ==
    ASSUME ITypes, ManagerActs
    PROVE  TargetsMove
<1>0. RegistryMove
  BY DEF ManagerActs, ManagerStep, RegistryMove
<1>1. CASE AddTarget \/ TypeUrl \/ \E t \in TargetIds : PickTarget(t)
  <2>1. UNCHANGED call
    BY <1>1, AddTargetFits, TypeUrlFits, PickTargetFits
  <2>2. ASSUME AddTarget PROVE FormMove
    BY <2>2, AddTargetFits, UrlsThere DEF FormMove
  <2>3. ASSUME TypeUrl PROVE FormMove
    BY <2>3, TypeUrlFits DEF FormMove
  <2>4. ASSUME NEW t \in TargetIds, PickTarget(t) PROVE FormMove
    BY <2>4, PickTargetFits DEF FormMove
  <2> QED
    BY <1>0, <1>1, <2>1, <2>2, <2>3, <2>4, SaveStays DEF TargetsMove
<1>2. CASE SaveTarget \/ DeleteTarget \/ TestConnectivity \/ StartTargetScan
  <2>1. FormMove /\ manager.draftId \in TargetIds
    BY <1>2, ButtonsFit, FormKept
  <2>2. CASE Begun(call, "targetscan", NoScan, FormSaw, Sending)
    <3>1. Among({"targetscan"}) /\ SaveTasks \intersect {"targetscan"} = {}
      BY <2>2, AmongBegun DEF SaveTasks
    <3> QED
      BY <1>0, <2>1, <3>1, OtherSaves DEF TargetsMove
  <2>3. CASE \E task \in {"save", "testsave", "drop", "validate"} :
                Begun(call, task, manager.draftId, FormSaw, Sending)
    <3>1. PICK task \in {"save", "testsave", "drop", "validate"} :
             Begun(call, task, manager.draftId, FormSaw, Sending)
      BY <2>3
    <3>2. PICK w \in Requests :
             /\ BeganIn(call, w)
             /\ w.of = manager.draftId /\ w.saw = FormSaw /\ w.at \in Sending
      BY <3>1 DEF Begun
    <3>3. \A c \in Slots : SaveMove(c)
      BY <2>1, <3>2, SaveStays DEF BeganIn, SaveMove
    <3> QED
      BY <1>0, <2>1, <3>3 DEF TargetsMove
  <2> QED
    BY <1>2, <2>2, <2>3, ButtonsFit
<1> QED
  BY <1>1, <1>2 DEF ManagerActs

(* the server's handlers, which leave the form alone, *)
LEMMA ServingMoves ==
    ASSUME ITypes, NEW c \in Slots, ManagerServing(c)
    PROVE  TargetsMove /\ UNCHANGED manager
<1>1. CASE TargetServed(c)
  <2>0. UNCHANGED manager
    BY <1>1 DEF TargetServed
  <2>1. /\ Served(c) /\ SameCall(call'[c], call[c])
        /\ call[c].task \in {"save", "testsave", "drop"}
        /\ \/ call[c].task # "drop" /\ targets' = With(call[c].of, call[c].saw.url)
           \/ call[c].task = "drop" /\ targets' = With(call[c].of, None)
           \/ UNCHANGED targets /\ call'[c].end # "done"
           \/ UNCHANGED targets /\ call[c].task = "drop"
    BY <1>1, TargetServedFits DEF With
  <2>2. call[c] # Idle /\ OnlyAt(c) /\ call'[c].at = "answered"
    BY <2>1, NotIdle DEF Served
  <2>3. RegistryMove
    BY <2>1, <2>2 DEF RegistryMove, Saves, Open
  <2>4. SaveMove(c)
    BY <2>1, <2>2 DEF SaveMove, SameCall, Of, SaveTasks, Written
  <2> QED
    BY <2>0, <2>2, <2>3, <2>4, SavedAt DEF TargetsMove, FormMove
<1>2. CASE ValidateServed(c)
  <2>0. UNCHANGED <<manager, targets>>
    BY <1>2 DEF ValidateServed, ManagerStep
  <2>1. Served(c) /\ SameCall(call'[c], call[c]) /\ call[c].task = "validate"
    BY <1>2, ValidateServedFits
  <2>2. SaveMove(c) /\ OnlyAt(c)
    BY <2>1 DEF SaveMove, SameCall, Of, SaveTasks, Served
  <2> QED
    BY <2>0, <2>2, SavedAt DEF TargetsMove, FormMove, RegistryMove
<1> QED
  BY <1>1, <1>2 DEF ManagerServing

(* a list that selects a target again, *)
LEMMA ReselectedMoves ==
    ASSUME ITypes, NEW r, NEW m, Reselected(m, r), Shown(manager', m)
    PROVE  FormMove
<1>1. /\ manager'.listed = targets /\ manager'.draftId = m.draftId
      /\ manager'.draft = m.draft \/ (manager'.draftId \in Docker
                                      /\ manager'.draft = Published(manager'.draftId))
  BY DEF Reselected, Shown
<1>2. \/ m.draftId \in TargetIds /\ targets[m.draftId] # None /\ m.draft = targets[m.draftId]
      \/ m.draftId = None /\ m.draft = Scaffold
  BY DEF Reselected
<1> QED
  BY <1>1, <1>2, UrlsThere DEF FormMove

(* and the view's continuations. *)
LEMMA ContinuesMove ==
    ASSUME ITypes, NEW c \in Slots, ManagerContinues(c)
    PROVE  TargetsMove
<1>0. RegistryMove
  BY DEF ManagerContinues, TargetAnswered, TargetsListed, ValidateAfterSave, OffersLoaded,
         AgentsAnswered, Validated, TargetScanAnswered, ManagerStep, RegistryMove, managerVars
<1>a. ASSUME FreedAt(c) PROVE \A d \in Slots : SaveMove(d)
  BY <1>a, SavedAt DEF FreedAt, SaveMove, Of
<1>1. CASE TargetAnswered(c)
  <2>1. FormMove
    BY <1>1, TargetAnsweredFits, FormKept
  <2>2. CASE FreedAt(c)
    BY <1>0, <1>a, <2>1, <2>2 DEF TargetsMove
  <2>3. CASE MovedAt(c, "list") /\ call[c].end = "done"
    <3>1. OnlyAt(c) /\ SameCall(call'[c], call[c]) /\ call[c] # Idle /\ call[c].at = "answered"
      BY <1>1, <2>3, TargetAnsweredFits, NotIdle DEF MovedAt
    <3>2. SaveMove(c)
      BY <2>3, <3>1 DEF SaveMove, SameCall, Of, Written
    <3> QED
      BY <1>0, <2>1, <3>1, <3>2, SavedAt DEF TargetsMove
  <2>4. CASE MovedAt(c, "saved")
    <3>1. /\ OnlyAt(c) /\ SameCall(call'[c], call[c]) /\ call[c] # Idle /\ call'[c].at = "saved"
      BY <1>1, <2>4, TargetAnsweredFits, NotIdle DEF MovedAt
    <3>2. SaveMove(c)
      BY <3>1 DEF SaveMove, SameCall, Of, Written
    <3> QED
      BY <1>0, <2>1, <3>1, <3>2, SavedAt DEF TargetsMove
  <2> QED
    BY <1>1, <2>2, <2>3, <2>4, TargetAnsweredFits
<1>2. CASE TargetsListed(c)
  <2>1. FormMove
    BY <1>2, TargetsListedFits, ReselectedMoves, FormKept
  <2>0. call[c] # Idle
    BY <1>2, TargetsListedFits, NotIdle
  <2>2. CASE FreedAt(c)
    BY <1>0, <1>a, <2>1, <2>2 DEF TargetsMove
  <2>3. CASE MovedAt(c, "offers")
    <3>1. OnlyAt(c) /\ SameCall(call'[c], call[c]) /\ call'[c].at = "offers"
      BY <2>3 DEF MovedAt
    <3>2. SaveMove(c)
      BY <2>0, <3>1 DEF SaveMove, SameCall, Of, Written
    <3> QED
      BY <1>0, <2>1, <3>1, <3>2, SavedAt DEF TargetsMove
  <2>4. CASE /\ call'[c].at = "saved" /\ SameCall(call'[c], call[c])
             /\ \A d \in Slots \ {c} :
                   \/ call'[d] = call[d]
                   \/ call[d] = Idle /\ call'[d] \in Requests /\ call'[d].task = "offers"
    <3>1. SaveMove(c)
      BY <2>0, <2>4 DEF SaveMove, SameCall, Of, Written
    <3>2. \A d \in Slots \ {c} : SaveMove(d)
      BY <2>4, SaveStays DEF SaveMove, Of, SaveTasks
    <3> QED
      BY <1>0, <2>1, <3>1, <3>2 DEF TargetsMove
  <2> QED
    BY <1>2, <2>2, <2>3, <2>4, TargetsListedFits
<1>3. CASE ValidateAfterSave(c)
  <2>1. SaveMove(c) /\ OnlyAt(c) /\ UNCHANGED manager
    BY <1>3, ValidateAfterSaveFits DEF SaveMove, Of, SaveTasks
  <2> QED
    BY <1>0, <2>1, SavedAt DEF TargetsMove, FormMove
<1>4. CASE OffersLoaded(c)
  <2>1. UNCHANGED manager /\ FreedAt(c)
    BY <1>4, OffersLoadedFits DEF OffersLoaded, managerVars
  <2> QED
    BY <1>0, <1>a, <2>1 DEF TargetsMove, FormMove
<1>5. CASE AgentsAnswered(c)
  <2>1. FormMove
    BY <1>5, AgentsAnsweredFits, UrlsThere DEF FormMove
  <2> QED
    BY <1>0, <1>5, <1>a, <2>1, AgentsAnsweredFits DEF TargetsMove
<1>6. CASE Validated(c) \/ TargetScanAnswered(c)
  BY <1>0, <1>6, <1>a, ValidatedFits, FormKept DEF TargetsMove
<1> QED
  BY <1>1, <1>2, <1>3, <1>4, <1>5, <1>6 DEF ManagerContinues

(* So does every step. *)
LEMMA TargetsMoves ==
    ASSUME ITypes, Next
    PROVE  TargetsMove
<1>1. CASE ManagerMoves
  <2>1. CASE ManagerStreamEnds
    <3>1. SameForm(manager', manager) /\ UNCHANGED <<call, targets>>
      BY <2>1, ManagerStreamEndsFits DEF ManagerStreamEnds, ManagerStep
    <3> QED
      BY <3>1, FormKept, SaveStays DEF TargetsMove, RegistryMove
  <2> QED
    BY <1>1, <2>1, EffectsMove, ActsMove, ServingMoves, ContinuesMove DEF ManagerMoves
<1> QED
  BY <1>1, StepKinds, OthersMove

(* Docker's URL is copied into the draft when it becomes another one. *)
LEMMA Locks ==
    ASSUME manager \in Manager, NEW state, DOMAIN state = DOMAIN manager, Shows(state)
    PROVE  LockMove
<1>1. {"agents", "draftId", "draft"} \subseteq DOMAIN state
  BY DEF Manager
<1>2. CASE DockerUrl(state) \in {None, DockerUrl(manager)}
  BY <1>2 DEF Shows, Locked, LockMove, DockerUrl
<1>3. CASE DockerUrl(state) \notin {None, DockerUrl(manager)}
  <2>1. manager' = [state EXCEPT !.draft = DockerUrl(state)]
    BY <1>3 DEF Shows, Locked
  <2>2. /\ manager'.draft = DockerUrl(state)
        /\ manager'.agents = state.agents /\ manager'.draftId = state.draftId
    BY <1>1, <2>1
  <2>3. DockerUrl(manager)' = DockerUrl(state)
    BY <2>2 DEF DockerUrl
  <2> QED
    BY <2>2, <2>3 DEF LockMove
<1> QED
  BY <1>2, <1>3

(* It stays while what it depends on stays. *)
LEMMA LockStays ==
    ASSUME manager'.agents = manager.agents, manager'.draftId = manager.draftId
    PROVE  LockMove
BY DEF LockMove, DockerUrl

(* An answer shows a state too, or is of a view that is gone. *)
LEMMA LocksIf ==
    ASSUME manager \in Manager, NEW c, NEW state, DOMAIN state = DOMAIN manager,
           ShowsIf(c, state)
    PROVE  LockMove
BY Locks, LockStays DEF ShowsIf, Shows

(* So it is at every step of the Targets view. *)
LEMMA ManagerLocks ==
    ASSUME ITypes, ManagerMoves
    PROVE  LockMove
<1>1. manager \in Manager
  BY DEF ITypes, TypeOK
<1>2. CASE ManagerEffects
  BY <1>1, <1>2, LockStays
     DEF ManagerEffects, MountManager, UnmountManager, Manager, NewManager, LockMove, DockerUrl
<1>3. CASE ManagerActs \/ ManagerStreamEnds
  <2>1. PICK state : DOMAIN state = DOMAIN manager /\ Shows(state)
    <3>1. ASSUME NEW t PROVE DOMAIN SelectTarget(manager, t) = DOMAIN manager
      BY DEF SelectTarget
    <3> QED
      BY <1>3, <3>1
         DEF ManagerActs, AddTarget, TypeUrl, SaveTarget, DeleteTarget, TestConnectivity,
             StartTargetScan, PickTarget, ManagerStreamEnds
  <2> QED
    BY <1>1, <2>1, Locks
<1>4. ASSUME NEW c \in Slots, ManagerServing(c) \/ ManagerContinues(c) PROVE LockMove
  <2>1. \/ UNCHANGED manager
        \/ \E state : DOMAIN state = DOMAIN manager /\ ShowsIf(c, state)
    <3>1. DOMAIN Released(call[c]) = DOMAIN manager /\ DOMAIN Listed(call[c]) = DOMAIN manager
      BY DEF Released, Listed, SelectTarget
    <3> QED
      BY <1>4, <3>1
         DEF ManagerServing, TargetServed, ValidateServed, ManagerContinues, TargetAnswered,
             TargetsListed, ValidateAfterSave, OffersLoaded, AgentsAnswered, Validated,
             TargetScanAnswered, managerVars
  <2> QED
    BY <1>1, <2>1, LocksIf, LockStays
<1> QED
  BY <1>2, <1>3, <1>4 DEF ManagerMoves

(* And of the console. *)
LEMMA ConsoleLocks ==
    ASSUME ITypes, Next
    PROVE  LockMove
<1>1. CASE ShellStep \/ PanelStep \/ ClientStep
  BY <1>1, LockStays DEF ShellStep, PanelStep, ClientStep, managerVars
<1> QED
  BY <1>1, StepKinds, ManagerLocks

(* Whose a URL is: typed and published ones are of their target. *)
LEMMA UrlsOf ==
    ASSUME NEW t
    PROVE  /\ OfTarget(Typed(t), t) /\ OfTarget(Published(t), t) /\ OfTarget(Scaffold, NewId)
           /\ Typed(t) # Scaffold
           /\ \A u : OfTarget(Typed(t), u) => t \in {None, u}
BY DEF OfTarget, Typed, Published, Scaffold

(* The saves under way are the calls of these tasks. *)
LEMMA SavesAre == \A c \in Slots : c \in Saves <=> Of(call[c], SaveTasks)
BY DEF Saves, Open, Of, SaveTasks

(* The same after the step. *)
LEMMA SavesAreNext == \A c \in Slots : c \in Saves' <=> Of(call'[c], SaveTasks)
BY DEF Saves, Open, Of, SaveTasks

(* The registry keeps holding URLs of the target they are stored for. *)
LEMMA RegistryStep ==
    ASSUME ITypes, IManager, TargetsMove
    PROVE  IRegistry'
<1>1. ASSUME NEW t \in TargetIds, targets'[t] # None PROVE OfTarget(targets'[t], t)
  <2>1. CASE UNCHANGED targets
    BY <1>1, <2>1 DEF IManager, IRegistry
  <2>2. CASE \E c \in Saves : targets' = With(call[c].of, call[c].saw.url)
    <3>1. PICK c \in Saves : targets' = With(call[c].of, call[c].saw.url)
      BY <2>2
    <3>2. OfTarget(call[c].saw.url, call[c].of)
      BY DEF IManager, ISaves
    <3>3. targets'[t] = IF t = call[c].of THEN call[c].saw.url ELSE targets[t]
      BY <3>1 DEF With
    <3> QED
      BY <1>1, <3>2, <3>3 DEF IManager, IRegistry
  <2>3. CASE \E c \in Open({"drop"}) : targets' = With(call[c].of, None)
    BY <1>1, <2>3 DEF With, IManager, IRegistry
  <2> QED
    BY <2>1, <2>2, <2>3 DEF TargetsMove, RegistryMove
<1>2. ASSUME NEW t \in TargetIds, manager'.listed[t] # None PROVE OfTarget(manager'.listed[t], t)
  <2>1. manager'.listed \in {manager.listed, targets, NewManager.listed}
    BY DEF TargetsMove, FormMove
  <2> QED
    BY <1>2, <2>1 DEF IManager, IRegistry, NewManager
<1> QED
  BY <1>1, <1>2 DEF IRegistry

(* The form keeps showing a URL of the target it is about. *)
LEMMA DraftStep ==
    ASSUME ITypes, ITypes', IManager, TargetsMove
    PROVE  IDraft'
<1>0. IRegistry' /\ None \notin TargetIds /\ NewId \in TargetIds
  BY RegistryStep, UrlsThere
<1>1. CASE manager'.draftId = manager.draftId /\ manager'.draft = manager.draft
  BY <1>1 DEF IManager, IDraft
<1>2. CASE manager'.draftId = None /\ manager'.draft = Scaffold
  BY <1>2 DEF IDraft
<1>3. CASE manager'.draftId = NewId /\ manager'.draft = Scaffold
  BY <1>0, <1>3, UrlsOf DEF IDraft
<1>4. CASE /\ manager'.draftId \in TargetIds /\ manager'.listed[manager'.draftId] # None
           /\ manager'.draft = manager'.listed[manager'.draftId]
  BY <1>0, <1>4 DEF IDraft, IRegistry
<1>5. CASE /\ manager'.draftId \in TargetIds
           /\ \/ manager'.draft = Published(manager'.draftId)
              \/ manager'.draft = Typed(manager'.draftId)
  BY <1>0, <1>5, UrlsOf DEF IDraft
<1> QED
  BY <1>1, <1>2, <1>3, <1>4, <1>5 DEF TargetsMove, FormMove

(* The form keeps showing what would be saved, unless a draft is replaced unlocked. *)
LEMMA LockedStep ==
    ASSUME IManager, LockMove, overlapped \subseteq overlapped',
           Relocked => "relocked" \in overlapped'
    PROVE  ILocked'
<1>1. CASE DockerUrl(manager)' \in {None, manager'.draft}
  BY <1>1 DEF ILocked
<1>2. CASE DockerUrl(manager)' = DockerUrl(manager) /\ DockerUrl(manager) # None
  BY <1>2 DEF IManager, ILocked, Relocked, DockerUrl
<1> QED
  BY <1>1, <1>2 DEF LockMove

(* A save keeps the URL that the form showed when it was asked for. *)
LEMMA SavesStep ==
    ASSUME ITypes, IManager, TargetsMove, overlapped \subseteq overlapped'
    PROVE  ISaves'
<1>1. ASSUME NEW c \in Slots, Of(call'[c], SaveTasks)
      PROVE  /\ OfTarget(call'[c].saw.url, call'[c].of)
             /\ call'[c].saw.url = call'[c].saw.shown \/ "relocked" \in overlapped'
  <2>1. CASE /\ call'[c].saw = FormSaw
             /\ call'[c].of = manager.draftId /\ manager.draftId \in TargetIds
    <3>1. manager.draftId # None /\ OfTarget(manager.draft, manager.draftId)
      BY <2>1, UrlsThere DEF IManager, IDraft
    <3>2. call'[c].saw.url = manager.draft /\ call'[c].saw.shown = LockedUrl(manager)
      BY <2>1 DEF FormSaw
    <3>3. CASE DockerUrl(manager) = None
      <4>1. LockedUrl(manager) = manager.draft
        BY <3>3 DEF LockedUrl
      <4> QED
        BY <2>1, <3>1, <3>2, <4>1
    <3>4. CASE DockerUrl(manager) # None
      <4>1. LockedUrl(manager) = DockerUrl(manager)
        BY <3>4 DEF LockedUrl
      <4>2. manager.draft = DockerUrl(manager) \/ "relocked" \in overlapped
        BY <3>4 DEF IManager, ILocked
      <4> QED
        BY <2>1, <3>1, <3>2, <4>1, <4>2
    <3> QED
      BY <3>3, <3>4
  <2>2. CASE Of(call[c], SaveTasks) /\ call'[c].of = call[c].of /\ call'[c].saw = call[c].saw
    BY <2>2, SavesAre DEF IManager, ISaves
  <2> QED
    BY <1>1, <2>1, <2>2 DEF TargetsMove, SaveMove
<1> QED
  <2>1. \A c \in Saves' : c \in Slots
    BY DEF Saves, Open
  <2> QED
    BY <1>1, <2>1, SavesAreNext DEF ISaves

(* While a typed URL stands, no list under way can replace it unnoted. *)
LEMMA EditedStep ==
    ASSUME ITypes, ITypes', IManager, IOverlap, IOverlap', ISaves', TargetsMove,
           overlapped \subseteq overlapped',
           Edited' /\ manager'.draft # manager.draft /\ Saves' # {} => "typing" \in overlapped'
    PROVE  IEdited'
<1> SUFFICES ASSUME Edited', "typing" \notin overlapped', NEW c \in Saves', Written(call'[c])
             PROVE  targets'[manager'.draftId] = manager'.draft
  BY DEF IEdited
<1>1. c \in Slots /\ Of(call'[c], SaveTasks)
  <2>1. c \in Slots
    BY DEF Saves, Open
  <2> QED
    BY <2>1, SavesAreNext
<1>2. manager'.draft = manager.draft
  OBVIOUS
<1>3. manager'.draftId # None /\ manager'.draft = Typed(manager'.draftId)
  BY DEF Edited
<1>4. manager.draftId # None /\ manager.draftId = manager'.draftId
  BY <1>2, <1>3, UrlsOf DEF IManager, IDraft
<1>5. Edited /\ "typing" \notin overlapped /\ ~Relisted /\ ~Relisted'
  BY <1>2, <1>3, <1>4 DEF Edited, IOverlap
<1>6. /\ Open({"drop"}) = {}
      /\ \A d \in Saves : call[d].saw.url = manager.draft
  BY <1>5 DEF Relisted
<1>7. ASSUME NEW d \in Saves PROVE call[d].of = manager.draftId
  <2>1. OfTarget(Typed(manager.draftId), call[d].of)
    BY <1>2, <1>3, <1>4, <1>6 DEF IManager, ISaves
  <2>2. manager.draftId \in {None, call[d].of}
    BY <2>1, UrlsOf
  <2> QED
    BY <1>4, <2>2
<1>8. manager.draftId \in TargetIds
  BY <1>4 DEF ITypes, TypeOK, Manager
<1>9. ASSUME NEW d \in Saves, targets' = With(call[d].of, call[d].saw.url)
      PROVE  targets'[manager.draftId] = manager.draft
  BY <1>6, <1>7, <1>8, <1>9 DEF With
<1>10. /\ Of(call[c], SaveTasks)
       /\ Written(call[c]) \/ targets' = With(call[c].of, call[c].saw.url)
  BY <1>1 DEF TargetsMove, SaveMove, Written, Sending
<1>11. c \in Saves
  BY <1>1, <1>10, SavesAre
<1>12. CASE Written(call[c])
  <2>1. targets[manager.draftId] = manager.draft
    BY <1>5, <1>11, <1>12 DEF IManager, IEdited
  <2> QED
    BY <1>2, <1>4, <1>6, <1>9, <2>1 DEF TargetsMove, RegistryMove
<1> QED
  BY <1>2, <1>4, <1>9, <1>10, <1>11, <1>12

(* Every step keeps the Targets view's invariant. *)
LEMMA ManagerHolds ==
    ASSUME ITypes, ITypes', IManager, IOverlap, [Next]_vars
    PROVE  IManager'
<1>1. CASE Next
  <2>1. /\ TargetsMove /\ IOverlap' /\ overlapped \subseteq overlapped'
        /\ Edited' /\ manager'.draft # manager.draft /\ Saves' # {} => "typing" \in overlapped'
    BY <1>1, TargetsMoves, OverlapStep
  <2>2. ISaves'
    BY <2>1, SavesStep
  <2>3. IRegistry' /\ IDraft' /\ ILocked' /\ IEdited'
    BY <1>1, <2>1, <2>2, RegistryStep, DraftStep, ConsoleLocks, OverlapStep, LockedStep, EditedStep
  <2> QED
    BY <2>2, <2>3 DEF IManager
<1>2. CASE UNCHANGED vars
  <2>1. UNCHANGED <<call, manager, targets, overlapped>>
    BY <1>2 DEF vars, clientVars, managerVars
  <2> QED
    BY <2>1 DEF IManager, IRegistry, IDraft, ILocked, DockerUrl, ISaves, IEdited, Edited, Saves,
                Open
<1> QED
  BY <1>1, <1>2

(* It holds at the start. *)
LEMMA InitManager == ASSUME Init PROVE IManager
<1>1. manager = NewManager
  BY DEF Init
<1>2. IDraft /\ ILocked /\ ~Edited
  BY <1>1 DEF IDraft, ILocked, DockerUrl, NewManager, Edited
<1>3. IRegistry
  <2>1. PICK form \in {"old", "alias"} : targets = Stored(form)
    BY DEF Init, Opening, Reviewing, Configuring
  <2>2. \A t \in TargetIds : targets[t] = None \/ targets[t] = <<form, t>>
    BY <2>1 DEF Stored
  <2>3. \A t : OfTarget(<<form, t>>, t)
    BY DEF OfTarget, Scaffold
  <2>4. \A t \in TargetIds : manager.listed[t] = None
    BY <1>1 DEF NewManager
  <2> QED
    BY <2>2, <2>3, <2>4 DEF IRegistry
<1>4. Saves = {}
  <2>1. \A c \in Slots : call[c] = Idle \/ call[c] = Call("mount", NoScan, "scans")
    BY DEF Init, Opening, Reviewing, Configuring
  <2> QED
    BY <2>1 DEF Saves, Open, Call
<1> QED
  BY <1>2, <1>3, <1>4 DEF IManager, ISaves, IEdited

(* It says that a save sends what the form shows. *)
LEMMA SavesFit == ASSUME ITypes, IManager PROVE SavesWhatIsShown
<1>1. ASSUME NEW c \in Saves
      PROVE  /\ call[c].saw.url = call[c].saw.shown \/ "relocked" \in overlapped
             /\ call[c].saw.url[2] \in {None, call[c].of}
             /\ call[c].saw.url = Scaffold => call[c].of = NewId
  BY DEF IManager, ISaves, OfTarget
<1> QED
  BY <1>1 DEF SavesWhatIsShown, Saves

(* TargetsManager.tsx:320-330: a save, or the save by which a test of an       *)
(* unlisted target begins, sends the URL that the form showed, unless the      *)
(* draft was replaced while Docker's URL stayed the same one; and never the    *)
(* URL of another target, nor the defaults of a new target for a stored one.   *)
THEOREM SavesFitting == Spec => []SavesWhatIsShown
<1>1. Init => ITypes /\ IOverlap /\ IManager
  BY InitTypes, InitOverlap, InitManager
<1>2. ITypes /\ IOverlap /\ IManager /\ [Next]_vars => (ITypes /\ IOverlap /\ IManager)'
  BY TypesStep, OverlapStep, ManagerHolds
<1>3. ITypes /\ IManager => SavesWhatIsShown
  BY SavesFit
<1> QED
  BY <1>1, <1>2, <1>3, PTL DEF Spec

(* And that no step of the program replaces a URL that was typed. *)
LEMMA EditsKept ==
    ASSUME ITypes, IOverlap, IManager, Next,
           manager.mounted, manager'.mounted, gestures' = gestures,
           Edited, "typing" \notin overlapped
    PROVE  manager'.draftId = manager.draftId /\ manager'.draft = manager.draft
<1>0. ~Relisted /\ gestures \in Nat
  BY GesturesAssumption DEF IOverlap, ITypes, TypeOK
<1>1. CASE React
  <2>1. CASE ManagerEffects
    <3>1. ~MountManager
      BY DEF MountManager
    <3>2. ~UnmountManager
      BY UnmountManagerFits DEF NewManager
    <3> QED
      BY <2>1, <3>1, <3>2 DEF ManagerEffects
  <2> QED
    BY <1>1, <2>1 DEF React, managerVars
<1>2. CASE Operate
  BY <1>0, <1>2 DEF Operate
<1>3. CASE Handle
  BY <1>3, ServingMoves DEF Handle, managerVars
<1>4. CASE Continue
  <2>1. CASE ManagerStreamEnds
    BY <2>1, ManagerStreamEndsFits DEF SameForm
  <2>2. CASE \E c \in Slots : ManagerContinues(c)
    <3>1. PICK c \in Slots : ManagerContinues(c)
      BY <2>2
    <3>2. CASE TargetAnswered(c) \/ Validated(c) \/ TargetScanAnswered(c)
      BY <3>2, TargetAnsweredFits, ValidatedFits DEF SameForm
    <3>3. CASE ValidateAfterSave(c)
      BY <3>3, ValidateAfterSaveFits
    <3>4. CASE OffersLoaded(c)
      BY <3>4 DEF OffersLoaded, managerVars
    <3>5. CASE AgentsAnswered(c)
      <4>1. call[c] \in Requests /\ call[c].task = "agents" /\ (~call[c].live => UNCHANGED manager)
        BY <3>5, AgentsAnsweredFits
      <4>2. ~call[c].live
        BY <1>0, <4>1, NotIdle DEF Relisted, Open
      <4> QED
        BY <4>1, <4>2
    <3>6. CASE TargetsListed(c)
      <4>1. /\ call[c] \in Requests /\ call[c].at = "list"
            /\ call[c].task \in {"load", "save", "testsave", "drop"}
            /\ \/ SameForm(manager', manager)
               \/ call[c].live /\ \E m : Reselected(m, call[c]) /\ Shown(manager', m)
        BY <3>6, TargetsListedFits
      <4>2. CASE SameForm(manager', manager)
        BY <4>2 DEF SameForm
      <4>3. CASE call[c].live /\ \E m : Reselected(m, call[c]) /\ Shown(manager', m)
        <5>1. call[c].task \notin {"load", "drop"}
          BY <1>0, <4>1, <4>3, NotIdle DEF Relisted, Open
        <5>2. call[c].task \in SaveTasks /\ Of(call[c], SaveTasks)
          BY <4>1, <5>1, NotIdle DEF SaveTasks, Of
        <5>3. c \in Saves
          BY <5>2, SavesAre
        <5>4. call[c].saw.url = manager.draft /\ manager.draft = Typed(manager.draftId)
              /\ manager.draftId # None
          BY <1>0, <5>3 DEF Relisted, Edited
        <5>5. call[c].of = manager.draftId
          BY <5>3, <5>4, UrlsOf DEF IManager, ISaves
        <5>6. targets[manager.draftId] = manager.draft
          BY <4>1, <5>3 DEF IManager, IEdited, Written
        <5>7. manager.draftId \in TargetIds /\ manager.draft # None
          BY <5>4, TargetsAssumption DEF ITypes, TypeOK, Manager
        <5>8. PICK m : Reselected(m, call[c]) /\ Shown(manager', m)
          BY <4>3
        <5>9. Preferred(call[c]) = manager.draftId
          BY <5>2, <5>5 DEF Preferred, SaveTasks
        <5>10. m.draftId = manager.draftId /\ m.draft = manager.draft /\ m.agents = manager.agents
          BY <5>6, <5>7, <5>8, <5>9 DEF Reselected
        <5>11. DockerUrl(m) = DockerUrl(manager)
          BY <5>10 DEF DockerUrl
        <5> QED
          BY <5>8, <5>10, <5>11 DEF Shown
      <4> QED
        BY <4>1, <4>2, <4>3
    <3> QED
      BY <3>1, <3>2, <3>3, <3>4, <3>5, <3>6 DEF ManagerContinues
  <2> QED
    BY <1>4, <2>1, <2>2 DEF Continue, managerVars
<1> QED
  BY <1>1, <1>2, <1>3, <1>4 DEF Next

(* A URL typed into the form is not lost to an answer, whatever comes of the  *)
(* save, unless it was typed while a list, the agents or an earlier save were *)
(* under way (TargetsManager.tsx:158-179 replaces the draft at every load).   *)
THEOREM EditsKeeping == Spec => EditsSurvive
<1>1. Init => ITypes /\ IOverlap /\ IManager
  BY InitTypes, InitOverlap, InitManager
<1>2. ITypes /\ IOverlap /\ IManager /\ [Next]_vars => (ITypes /\ IOverlap /\ IManager)'
  BY TypesStep, OverlapStep, ManagerHolds
<1>3. ITypes /\ IOverlap /\ IManager /\ [Next]_vars =>
        [/\ manager.mounted /\ manager'.mounted /\ gestures' = gestures
         /\ manager.draftId # None /\ manager.draft = Typed(manager.draftId)
         /\ "typing" \notin overlapped
         => manager'.draftId = manager.draftId /\ manager'.draft = manager.draft]_vars
  BY EditsKept DEF Edited
<1> QED
  BY <1>1, <1>2, <1>3, PTL DEF Spec, EditsSurvive
-----------------------------------------------------------------------------
(* The panels: the place each answer is shown at. *)

ExplainKept ==
    panels'.ran.explain = panels.ran.explain /\ panels'.told["explain"] = panels.told["explain"]
CveKept ==
    /\ panels'.tab = panels.tab /\ panels'.ran.cve = panels.ran.cve
    /\ panels'.told["cve"] = panels.told["cve"]
ChatKept ==
    /\ panels'.tab = panels.tab /\ panels'.ran.chat = panels.ran.chat
    /\ panels'.asked = panels.asked /\ panels'.answered = panels.answered
    /\ panels'.chatting = panels.chatting
EvidenceKept ==
    /\ panels'.ran.evidence = panels.ran.evidence
    /\ panels'.entry = panels.entry /\ panels'.artifact = panels.artifact
ReasonKept == panels'.pending = panels.pending /\ panels'.reason = panels.reason

(* A step without panels leaves every panel alone. *)
LEMMA PlacesStay ==
    ASSUME UNCHANGED panels
    PROVE  ExplainKept /\ CveKept /\ ChatKept /\ EvidenceKept /\ ReasonKept
BY DEF ExplainKept, CveKept, ChatKept, EvidenceKept, ReasonKept

(* The fields of a record of effects, after one of them is written. *)
LEMMA RanFields ==
    ASSUME NEW r \in Ran, NEW e
    PROVE  /\ LET w == [r EXCEPT !.explain = e] IN
                 w.explain = e /\ w.cve = r.cve /\ w.chat = r.chat /\ w.evidence = r.evidence
           /\ LET w == [r EXCEPT !.cve = e] IN
                 w.explain = r.explain /\ w.cve = e /\ w.chat = r.chat /\ w.evidence = r.evidence
           /\ LET w == [r EXCEPT !.chat = e] IN
                 w.explain = r.explain /\ w.cve = r.cve /\ w.chat = e /\ w.evidence = r.evidence
           /\ LET w == [r EXCEPT !.evidence = e] IN
                 w.explain = r.explain /\ w.cve = r.cve /\ w.chat = r.chat /\ w.evidence = e
           /\ LET w == [r EXCEPT !.cve = e, !.chat = e] IN
                 w.explain = r.explain /\ w.cve = e /\ w.chat = e /\ w.evidence = r.evidence
BY DEF Ran

(* The answers told, after one of them is written. *)
LEMMA ToldFields ==
    ASSUME NEW t \in Told, NEW f
    PROVE  /\ LET w == [t EXCEPT !["explain"] = f] IN w["explain"] = f /\ w["cve"] = t["cve"]
           /\ LET w == [t EXCEPT !["cve"] = f] IN w["cve"] = f /\ w["explain"] = t["explain"]
BY DEF Told, Lookups

(* The panels' state and its parts are well typed. *)
LEMMA PanelsTyped ==
    ASSUME ITypes
    PROVE  panels \in Panels /\ panels.ran \in Ran /\ panels.told \in Told
BY RanAndTold DEF ITypes, TypeOK

(* The explanation's effect forgets the old answer, and changes no other panel. *)
LEMMA ExplainEffectPlaces ==
    ASSUME ITypes, ExplainEffect
    PROVE  /\ panels'.ran.explain = Explained /\ panels'.told["explain"] = None
           /\ CveKept /\ ChatKept /\ EvidenceKept /\ ReasonKept
<1> DEFINE ran == [panels.ran EXCEPT !.explain = Explained]
           told == [panels.told EXCEPT !["explain"] = None]
<1>1. panels' = [panels EXCEPT !.mounted = TRUE, !.ran = ran, !.told = told]
  BY PanelsTyped, PanelsAre DEF ExplainEffect
<1>2. /\ ran.explain = Explained /\ ran.cve = panels.ran.cve /\ ran.chat = panels.ran.chat
      /\ ran.evidence = panels.ran.evidence
      /\ told["explain"] = None /\ told["cve"] = panels.told["cve"]
  BY PanelsTyped, RanFields, ToldFields
<1> HIDE DEF ran, told
<1>3. /\ panels'.ran = ran /\ panels'.told = told /\ panels'.tab = panels.tab
      /\ panels'.asked = panels.asked /\ panels'.answered = panels.answered
      /\ panels'.chatting = panels.chatting /\ panels'.entry = panels.entry
      /\ panels'.artifact = panels.artifact
      /\ panels'.pending = panels.pending /\ panels'.reason = panels.reason
  BY <1>1, PanelsTyped, PanelsAre
<1> QED
  BY <1>2, <1>3 DEF CveKept, ChatKept, EvidenceKept, ReasonKept

(* So does that of the CVE lookup, *)
LEMMA CveEffectPlaces ==
    ASSUME ITypes, CveEffect
    PROVE  /\ panels'.ran.cve = app.selected /\ panels'.told["cve"] = None /\ panels'.tab = panels.tab
           /\ ExplainKept /\ ChatKept /\ EvidenceKept /\ ReasonKept
<1> DEFINE ran == [panels.ran EXCEPT !.cve = app.selected]
           told == [panels.told EXCEPT !["cve"] = None]
<1>1. panels' = [panels EXCEPT !.ran = ran, !.told = told]
  BY PanelsTyped, PanelsAre DEF CveEffect
<1>2. /\ ran.explain = panels.ran.explain /\ ran.cve = app.selected /\ ran.chat = panels.ran.chat
      /\ ran.evidence = panels.ran.evidence
      /\ told["cve"] = None /\ told["explain"] = panels.told["explain"]
  BY PanelsTyped, RanFields, ToldFields
<1> HIDE DEF ran, told
<1>3. /\ panels'.ran = ran /\ panels'.told = told /\ panels'.tab = panels.tab
      /\ panels'.asked = panels.asked /\ panels'.answered = panels.answered
      /\ panels'.chatting = panels.chatting /\ panels'.entry = panels.entry
      /\ panels'.artifact = panels.artifact
      /\ panels'.pending = panels.pending /\ panels'.reason = panels.reason
  BY <1>1, PanelsTyped, PanelsAre
<1> QED
  BY <1>2, <1>3 DEF ExplainKept, ChatKept, EvidenceKept, ReasonKept

(* of the chat, *)
LEMMA ChatEffectPlaces ==
    ASSUME ITypes, ChatEffect
    PROVE  /\ panels'.ran.chat = app.selected /\ panels'.asked = None /\ panels'.answered = None
           /\ panels'.tab = panels.tab /\ panels'.chatting = panels.chatting
           /\ ExplainKept /\ CveKept /\ EvidenceKept /\ ReasonKept
<1> DEFINE ran == [panels.ran EXCEPT !.chat = app.selected]
<1>1. panels' = [panels EXCEPT !.ran = ran, !.asked = None, !.answered = None]
  BY PanelsTyped, PanelsAre DEF ChatEffect
<1>2. /\ ran.explain = panels.ran.explain /\ ran.cve = panels.ran.cve /\ ran.chat = app.selected
      /\ ran.evidence = panels.ran.evidence
  BY PanelsTyped, RanFields
<1> HIDE DEF ran
<1>3. /\ panels'.ran = ran /\ panels'.told = panels.told /\ panels'.tab = panels.tab
      /\ panels'.asked = None /\ panels'.answered = None
      /\ panels'.chatting = panels.chatting /\ panels'.entry = panels.entry
      /\ panels'.artifact = panels.artifact
      /\ panels'.pending = panels.pending /\ panels'.reason = panels.reason
  BY <1>1, PanelsTyped, PanelsAre
<1> QED
  BY <1>2, <1>3 DEF ExplainKept, CveKept, EvidenceKept, ReasonKept

(* and of the evidence. *)
LEMMA EvidenceEffectPlaces ==
    ASSUME ITypes, EvidenceEffect
    PROVE  /\ panels'.ran.evidence = Key /\ panels'.entry = None /\ panels'.artifact = None
           /\ ExplainKept /\ CveKept /\ ChatKept /\ ReasonKept
<1> DEFINE ran == [panels.ran EXCEPT !.evidence = Key]
<1>1. panels' = [panels EXCEPT !.mounted = TRUE, !.ran = ran, !.entry = None, !.artifact = None,
                               !.requested = panels.open]
  BY PanelsTyped, PanelsAre DEF EvidenceEffect
<1>2. /\ ran.explain = panels.ran.explain /\ ran.cve = panels.ran.cve
      /\ ran.chat = panels.ran.chat /\ ran.evidence = Key
  BY PanelsTyped, RanFields
<1> HIDE DEF ran
<1>3. /\ panels'.ran = ran /\ panels'.told = panels.told /\ panels'.tab = panels.tab
      /\ panels'.asked = panels.asked /\ panels'.answered = panels.answered
      /\ panels'.chatting = panels.chatting /\ panels'.entry = None
      /\ panels'.artifact = None
      /\ panels'.pending = panels.pending /\ panels'.reason = panels.reason
  BY <1>1, PanelsTyped, PanelsAre
<1> QED
  BY <1>2, <1>3 DEF ExplainKept, CveKept, ChatKept, ReasonKept

(* A tab shown anew has no answer yet. *)
LEMMA ShowTabPlaces ==
    ASSUME ITypes, NEW tab \in {"intel", "chat"}, ShowTab(tab)
    PROVE  /\ panels'.ran.cve = None /\ panels'.told["cve"] = None
           /\ panels'.ran.chat = None /\ panels'.asked = None /\ panels'.answered = None
           /\ ExplainKept /\ EvidenceKept /\ ReasonKept
<1> DEFINE ran == [panels.ran EXCEPT !.cve = None, !.chat = None]
           told == [panels.told EXCEPT !["cve"] = None]
<1>1. panels' = [panels EXCEPT !.tab = tab, !.ran = ran, !.told = told, !.chatting = FALSE,
                               !.asked = None, !.answered = None]
  BY PanelsTyped, PanelsAre DEF ShowTab
<1>2. /\ ran.explain = panels.ran.explain /\ ran.cve = None
      /\ ran.chat = None /\ ran.evidence = panels.ran.evidence
      /\ told["cve"] = None /\ told["explain"] = panels.told["explain"]
  BY PanelsTyped, RanFields, ToldFields
<1> HIDE DEF ran, told
<1>3. /\ panels'.ran = ran /\ panels'.told = told
      /\ panels'.asked = None /\ panels'.answered = None
      /\ panels'.entry = panels.entry /\ panels'.artifact = panels.artifact
      /\ panels'.pending = panels.pending /\ panels'.reason = panels.reason
  BY <1>1, PanelsTyped, PanelsAre
<1> QED
  BY <1>2, <1>3 DEF ExplainKept, EvidenceKept, ReasonKept

(* Which panel each of the other controls changes, and how. *)
LEMMA SmallActsPlaces ==
    ASSUME ITypes
    PROVE  /\ TypeReason =>
                /\ ExplainKept /\ CveKept /\ ChatKept /\ EvidenceKept
                /\ panels'.pending = panels.pending
                /\ panels'.reason = [finding |-> app.selected, status |-> panels.pending]
           /\ CancelReason =>
                ExplainKept /\ CveKept /\ ChatKept /\ EvidenceKept /\ panels'.pending = None
           /\ ConfirmReason =>
                ExplainKept /\ CveKept /\ ChatKept /\ EvidenceKept /\ panels'.pending = None
           /\ \A s : panels' = [panels EXCEPT !.pending = s, !.reason = None] =>
                ExplainKept /\ CveKept /\ ChatKept /\ EvidenceKept /\ panels'.reason = None
           /\ ToggleEvidence => ExplainKept /\ CveKept /\ ChatKept /\ EvidenceKept /\ ReasonKept
           /\ panels' = [panels EXCEPT !.artifact = None] =>
                /\ ExplainKept /\ CveKept /\ ChatKept /\ ReasonKept
                /\ panels'.ran.evidence = panels.ran.evidence /\ panels'.entry = panels.entry
                /\ panels'.artifact = None
           /\ Ask => /\ ExplainKept /\ CveKept /\ EvidenceKept /\ ReasonKept
                     /\ panels'.tab = panels.tab /\ panels'.ran.chat = panels.ran.chat
                     /\ panels'.answered = panels.answered /\ panels'.chatting = TRUE
                     /\ panels'.asked = app.selected
<1>0. panels \in Panels
  BY PanelsTyped
<1> USE DEF ExplainKept, CveKept, ChatKept, EvidenceKept, ReasonKept
<1>1. TypeReason =>
        /\ ExplainKept /\ CveKept /\ ChatKept /\ EvidenceKept
        /\ panels'.pending = panels.pending
        /\ panels'.reason = [finding |-> app.selected, status |-> panels.pending]
  <2> DEFINE typed == [finding |-> app.selected, status |-> panels.pending]
  <2>1. TypeReason => panels' = [panels EXCEPT !.reason = typed]
    BY DEF TypeReason
  <2> HIDE DEF typed
  <2>2. TypeReason =>
        /\ ExplainKept /\ CveKept /\ ChatKept /\ EvidenceKept
        /\ panels'.pending = panels.pending
        /\ panels'.reason = typed
    BY <1>0, <2>1, PanelsAre
  <2> QED
    BY <2>2 DEF typed
<1>2. CancelReason =>
        ExplainKept /\ CveKept /\ ChatKept /\ EvidenceKept /\ panels'.pending = None
  BY <1>0, PanelsAre DEF CancelReason
<1>3. ConfirmReason =>
        ExplainKept /\ CveKept /\ ChatKept /\ EvidenceKept /\ panels'.pending = None
  BY <1>0, PanelsAre DEF ConfirmReason
<1>4. \A s : panels' = [panels EXCEPT !.pending = s, !.reason = None] =>
        ExplainKept /\ CveKept /\ ChatKept /\ EvidenceKept /\ panels'.reason = None
  BY <1>0, PanelsAre
<1>5. ToggleEvidence => ExplainKept /\ CveKept /\ ChatKept /\ EvidenceKept /\ ReasonKept
  BY <1>0, PanelsAre DEF ToggleEvidence
<1>6. panels' = [panels EXCEPT !.artifact = None] =>
        /\ ExplainKept /\ CveKept /\ ChatKept /\ ReasonKept
        /\ panels'.ran.evidence = panels.ran.evidence /\ panels'.entry = panels.entry
        /\ panels'.artifact = None
  BY <1>0, PanelsAre
<1>7. Ask => /\ ExplainKept /\ CveKept /\ EvidenceKept /\ ReasonKept
             /\ panels'.tab = panels.tab /\ panels'.ran.chat = panels.ran.chat
             /\ panels'.answered = panels.answered /\ panels'.chatting = TRUE
             /\ panels'.asked = app.selected
  BY <1>0, PanelsAre DEF Ask
<1> QED
  BY <1>1, <1>2, <1>3, <1>4, <1>5, <1>6, <1>7

(* An answer changes its own panel alone, and only while it is waited for. *)
LEMMA AnswerPlaces ==
    ASSUME ITypes, NEW c \in Slots, PanelsContinue(c)
    PROVE  /\ ReasonKept
           /\ \/ ExplainKept
              \/ /\ LookupAnswered(c) /\ call[c].task = "explain" /\ call[c].live
                 /\ panels'.ran.explain = panels.ran.explain /\ panels'.told["explain"] = call[c].of
           /\ \/ CveKept
              \/ /\ LookupAnswered(c) /\ call[c].task = "cve" /\ call[c].live
                 /\ panels'.tab = panels.tab /\ panels'.ran.cve = panels.ran.cve
                 /\ panels'.told["cve"] = call[c].of
           /\ \/ ChatKept
              \/ /\ ChatAnswered(c) /\ call[c].task = "chat" /\ call[c].live
                 /\ panels'.tab = panels.tab /\ panels'.ran.chat = panels.ran.chat
                 /\ panels'.chatting = FALSE /\ panels'.asked = None
                 /\ panels'.answered \in {panels.answered, panels.asked, call[c].of}
                 /\ panels'.answered # panels.answered =>
                       panels.asked # None /\ panels'.answered = call[c].of
           /\ \/ EvidenceKept
              \/ /\ LookupAnswered(c) /\ call[c].task = "evidence" /\ call[c].live
                 /\ panels'.ran.evidence = panels.ran.evidence /\ panels'.entry = call[c].of
                 /\ panels'.artifact = panels.artifact
              \/ /\ LookupAnswered(c) /\ call[c].task = "artifact" /\ call[c].live
                 /\ panels'.ran.evidence = panels.ran.evidence /\ panels'.entry = panels.entry
                 /\ panels'.artifact = call[c].of
<1>0. panels \in Panels /\ panels.told \in Told
  BY PanelsTyped
<1>1. CASE UNCHANGED panels
  BY <1>1, PlacesStay
<1>2. CASE /\ LookupAnswered(c) /\ call[c].live /\ call[c].task \in Lookups
           /\ panels' = [panels EXCEPT !.told = [panels.told EXCEPT ![call[c].task] = call[c].of]]
  <2> DEFINE told == [panels.told EXCEPT ![call[c].task] = call[c].of]
  <2>1. /\ call[c].task = "explain" =>
             told["explain"] = call[c].of /\ told["cve"] = panels.told["cve"]
        /\ call[c].task = "cve" =>
             told["cve"] = call[c].of /\ told["explain"] = panels.told["explain"]
    BY <1>0, ToldFields
  <2>2. panels' = [panels EXCEPT !.told = told]
    BY <1>2
  <2> HIDE DEF told
  <2>3. /\ panels'.told = told /\ panels'.ran = panels.ran /\ panels'.tab = panels.tab
        /\ panels'.asked = panels.asked /\ panels'.answered = panels.answered
        /\ panels'.chatting = panels.chatting /\ panels'.entry = panels.entry
        /\ panels'.artifact = panels.artifact
        /\ panels'.pending = panels.pending /\ panels'.reason = panels.reason
    BY <1>0, <2>2, PanelsAre
  <2>4. call[c].task \in {"explain", "cve"}
    BY <1>2 DEF Lookups
  <2>5. CASE call[c].task = "explain"
    BY <1>2, <2>1, <2>3, <2>5 DEF ExplainKept, CveKept, ChatKept, EvidenceKept, ReasonKept
  <2>6. CASE call[c].task = "cve"
    BY <1>2, <2>1, <2>3, <2>6 DEF ExplainKept, CveKept, ChatKept, EvidenceKept, ReasonKept
  <2> QED
    BY <2>4, <2>5, <2>6
<1>3. CASE /\ LookupAnswered(c) /\ call[c].live /\ call[c].task = "evidence"
           /\ panels' = [panels EXCEPT !.entry = call[c].of]
  BY <1>0, <1>3, PanelsAre DEF ExplainKept, CveKept, ChatKept, EvidenceKept, ReasonKept
<1>4. CASE /\ LookupAnswered(c) /\ call[c].live /\ call[c].task = "artifact"
           /\ panels' = [panels EXCEPT !.artifact = call[c].of]
  BY <1>0, <1>4, PanelsAre DEF ExplainKept, CveKept, ChatKept, EvidenceKept, ReasonKept
<1>5. CASE ChatAnswered(c) /\ ~UNCHANGED panels
  <2> DEFINE last == IF panels.asked # None THEN call[c].of ELSE panels.answered
  <2>1. /\ call[c].live /\ call[c].task = "chat"
        /\ panels' = [panels EXCEPT !.chatting = FALSE, !.asked = None, !.answered = last]
    BY <1>0, <1>5, PanelsAre DEF ChatAnswered
  <2>2. last \in {panels.answered, call[c].of}
        /\ (last # panels.answered => panels.asked # None /\ last = call[c].of)
    OBVIOUS
  <2> HIDE DEF last
  <2>3. /\ panels'.told = panels.told /\ panels'.ran = panels.ran /\ panels'.tab = panels.tab
        /\ panels'.asked = None /\ panels'.answered = last
        /\ panels'.chatting = FALSE /\ panels'.entry = panels.entry
        /\ panels'.artifact = panels.artifact
        /\ panels'.pending = panels.pending /\ panels'.reason = panels.reason
    BY <1>0, <2>1, PanelsAre
  <2> QED
    BY <1>5, <2>1, <2>2, <2>3 DEF ExplainKept, CveKept, ChatKept, EvidenceKept, ReasonKept
<1> QED
  BY <1>1, <1>2, <1>3, <1>4, <1>5, LookupAnsweredFits DEF PanelsContinue
-----------------------------------------------------------------------------
(* The panels' calls whose answer is wanted. *)

Awaits(r, task) == r # Idle /\ r.task = task /\ r.live

(* No call of this task is new, and those there are as they were. *)
StillOf(task) ==
    \A c \in Slots : Awaits(call'[c], task) => Awaits(call[c], task) /\ call'[c].of = call[c].of
NoneOf(task) == \A c \in Slots : ~Awaits(call'[c], task)
AllOf(task, of) == \A c \in Slots : Awaits(call'[c], task) => call'[c].of = of
AddsOf(task, of) ==
    \E d \in Slots : \A c \in Slots : Awaits(call'[c], task) =>
        \/ c # d /\ Awaits(call[c], task) /\ call'[c].of = call[c].of
        \/ c = d /\ call'[c].of = of

(* A step among other tasks begins no read of this one. *)
LEMMA StillAmong ==
    ASSUME NEW tasks, NEW task, task \notin tasks, Among(tasks)
    PROVE  StillOf(task)
BY DEF Among, StillOf, Awaits

(* Nor does a step without calls, *)
LEMMA StillSame == ASSUME UNCHANGED call, NEW task PROVE StillOf(task)
BY DEF StillOf

(* one that drops calls, after which no dropped task is waited for, *)
LEMMA StillDropped ==
    ASSUME NEW tasks, Dropped(call', tasks), NEW task
    PROVE  StillOf(task) /\ (task \in tasks => NoneOf(task))
<1>1. ASSUME NEW c \in Slots, Awaits(call'[c], task)
      PROVE  call'[c] = call[c] /\ task \notin tasks
  <2>1. CASE call[c] # Idle /\ call[c].task \in tasks
    <3>1. call'[c].live = FALSE
      BY <2>1 DEF Dropped
    <3> QED
      BY <1>1, <3>1 DEF Awaits
  <2>2. CASE ~(call[c] # Idle /\ call[c].task \in tasks)
    <3>1. call'[c] = call[c]
      BY <2>2 DEF Dropped
    <3> QED
      BY <1>1, <2>2, <3>1 DEF Awaits
  <2> QED
    BY <2>1, <2>2
<1> QED
  BY <1>1 DEF StillOf, NoneOf

(* or one that drops calls and begins another, the only one waited for then. *)
LEMMA StillRestarted ==
    ASSUME NEW tasks, NEW calls, Dropped(calls, tasks),
           NEW new, NEW of, NEW saw, NEW steps, Begun(calls, new, of, saw, steps), NEW task
    PROVE  /\ task # new => StillOf(task)
           /\ new \in tasks => AllOf(new, of)
<1>1. PICK d \in Slots, w \in Requests :
        /\ call[d] = Idle /\ call'[d] = w /\ w.task = new /\ w.of = of
        /\ \A e \in Slots \ {d} : call'[e] = calls[e]
  BY DEF Begun, BeganIn
<1>2. ASSUME NEW c \in Slots \ {d}, NEW k, Awaits(call'[c], k)
      PROVE  call'[c] = call[c] /\ k \notin tasks
  <2>0. call'[c] = calls[c]
    BY <1>1
  <2>1. CASE call[c] # Idle /\ call[c].task \in tasks
    <3>1. calls[c].live = FALSE
      BY <2>1 DEF Dropped
    <3> QED
      BY <1>2, <2>0, <3>1 DEF Awaits
  <2>2. CASE ~(call[c] # Idle /\ call[c].task \in tasks)
    <3>1. call'[c] = call[c]
      BY <2>0, <2>2 DEF Dropped
    <3> QED
      BY <1>2, <2>2, <3>1 DEF Awaits
  <2> QED
    BY <2>1, <2>2
<1>3. task # new => StillOf(task)
  <2> SUFFICES ASSUME task # new, NEW c \in Slots, Awaits(call'[c], task)
               PROVE  Awaits(call[c], task) /\ call'[c].of = call[c].of
    BY DEF StillOf
  <2>1. c # d
    BY <1>1 DEF Awaits
  <2>2. call'[c] = call[c]
    BY <1>2, <2>1
  <2> QED
    BY <2>2
<1>4. new \in tasks => AllOf(new, of)
  BY <1>1, <1>2 DEF AllOf
<1> QED
  BY <1>3, <1>4

(* A step that begins a read adds that one alone. *)
LEMMA StillBegun ==
    ASSUME NEW new, NEW of, NEW saw, NEW steps, Begun(call, new, of, saw, steps), NEW task
    PROVE  (task # new => StillOf(task)) /\ AddsOf(new, of)
<1>1. PICK d \in Slots, w \in Requests :
        /\ call[d] = Idle /\ call'[d] = w /\ w.task = new /\ w.of = of
        /\ \A e \in Slots \ {d} : call'[e] = call[e]
  BY DEF Begun, BeganIn
<1>2. task # new => StillOf(task)
  BY <1>1 DEF StillOf, Awaits
<1>3. \A c \in Slots : Awaits(call'[c], new) =>
        \/ c # d /\ Awaits(call[c], new) /\ call'[c].of = call[c].of
        \/ c = d /\ call'[c].of = of
  BY <1>1
<1> QED
  BY <1>2, <1>3 DEF AddsOf

(* A step that ends a read adds none, and its slot waits for nothing. *)
LEMMA StillFreed ==
    ASSUME NEW c \in Slots, FreedAt(c), NEW task
    PROVE  StillOf(task) /\ \A d \in Slots : Awaits(call'[d], task) => d # c
BY DEF FreedAt, OnlyAt, StillOf, Awaits

(* The other components leave the panels and their calls alone. *)
LEMMA PanelsLeft ==
    ASSUME ITypes, ShellStep \/ ManagerMoves \/ ClientStep, NEW task \in PanelTasks
    PROVE  UNCHANGED panels /\ StillOf(task)
<1>0. task \in {"explain", "cve", "evidence", "artifact", "chat"}
  BY DEF PanelTasks, Lookups
<1>1. UNCHANGED panels
  BY DEF ShellStep, ManagerMoves, ClientStep
<1>2. CASE ShellStep
  <2>1. task \notin OfShell
    BY <1>0 DEF OfShell, ShellTasks
  <2> QED
    BY <1>1, <1>2, <2>1, ShellAmong, StillAmong
<1>3. CASE ManagerMoves
  <2>1. task \notin ListTasks
    BY <1>0 DEF ListTasks, ManagerTasks
  <2> QED
    BY <1>1, <1>3, <2>1, ManagerAmong, StillAmong
<1>4. CASE ClientStep
  <2>1. ASSUME NEW c \in Slots, Awaits(call'[c], task)
        PROVE  Awaits(call[c], task) /\ call'[c].of = call[c].of
    <3>1. ClientMove(call[c], call'[c])
      BY <1>4, ClientMoves DEF ClientStep
    <3>2. CASE call'[c] = call[c]
      BY <2>1, <3>2
    <3>3. CASE call'[c] # call[c]
      <4>1. call[c] \in Requests /\ SameCall(call'[c], call[c])
        BY <3>1, <3>3 DEF ClientMove
      <4> QED
        BY <2>1, <4>1, NotIdle DEF Awaits, SameCall
    <3> QED
      BY <3>2, <3>3
  <2> QED
    BY <1>1, <2>1 DEF StillOf
<1> QED
  BY <1>2, <1>3, <1>4

IExplain ==
    /\ panels.told["explain"] # None =>
         panels.ran.explain # None /\ panels.told["explain"] = panels.ran.explain[1]
    /\ \A c \in Slots : Awaits(call[c], "explain") =>
         panels.ran.explain # None /\ call[c].of = panels.ran.explain[1]
ICve ==
    /\ panels.told["cve"] \in {None, panels.ran.cve}
    /\ panels.tab = "chat" => panels.ran.cve = None
    /\ \A c \in Slots : Awaits(call[c], "cve") => call[c].of = panels.ran.cve
IChat ==
    /\ panels.tab = "intel" => panels.ran.chat = None
    /\ panels.asked \in {None, panels.ran.chat} /\ panels.answered \in {None, panels.ran.chat}
    /\ \A c \in Slots : Awaits(call[c], "chat") =>
         /\ panels.chatting /\ panels.asked \in {None, call[c].of}
         /\ \A d \in Slots : Awaits(call[d], "chat") => d = c
IEvidence ==
    /\ panels.entry \in {None, panels.ran.evidence}
    /\ \A c \in Slots : Awaits(call[c], "evidence") => call[c].of = panels.ran.evidence
    /\ "artifact" \notin overlapped =>
         /\ panels.artifact \in {None, panels.ran.evidence}
         /\ \A c \in Slots : Awaits(call[c], "artifact") => call[c].of = panels.ran.evidence
IReason ==
    panels.pending # None /\ panels.reason # None =>
        /\ panels.reason.status = panels.pending
        /\ panels.reason.finding = app.selected \/ "pending" \in overlapped
IPanels == IExplain /\ ICve /\ IChat /\ IEvidence /\ IReason

(* A step that leaves the explanation and its reads alone keeps its part. *)
LEMMA ExplainStays == ASSUME IExplain, ExplainKept, StillOf("explain") PROVE IExplain'
BY DEF IExplain, ExplainKept, StillOf

(* The same of the CVE lookup, *)
LEMMA CveStays == ASSUME ICve, CveKept, StillOf("cve") PROVE ICve'
BY DEF ICve, CveKept, StillOf

(* of the chat, *)
LEMMA ChatStays == ASSUME IChat, ChatKept, StillOf("chat") PROVE IChat'
BY DEF IChat, ChatKept, StillOf

(* of the evidence, *)
LEMMA EvidenceStays ==
    ASSUME IEvidence, EvidenceKept, StillOf("evidence"), StillOf("artifact"),
           overlapped \subseteq overlapped'
    PROVE  IEvidence'
BY DEF IEvidence, EvidenceKept, StillOf

(* and of the typed reason. *)
LEMMA ReasonStays ==
    ASSUME IReason, ReasonKept, overlapped \subseteq overlapped',
           panels.pending # None /\ app'.selected # app.selected => "pending" \in overlapped'
    PROVE  IReason'
BY DEF IReason, ReasonKept

(* Leaving the workspace keeps the panels' invariant. *)
LEMMA UnmountHolds ==
    ASSUME ITypes, IPanels, Unmount
    PROVE  IPanels'
<1>1. panels' = NewPanels /\ Dropped(call', PanelTasks)
  BY UnmountFits DEF Unmount
<1>2. /\ NoneOf("explain") /\ NoneOf("cve") /\ NoneOf("chat") /\ NoneOf("evidence")
      /\ NoneOf("artifact")
  BY <1>1, StillDropped DEF PanelTasks, Lookups
<1>3. /\ panels'.told["explain"] = None /\ panels'.told["cve"] = None
      /\ panels'.ran.cve = None /\ panels'.ran.chat = None /\ panels'.asked = None
      /\ panels'.answered = None /\ panels'.entry = None /\ panels'.artifact = None
      /\ panels'.pending = None
  BY <1>1 DEF NewPanels, Lookups
<1>4. IExplain' /\ ICve' /\ IChat'
  BY <1>2, <1>3 DEF IExplain, ICve, IChat, NoneOf
<1>5. IEvidence' /\ IReason'
  BY <1>2, <1>3 DEF IEvidence, IReason, NoneOf
<1> QED
  BY <1>4, <1>5 DEF IPanels

(* React's effects keep it: each is about the finding shown when it runs. *)
LEMMA EffectsHold ==
    ASSUME ITypes, IPanels, IOverlap', overlapped \subseteq overlapped', PanelEffects
    PROVE  IPanels'
<1> USE DEF IPanels
<1>0. UNCHANGED app /\ None \notin Findings
  BY ScanAssumption DEF PanelEffects, PanelsStep, scanVars
<1>1. CASE Unmount
  BY <1>1, UnmountHolds
<1>2. CASE ExplainEffect
  <2>1. PICK calls : /\ Dropped(calls, {"explain"})
                     /\ Begun(calls, "explain", app.selected, None, {"read"})
    BY <1>2, ExplainEffectFits
  <2>2. /\ AllOf("explain", app.selected) /\ StillOf("cve") /\ StillOf("chat")
        /\ StillOf("evidence") /\ StillOf("artifact")
    BY <2>1, StillRestarted
  <2>3. /\ panels'.ran.explain = Explained /\ panels'.told["explain"] = None
        /\ CveKept /\ ChatKept /\ EvidenceKept /\ ReasonKept
    BY <1>2, ExplainEffectPlaces
  <2>4. Explained # None /\ Explained[1] = app.selected
    <3>1. Explained \in Findings \X FindingStatus
      BY <1>2, MountedTyped DEF ExplainEffect, ExplainDue, ITypes, TypeOK, RunsTyped
    <3>2. panels.ran.explain # Explained
      BY <1>2 DEF ExplainEffect, ExplainDue
    <3>3. None \notin Findings \X FindingStatus
      BY StatusAssumption
    <3> QED
      BY <3>1, <3>3 DEF Explained
  <2>5. IExplain'
    BY <2>2, <2>3, <2>4 DEF IExplain, AllOf
  <2> QED
    BY <1>0, <2>2, <2>3, <2>5, CveStays, ChatStays, EvidenceStays, ReasonStays
<1>3. CASE CveEffect
  <2>1. PICK calls : /\ Dropped(calls, {"cve"})
                     /\ Begun(calls, "cve", app.selected, None, {"read"})
    BY <1>3, CveEffectFits
  <2>2. /\ AllOf("cve", app.selected) /\ StillOf("explain") /\ StillOf("chat")
        /\ StillOf("evidence") /\ StillOf("artifact")
    BY <2>1, StillRestarted
  <2>3. /\ panels'.ran.cve = app.selected /\ panels'.told["cve"] = None /\ panels'.tab = panels.tab
        /\ ExplainKept /\ ChatKept /\ EvidenceKept /\ ReasonKept
    BY <1>3, CveEffectPlaces
  <2>4. panels.tab = "intel"
    BY <1>3 DEF CveEffect, CveDue
  <2>5. ICve'
    BY <2>2, <2>3, <2>4 DEF ICve, AllOf
  <2> QED
    BY <1>0, <2>2, <2>3, <2>5, ExplainStays, ChatStays, EvidenceStays, ReasonStays
<1>4. CASE ChatEffect
  <2>2. UNCHANGED call /\ panels.tab = "chat"
    BY <1>4, ChatEffectFits DEF ChatEffect, ChatDue
  <2>3. /\ panels'.ran.chat = app.selected /\ panels'.asked = None /\ panels'.answered = None
        /\ panels'.tab = panels.tab /\ panels'.chatting = panels.chatting
        /\ ExplainKept /\ CveKept /\ EvidenceKept /\ ReasonKept
    BY <1>4, ChatEffectPlaces
  <2>4. IChat'
    BY <2>2, <2>3 DEF IChat
  <2> QED
    BY <1>0, <2>2, <2>3, <2>4, StillSame, ExplainStays, CveStays, EvidenceStays, ReasonStays
<1>5. CASE EvidenceEffect
  <2>1. AllOf("evidence", Key) /\ StillOf("explain") /\ StillOf("cve") /\ StillOf("chat")
    <3>1. CASE \E calls : /\ Dropped(calls, {"evidence"})
                          /\ Begun(calls, "evidence", Key, None, {"read"})
      BY <3>1, StillRestarted
    <3>2. CASE Dropped(call', {"evidence"})
      <4>1. NoneOf("evidence")
        BY <3>2, StillDropped
      <4> QED
        BY <3>2, <4>1, StillDropped DEF NoneOf, AllOf
    <3> QED
      BY <1>5, <3>1, <3>2, EvidenceEffectFits
  <2>3. /\ panels'.ran.evidence = Key /\ panels'.entry = None /\ panels'.artifact = None
        /\ ExplainKept /\ CveKept /\ ChatKept /\ ReasonKept
    BY <1>5, EvidenceEffectPlaces
  <2>4. ASSUME "artifact" \notin overlapped', NEW c \in Slots, Awaits(call'[c], "artifact")
        PROVE  call'[c].of = Key
    <3>1. ~Misplaced'
      BY <2>4 DEF IOverlap
    <3>2. Key' = Key
      BY <1>0 DEF Key
    <3> QED
      BY <2>4, <3>1, <3>2 DEF Misplaced, Open, Awaits
  <2>5. IEvidence'
    BY <2>1, <2>3, <2>4 DEF IEvidence, AllOf
  <2> QED
    BY <1>0, <2>1, <2>3, <2>5, ExplainStays, CveStays, ChatStays, ReasonStays
<1> QED
  BY <1>1, <1>2, <1>3, <1>4, <1>5 DEF PanelEffects

(* The panels' controls keep it. *)
LEMMA PanelsActHolds ==
    ASSUME ITypes, IPanels, overlapped \subseteq overlapped', UNCHANGED app, Settled, PanelsAct
    PROVE  IPanels'
<1> USE DEF IPanels
<1>1. ASSUME ExplainKept, CveKept, ChatKept, EvidenceKept,
             StillOf("explain"), StillOf("cve"), StillOf("chat"), StillOf("evidence"),
             StillOf("artifact"), IReason'
      PROVE  IPanels'
  BY <1>1, ExplainStays, CveStays, ChatStays, EvidenceStays
<1>2. ASSUME NEW status \in FindingStatus, NEW reason \in Reason \union {None}, Patched(status, reason)
      PROVE  /\ StillOf("explain") /\ StillOf("cve") /\ StillOf("chat") /\ StillOf("evidence")
             /\ StillOf("artifact")
  <2>1. PICK of, saw : Begun(call, "triage", of, saw, Sending)
    BY <1>2, PatchedFits
  <2> QED
    BY <2>1, StillBegun
<1>3. CASE TypeReason
  <2>1. UNCHANGED call
    BY <1>3 DEF TypeReason, clientVars
  <2>2. /\ ExplainKept /\ CveKept /\ ChatKept /\ EvidenceKept
        /\ panels'.pending = panels.pending
        /\ panels'.reason = [finding |-> app.selected, status |-> panels.pending]
    BY <1>3, SmallActsPlaces
  <2>3. IReason'
    BY <2>2 DEF IReason
  <2> QED
    BY <1>1, <2>1, <2>2, <2>3, StillSame
<1>4. CASE CancelReason
  <2>1. UNCHANGED call
    BY <1>4 DEF CancelReason, clientVars
  <2> QED
    BY <1>1, <1>4, <2>1, SmallActsPlaces, StillSame DEF IReason
<1>5. CASE ConfirmReason
  <2>1. Patched(panels.pending, panels.reason) /\ panels.pending \in FindingStatus
        /\ panels.reason \in Reason \union {None}
    BY <1>5, ConfirmReasonFits
  <2> QED
    BY <1>1, <1>2, <1>5, <2>1, SmallActsPlaces DEF IReason
<1>6. CASE MarkForReview
  <2>1. Patched("triaged", None) /\ "triaged" \in FindingStatus /\ None \in Reason \union {None}
        /\ UNCHANGED panels
    BY <1>6 DEF MarkForReview, FindingStatus
  <2>2. ReasonKept /\ IReason'
    BY <2>1, PlacesStay, ReasonStays
  <2> QED
    BY <1>1, <1>2, <2>1, <2>2, PlacesStay
<1>7. CASE \E s \in Statuses : PickStatus(s)
  <2>1. PICK s \in FindingStatus : PickStatus(s)
    BY <1>7, StatusAssumption
  <2>2. CASE UNCHANGED panels /\ Patched(s, None)
    <3>1. None \in Reason \union {None}
      OBVIOUS
    <3>2. ReasonKept /\ IReason'
      BY <2>2, PlacesStay, ReasonStays
    <3> QED
      BY <1>1, <1>2, <2>2, <3>1, <3>2, PlacesStay
  <2>3. CASE UNCHANGED clientVars /\ panels' = [panels EXCEPT !.pending = s, !.reason = None]
    <3>1. UNCHANGED call
      BY <2>3 DEF clientVars
    <3>2. ExplainKept /\ CveKept /\ ChatKept /\ EvidenceKept /\ panels'.reason = None
      BY <2>3, SmallActsPlaces
    <3> QED
      BY <1>1, <3>1, <3>2, StillSame DEF IReason
  <2> QED
    BY <2>1, <2>2, <2>3, PickStatusFits
<1>8. CASE ToggleEvidence
  <2>0. Mounted /\ panels.ran.evidence = Key
    BY <1>8 DEF ToggleEvidence, Settled, PanelsSettled, EvidenceDue
  <2>1. ExplainKept /\ CveKept /\ ChatKept /\ EvidenceKept /\ ReasonKept
    BY <1>8, SmallActsPlaces
  <2>2. CASE Dropped(call', {"evidence"})
    BY <1>1, <2>1, <2>2, StillDropped, ReasonStays
  <2>3. CASE Begun(call, "evidence", Key, None, {"read"})
    <3>1. /\ AddsOf("evidence", Key) /\ StillOf("explain") /\ StillOf("cve") /\ StillOf("chat")
          /\ StillOf("artifact")
      BY <2>3, StillBegun
    <3>2. IEvidence'
      BY <2>0, <2>1, <3>1 DEF IEvidence, EvidenceKept, AddsOf, StillOf
    <3> QED
      BY <2>1, <3>1, <3>2, ExplainStays, CveStays, ChatStays, ReasonStays
  <2> QED
    BY <1>8, <2>2, <2>3, ToggleEvidenceFits
<1>9. CASE OpenArtifact
  <2>0. Mounted /\ panels.ran.evidence = Key
    BY <1>9 DEF OpenArtifact, ArtifactsListed, Settled, PanelsSettled, EvidenceDue
  <2>1. CASE UNCHANGED call /\ panels' = [panels EXCEPT !.artifact = None]
    <3>1. /\ ExplainKept /\ CveKept /\ ChatKept /\ ReasonKept
          /\ panels'.ran.evidence = panels.ran.evidence /\ panels'.entry = panels.entry
          /\ panels'.artifact = None
      BY <2>1, SmallActsPlaces
    <3>2. IEvidence'
      BY <2>1, <3>1 DEF IEvidence
    <3> QED
      BY <2>1, <3>1, <3>2, StillSame, ExplainStays, CveStays, ChatStays, ReasonStays
  <2>2. CASE Begun(call, "artifact", Key, None, {"read"}) /\ UNCHANGED panels
    <3>1. /\ AddsOf("artifact", Key) /\ StillOf("explain") /\ StillOf("cve") /\ StillOf("chat")
          /\ StillOf("evidence")
      BY <2>2, StillBegun
    <3>2. IEvidence'
      BY <2>0, <2>2, <3>1 DEF IEvidence, AddsOf, StillOf
    <3> QED
      BY <2>2, <3>1, <3>2, PlacesStay, ExplainStays, CveStays, ChatStays, ReasonStays
  <2> QED
    BY <1>9, <2>1, <2>2, OpenArtifactFits
<1>10. CASE Ask
  <2>0. panels.ran.chat = app.selected /\ ~panels.chatting /\ panels.tab = "chat"
    BY <1>10 DEF Ask, MayAsk, Settled, PanelsSettled, ChatDue
  <2>1. /\ ExplainKept /\ CveKept /\ EvidenceKept /\ ReasonKept
        /\ panels'.tab = panels.tab /\ panels'.ran.chat = panels.ran.chat
        /\ panels'.answered = panels.answered /\ panels'.chatting = TRUE
        /\ panels'.asked = app.selected
    BY <1>10, SmallActsPlaces
  <2>2. Begun(call, "chat", app.selected, None, {"read"})
    BY <1>10, AskFits
  <2>3. /\ AddsOf("chat", app.selected) /\ StillOf("explain") /\ StillOf("cve")
        /\ StillOf("evidence") /\ StillOf("artifact")
    BY <2>2, StillBegun
  <2>4. \A c \in Slots : ~Awaits(call[c], "chat")
    BY <2>0 DEF IChat
  <2>5. PICK d \in Slots : \A c \in Slots : Awaits(call'[c], "chat") => c = d /\ call'[c].of = app.selected
    BY <2>3, <2>4 DEF AddsOf
  <2>6. IChat'
    BY <2>0, <2>1, <2>5 DEF IChat
  <2> QED
    BY <2>1, <2>3, <2>6, ExplainStays, CveStays, EvidenceStays, ReasonStays
<1>11. CASE \E tab \in {"intel", "chat"} : ShowTab(tab)
  <2>1. PICK tab \in {"intel", "chat"} : ShowTab(tab)
    BY <1>11
  <2>2. Dropped(call', {"cve", "chat"})
    BY <2>1, ShowTabFits
  <2>3. /\ NoneOf("cve") /\ NoneOf("chat") /\ StillOf("explain") /\ StillOf("evidence")
        /\ StillOf("artifact")
    BY <2>2, StillDropped
  <2>4. /\ panels'.ran.cve = None /\ panels'.told["cve"] = None
        /\ panels'.ran.chat = None /\ panels'.asked = None /\ panels'.answered = None
        /\ ExplainKept /\ EvidenceKept /\ ReasonKept
    BY <2>1, ShowTabPlaces
  <2>5. ICve' /\ IChat'
    BY <2>3, <2>4 DEF ICve, IChat, NoneOf
  <2> QED
    BY <2>3, <2>4, <2>5, ExplainStays, EvidenceStays, ReasonStays
<1> QED
  BY <1>3, <1>4, <1>5, <1>6, <1>7, <1>8, <1>9, <1>10, <1>11 DEF PanelsAct

(* The answers keep it: one that is waited for is about the finding shown. *)
LEMMA AnswersHold ==
    ASSUME ITypes, IPanels, overlapped \subseteq overlapped', NEW c \in Slots, PanelsContinue(c),
           UNCHANGED app
    PROVE  IPanels'
<1> USE DEF IPanels
<1>0. /\ FreedAt(c) /\ call[c] # Idle
  BY LookupAnsweredFits, ChatAnsweredFits, NotIdle DEF PanelsContinue
<1>1. /\ StillOf("explain") /\ StillOf("cve") /\ StillOf("chat") /\ StillOf("evidence")
      /\ StillOf("artifact")
  BY <1>0, StillFreed
<1>2. IReason'
  BY AnswerPlaces, ReasonStays
<1>3. IExplain'
  <2>1. CASE /\ call[c].task = "explain" /\ call[c].live
             /\ panels'.ran.explain = panels.ran.explain /\ panels'.told["explain"] = call[c].of
    BY <1>0, <1>1, <2>1 DEF IExplain, Awaits, StillOf
  <2> QED
    BY <1>1, <2>1, AnswerPlaces, ExplainStays
<1>4. ICve'
  <2>1. CASE /\ call[c].task = "cve" /\ call[c].live
             /\ panels'.tab = panels.tab /\ panels'.ran.cve = panels.ran.cve
             /\ panels'.told["cve"] = call[c].of
    BY <1>0, <1>1, <2>1 DEF ICve, Awaits, StillOf
  <2> QED
    BY <1>1, <2>1, AnswerPlaces, CveStays
<1>5. IChat'
  <2>1. CASE /\ call[c].task = "chat" /\ call[c].live
             /\ panels'.tab = panels.tab /\ panels'.ran.chat = panels.ran.chat
             /\ panels'.chatting = FALSE /\ panels'.asked = None
             /\ panels'.answered # panels.answered =>
                   panels.asked # None /\ panels'.answered = call[c].of
    <3>1. Awaits(call[c], "chat")
      BY <1>0, <2>1 DEF Awaits
    <3>2. \A d \in Slots : ~Awaits(call'[d], "chat")
      BY <1>0, <1>1, <3>1, StillFreed DEF IChat, StillOf
    <3>3. panels'.answered \in {None, panels.ran.chat}
      BY <2>1, <3>1 DEF IChat
    <3> QED
      BY <2>1, <3>2, <3>3 DEF IChat
  <2> QED
    BY <1>1, <2>1, AnswerPlaces, ChatStays
<1>6. IEvidence'
  <2>1. CASE /\ call[c].task = "evidence" /\ call[c].live
             /\ panels'.ran.evidence = panels.ran.evidence /\ panels'.entry = call[c].of
             /\ panels'.artifact = panels.artifact
    BY <1>0, <1>1, <2>1 DEF IEvidence, Awaits, StillOf
  <2>2. CASE /\ call[c].task = "artifact" /\ call[c].live
             /\ panels'.ran.evidence = panels.ran.evidence /\ panels'.entry = panels.entry
             /\ panels'.artifact = call[c].of
    BY <1>0, <1>1, <2>2 DEF IEvidence, Awaits, StillOf
  <2> QED
    BY <1>1, <2>1, <2>2, AnswerPlaces, EvidenceStays
<1> QED
  BY <1>2, <1>3, <1>4, <1>5, <1>6

(* Every step keeps it. *)
LEMMA PanelsHold ==
    ASSUME ITypes, IPanels, IOverlap, [Next]_vars
    PROVE  IPanels'
<1>1. CASE Next
  <2>1. /\ IOverlap' /\ overlapped \subseteq overlapped'
        /\ panels.pending # None /\ app'.selected # app.selected => "pending" \in overlapped'
    BY OverlapStep
  <2>2. CASE ShellStep \/ ManagerMoves \/ ClientStep
    <3>1. /\ "explain" \in PanelTasks /\ "cve" \in PanelTasks /\ "chat" \in PanelTasks
          /\ "evidence" \in PanelTasks /\ "artifact" \in PanelTasks
      BY DEF PanelTasks, Lookups
    <3>2. /\ UNCHANGED panels
          /\ StillOf("explain") /\ StillOf("cve") /\ StillOf("chat") /\ StillOf("evidence")
          /\ StillOf("artifact")
      BY <2>2, <3>1, PanelsLeft
    <3>3. ExplainKept /\ CveKept /\ ChatKept /\ EvidenceKept /\ ReasonKept
      BY <3>2, PlacesStay
    <3> QED
      BY <2>1, <3>2, <3>3, ExplainStays, CveStays, ChatStays, EvidenceStays, ReasonStays DEF IPanels
  <2>3. CASE PanelStep
    <3>1. UNCHANGED app
      BY <2>3, PanelAmong DEF scanVars
    <3> QED
      BY <2>1, <2>3, <3>1, EffectsHold, PanelsActHolds, AnswersHold DEF PanelStep
  <2> QED
    BY <1>1, <2>2, <2>3, StepKinds
<1>2. CASE UNCHANGED vars
  <2>1. UNCHANGED <<call, app, panels, overlapped>>
    BY <1>2 DEF vars, clientVars, scanVars
  <2> QED
    BY <2>1 DEF IPanels, IExplain, ICve, IChat, IEvidence, IReason
<1> QED
  BY <1>1, <1>2

(* It holds at the start. *)
LEMMA InitPanels == ASSUME Init PROVE IPanels
<1>1. \A c \in Slots : call[c] = Idle \/ call[c].task = "mount"
  BY DEF Init, Opening, Reviewing, Configuring, Call
<1>2. \A c \in Slots, task \in PanelTasks : ~Awaits(call[c], task)
  BY <1>1 DEF Awaits, PanelTasks, Lookups
<1>3. CASE panels = NewPanels
  <2>1. /\ panels.told["explain"] = None /\ panels.told["cve"] = None
        /\ panels.ran.cve = None /\ panels.ran.chat = None /\ panels.asked = None
        /\ panels.answered = None /\ panels.entry = None /\ panels.artifact = None
        /\ panels.pending = None
    BY <1>3 DEF NewPanels, Lookups
  <2> QED
    BY <1>2, <2>1 DEF IPanels, IExplain, ICve, IChat, IEvidence, IReason, PanelTasks, Lookups
<1>4. CASE panels = Deciding
  <2> DEFINE f == app.selected
             ran == [explain |-> Explained, cve |-> f, chat |-> None, evidence |-> Key]
             reason == [finding |-> f, status |-> "accepted_risk"]
             told == [l \in Lookups |-> None]
             p == NewPanels
  <2>1. /\ ran.cve = f /\ ran.chat = None /\ ran.evidence = Key
        /\ reason.finding = f /\ reason.status = "accepted_risk"
        /\ told["explain"] = None /\ told["cve"] = None
    BY DEF Lookups
  <2>2. panels = [NewPanels EXCEPT !.mounted = TRUE, !.ran = ran, !.pending = "accepted_risk",
                                   !.reason = reason]
    BY <1>4 DEF Deciding
  <2>3. /\ panels.told = told /\ panels.ran = ran /\ panels.reason = reason
        /\ panels.pending = "accepted_risk" /\ panels.tab = "intel"
        /\ panels.asked = None /\ panels.answered = None /\ panels.entry = None
        /\ panels.artifact = None
    <3> HIDE DEF ran, reason
    <3> QED
      BY <2>2 DEF NewPanels
  <2> HIDE DEF ran, reason, told
  <2> QED
    BY <1>2, <2>1, <2>3 DEF IPanels, IExplain, ICve, IChat, IEvidence, IReason, PanelTasks, Lookups
<1> QED
  BY <1>3, <1>4 DEF Init, Opening, Reviewing, Configuring

(* It says that a panel shows what belongs to the finding shown. *)
LEMMA PanelsFitting == ASSUME ITypes, IPanels PROVE PanelsOfSelected
<1> SUFFICES ASSUME Mounted, PanelsSettled
             PROVE  /\ panels.told["explain"] \in {None, app.selected}
                    /\ panels.told["cve"] \in {None, app.selected}
                    /\ {panels.asked, panels.answered} \subseteq {None, app.selected}
                    /\ panels.entry \in {None, Key}
                    /\ panels.artifact \in {None, Key} \/ "artifact" \in overlapped
  BY DEF PanelsOfSelected, Lookups
<1>1. panels.ran.explain = Explained /\ panels.ran.evidence = Key
  BY DEF PanelsSettled, ExplainDue, EvidenceDue
<1>2. Explained[1] = app.selected
  BY DEF Explained
<1>3. panels.tab \in {"intel", "chat"}
  BY PanelsTyped DEF ITypes, TypeOK, Panels
<1>4. panels.ran.cve \in {None, app.selected}
  BY <1>3 DEF PanelsSettled, CveDue, IPanels, ICve
<1>5. panels.ran.chat \in {None, app.selected}
  BY <1>3 DEF PanelsSettled, ChatDue, IPanels, IChat
<1> QED
  BY <1>1, <1>2, <1>4, <1>5 DEF IPanels, IExplain, ICve, IChat, IEvidence

(* Once the effects have run, whatever the panels show is of the finding and *)
(* the scan that are shown: every answer that is still wanted is about what   *)
(* its effect last ran for, and every effect has run for the selected one.    *)
THEOREM PanelsFollow == Spec => []PanelsOfSelected
<1>1. Init => ITypes /\ IOverlap /\ IPanels
  BY InitTypes, InitOverlap, InitPanels
<1>2. ITypes /\ IOverlap /\ IPanels /\ [Next]_vars => (ITypes /\ IOverlap /\ IPanels)'
  BY TypesStep, OverlapStep, PanelsHold
<1>3. ITypes /\ IPanels => PanelsOfSelected
  BY PanelsFitting
<1> QED
  BY <1>1, <1>2, <1>3, PTL DEF Spec
-----------------------------------------------------------------------------
(* What the operator decides about a finding. *)

(* What the decision captures. *)
Decided(saw) ==
    /\ saw.finding = app.selected /\ saw.from = app.from /\ saw.status = app.activeStatus
    /\ \/ saw.reason = None /\ saw.patch \notin NeedsReason
       \/ /\ saw.reason # None /\ saw.reason = panels.reason
          /\ panels.pending # None /\ saw.patch = panels.pending

(* Only the operator makes one, and what it captured stays. *)
TriageMove ==
    \A c \in Slots : Of(call'[c], {"triage"}) =>
        \/ Of(call[c], {"triage"}) /\ call'[c].of = call[c].of /\ call'[c].saw = call[c].saw
        \/ app.active \in Scans /\ call'[c].of = app.active /\ Decided(call'[c].saw)

(* Steps among other tasks move no decision. *)
LEMMA TriageAmong ==
    ASSUME NEW tasks, "triage" \notin tasks, Among(tasks)
    PROVE  TriageMove
BY DEF TriageMove, Among, Of

(* A step at one call sends no new decision. *)
LEMMA TriageAt ==
    ASSUME NEW c \in Slots, OnlyAt(c), call[c] # Idle, call'[c] = Idle \/ SameCall(call'[c], call[c])
    PROVE  TriageMove
BY DEF TriageMove, OnlyAt, SameCall, Of

(* A decision is sent with the reason that the form has for it. *)
LEMMA DecisionMoves == ASSUME ITypes, Decides PROVE TriageMove
<1>1. PICK status \in FindingStatus, reason \in Reason \union {None} :
        /\ Patched(status, reason)
        /\ \/ reason = None /\ status \notin NeedsReason
           \/ /\ reason # None /\ reason = panels.reason
              /\ panels.pending # None /\ status = panels.pending
  BY DEF Decides
<1> DEFINE saw == [finding |-> app.selected, from |-> app.from, patch |-> status,
                   reason |-> reason, status |-> app.activeStatus]
<1>2. Begun(call, "triage", app.active, saw, Sending) /\ app.active \in Scans
  BY <1>1, PatchedFits
<1>3. Decided(saw)
  BY <1>1 DEF Decided
<1> HIDE DEF saw
<1>4. PICK d \in Slots : /\ call'[d].of = app.active /\ call'[d].saw = saw
                         /\ \A e \in Slots \ {d} : call'[e] = call[e]
  BY <1>2 DEF Begun, BeganIn
<1> QED
  BY <1>2, <1>3, <1>4 DEF TriageMove, Of

(* Every step moves decisions in these ways. *)
LEMMA TriageMoves == ASSUME ITypes, Next PROVE TriageMove
<1>0. "triage" \notin PanelTasks /\ "triage" \notin ListTasks
  BY DEF PanelTasks, Lookups, ListTasks, ManagerTasks
<1>1. CASE PanelStep
  BY <1>0, <1>1, PanelKinds, TriageAmong, DecisionMoves
<1>2. CASE ManagerMoves
  BY <1>0, <1>2, ManagerAmong, TriageAmong
<1>3. CASE ClientStep
  <2>1. ASSUME NEW c \in Slots
        PROVE  \/ call'[c] = call[c]
               \/ call[c] # Idle /\ SameCall(call'[c], call[c])
    <3>1. ClientMove(call[c], call'[c])
      BY <1>3, ClientMoves DEF ClientStep
    <3> QED
      BY <3>1, NotIdle DEF ClientMove
  <2> QED
    BY <2>1 DEF TriageMove, SameCall, Of
<1>4. CASE ShellStep
  <2>1. CASE ScanActs
    <3>1. /\ "scan" \in {"scan", "cancel"} /\ "cancel" \in {"scan", "cancel"}
          /\ "triage" \notin {"scan", "cancel"}
      OBVIOUS
    <3>2. CASE StartScan \/ StopScan
      BY <3>1, <3>2, StartScanFits, StopScanFits, AmongBegun, TriageAmong
    <3>3. CASE \/ \E v \in Views : Navigate(v)
               \/ \E t \in TargetIds : ChooseTarget(t)
               \/ \E f \in Findings : SelectFinding(f)
      BY <3>1, <3>3, LooksFits, AmongStays, TriageAmong DEF clientVars
    <3> QED
      BY <2>1, <3>2, <3>3 DEF ScanActs
  <2>2. CASE StreamEnds
    <3>1. "triage" \notin {"refresh"} /\ "refresh" \in {"refresh"}
      OBVIOUS
    <3>2. Among({"refresh"})
      BY <2>2, <3>1, StreamEndsFits, AmongStays, AmongBegan
    <3> QED
      BY <3>1, <3>2, TriageAmong
  <2>3. CASE \E s \in Scans : RunEnds(s)
    <3>1. UNCHANGED call /\ "triage" \notin {}
      BY <2>3 DEF RunEnds, clientVars
    <3> QED
      BY <3>1, AmongStays, TriageAmong
  <2>4. CASE \E c \in Slots : ScanServing(c)
    <3>1. PICK c \in Slots : ScanServing(c)
      BY <2>4
    <3>2. CASE ScanCreated(c) \/ CancelServed(c)
      <4>1. Served(c) /\ call[c].task \in {"scan", "targetscan", "cancel"}
        BY <3>2, ScanCreatedFits, CancelServedFits
      <4>2. "triage" \notin {"scan", "targetscan", "cancel"}
        OBVIOUS
      <4>3. Among({"scan", "targetscan", "cancel"})
        BY <4>1, AmongServed
      <4> QED
        BY <4>2, <4>3, TriageAmong
    <3>3. CASE TriageServed(c)
      BY <3>3, TriageServing, TriageAt, NotIdle DEF Served
    <3> QED
      BY <3>1, <3>2, <3>3 DEF ScanServing
  <2>5. CASE \E c \in Slots : ScanContinues(c)
    <3>1. PICK c \in Slots : ScanContinues(c)
      BY <2>5
    <3>2. call[c] \in Requests /\ call[c] # Idle
      BY <3>1, ScanContinuing, NotIdle
    <3>3. CASE FreedAt(c) \/ \E step : MovedAt(c, step)
      BY <3>2, <3>3, TriageAt DEF FreedAt, MovedAt
    <3>4. CASE ScansListed(c)
      <4>1. "triage" \notin {"mount"} /\ "mount" \in {"mount"}
        OBVIOUS
      <4>2. Among({"mount"})
        BY <3>4, <4>1, ScansListedFits, AmongFreed, AmongAt
      <4> QED
        BY <4>1, <4>2, TriageAmong
    <3> QED
      BY <3>1, <3>3, <3>4, ScanContinuing
  <2> QED
    BY <1>4, <2>1, <2>2, <2>3, <2>4, <2>5 DEF ShellStep
<1> QED
  BY <1>1, <1>2, <1>3, <1>4, StepKinds

(* So every step keeps the decisions' reasons fitting. *)
LEMMA TriageHolds ==
    ASSUME ITypes, IPanels, IOverlap, TriageReasonFits, [Next]_vars
    PROVE  TriageReasonFits'
<1>1. CASE Next
  <2>1. TriageMove /\ overlapped \subseteq overlapped'
    BY <1>1, TriageMoves, OverlapStep
  <2>2. ASSUME NEW c \in Slots, Of(call'[c], {"triage"})
        PROVE  LET saw == call'[c].saw IN
               IF saw.reason = None THEN saw.patch \notin NeedsReason
               ELSE /\ saw.reason.status = saw.patch
                    /\ saw.reason.finding = saw.finding \/ "pending" \in overlapped'
    <3>1. CASE Of(call[c], {"triage"}) /\ call'[c].saw = call[c].saw
      BY <2>1, <3>1 DEF TriageReasonFits, Open, Of
    <3>2. CASE Decided(call'[c].saw)
      BY <2>1, <3>2 DEF Decided, IPanels, IReason
    <3> QED
      BY <2>1, <2>2, <3>1, <3>2 DEF TriageMove
  <2> QED
    BY <2>2 DEF TriageReasonFits, Open, Of
<1>2. CASE UNCHANGED vars
  BY <1>2 DEF vars, clientVars, TriageReasonFits, Open
<1> QED
  BY <1>1, <1>2

(* A decision that needs a reason is sent with one, and it is the reason typed *)
(* for this decision: for this status, and for this finding unless another was *)
(* shown meanwhile; one that needs none is sent without.                       *)
THEOREM TriageReasons == Spec => []TriageReasonFits
<1>1. Init => ITypes /\ IOverlap /\ IPanels /\ TriageReasonFits
  <2>1. ASSUME Init PROVE TriageReasonFits
    <3>1. \A c \in Slots : call[c] = Idle \/ call[c].task = "mount"
      BY <2>1 DEF Init, Opening, Reviewing, Configuring, Call
    <3> QED
      BY <3>1 DEF TriageReasonFits, Open
  <2> QED
    BY <2>1, InitTypes, InitOverlap, InitPanels
<1>2. ITypes /\ IOverlap /\ IPanels /\ TriageReasonFits /\ [Next]_vars
        => (ITypes /\ IOverlap /\ IPanels /\ TriageReasonFits)'
  BY TypesStep, OverlapStep, PanelsHold, TriageHolds
<1> QED
  BY <1>1, <1>2, PTL DEF Spec
-----------------------------------------------------------------------------
(* The server's scans and what the console's calls know of them. *)

(* A run that has ended stays as it is, and a stop stays on record. *)
LEMMA RunsMoves ==
    ASSUME ITypes, Next
    PROVE  RunsMove /\ RunsTyped /\ RunsTyped'
<1>0. RunsTyped
  BY DEF ITypes, TypeOK, RunsTyped
<1>1. RunsTyped'
  BY TypesStep DEF ITypes, TypeOK, RunsTyped
<1>2. CASE UNCHANGED runs
  BY <1>0, <1>1, <1>2 DEF RunsMove
<1>3. CASE ShellStep /\ ~UNCHANGED runs
  <2>1. CASE \E s \in Scans : RunEnds(s)
    BY <1>0, <1>1, <2>1, RunEndsFit DEF RunsFit, ITypes
  <2>2. CASE \E c \in Slots : ScanServing(c)
    BY <1>0, <1>1, <2>2, ScanCreatedFits, CancelServedFits, TriageServing DEF ScanServing, RunsFit
  <2>3. CASE \E c \in Slots : ScanContinues(c)
    BY <1>3, <2>3 DEF ScanContinues, ScanAnswered, StopAnswered, TriageAnswered, ScansListed,
                      FindingsLoaded, HistoryLoaded, LoadFails, scanVars
  <2>4. CASE ScanActs \/ StreamEnds
    BY <1>3, <2>4 DEF ScanActs, StartScan, StopScan, Navigate, ChooseTarget, SelectFinding, StreamEnds
  <2> QED
    BY <1>3, <2>1, <2>2, <2>3, <2>4 DEF ShellStep
<1>4. CASE PanelStep
  BY <1>2, <1>4, PanelAmong DEF scanVars
<1>5. CASE ManagerMoves
  BY <1>2, <1>5, ManagerAmong
<1>6. CASE ClientStep
  BY <1>2, <1>6 DEF ClientStep, scanVars
<1> QED
  BY <1>0, <1>1, <1>2, <1>3, <1>4, <1>5, <1>6, StepKinds

(* What is said of a scan may be out of date, but not once it says it ended. *)
Honest(past, s, status) ==
    /\ s \in Scans /\ past[s].at # "none" /\ status \in ScanRunState
    /\ status \in TerminalStates => past[s].at = status

(* What a call says of a scan, or has made of it. *)
CallHonest(past, r) ==
    /\ Of(r, {"triage"}) => Honest(past, r.of, r.saw.status)
    /\ Of(r, {"mount", "refresh"}) /\ r.at # "scans" => Honest(past, r.of, r.saw)
    /\ Of(r, {"scan"}) /\ r.at = "answered" /\ r.end = "done" =>
         r.of \in Scans /\ past[r.of].at # "none"
    /\ Of(r, {"cancel"}) /\ r.at = "answered" /\ r.end = "done" => past[r.of].stop

ICalls == \A c \in Slots : CallHonest(runs, call[c])

(* What is true of a run that ended stays true of it. *)
LEMMA HonestStays ==
    ASSUME RunsMove, NEW s, NEW status, Honest(runs, s, status)
    PROVE  Honest(runs', s, status)
BY DEF RunsMove, Honest

(* So a call that stays as it is stays honest. *)
LEMMA CallHonestStays ==
    ASSUME RunsMove, CallFits, NEW c \in Slots, CallHonest(runs, call[c])
    PROVE  CallHonest(runs', call[c])
<1> DEFINE r == call[c]
<1>0. CASE r = Idle
  BY <1>0 DEF CallHonest, Of
<1>1. CASE r \in Requests
  <2>1. Of(r, {"cancel"}) => r.of \in Scans
    BY <1>1 DEF Of, Requests, About
  <2> HIDE DEF r
  <2>2. CallHonest(runs, r) => CallHonest(runs', r)
    BY <2>1, HonestStays DEF CallHonest, RunsMove
  <2> QED
    BY <2>2 DEF r
<1> QED
  BY <1>0, <1>1 DEF CallFits

ActiveHonest == app.active # NoScan => Honest(runs, app.active, app.activeStatus)

(* A call that carries no status of a scan is honest. *)
LEMMA OtherHonest ==
    ASSUME NEW past, NEW r, r = Idle \/ r.task \notin {"triage", "mount", "refresh", "scan", "cancel"}
    PROVE  CallHonest(past, r)
BY DEF CallHonest, Of

(* A step among such calls keeps every call honest. *)
LEMMA HonestAmong ==
    ASSUME ITypes, RunsMove, ICalls, NEW tasks, Among(tasks),
           tasks \intersect {"triage", "mount", "refresh", "scan", "cancel"} = {}
    PROVE  ICalls'
<1>1. ASSUME NEW c \in Slots
      PROVE  CallHonest(runs', call'[c])
  <2>1. CASE call'[c] = call[c]
    BY <2>1, CallHonestStays DEF ICalls, ITypes
  <2>2. CASE call'[c] = Idle \/ call'[c].task \in tasks
    BY <2>2, OtherHonest
  <2> QED
    BY <2>1, <2>2 DEF Among
<1> QED
  BY <1>1 DEF ICalls

(* A step at one call does, if that call is honest after it. *)
LEMMA HonestAt ==
    ASSUME ITypes, RunsMove, ICalls, NEW c \in Slots, OnlyAt(c), CallHonest(runs', call'[c])
    PROVE  ICalls'
<1>1. ASSUME NEW d \in Slots
      PROVE  CallHonest(runs', call'[d])
  <2>1. CASE call'[d] = call[d]
    BY <2>1, CallHonestStays DEF ICalls, ITypes
  <2> QED
    BY <2>1 DEF OnlyAt
<1> QED
  BY <1>1 DEF ICalls

(* A call that goes on as what it was, without having been carried out. *)
LEMMA HonestOn ==
    ASSUME ITypes, RunsMove, ICalls, NEW c \in Slots, NEW w \in Requests, SameCall(w, call[c]),
           call[c] \in Requests, w.at = "scans" \/ call[c].at # "scans",
           ~(w.at = "answered" /\ w.end = "done")
    PROVE  CallHonest(runs', w)
<1>1. CallHonest(runs', call[c])
  BY CallHonestStays DEF ICalls, ITypes
<1>2. call[c] # Idle /\ w # Idle
  BY NotIdle
<1> QED
  BY <1>1, <1>2 DEF CallHonest, SameCall, Of

(* A step that begins an honest call does. *)
LEMMA HonestBegun ==
    ASSUME ITypes, RunsMove, ICalls, NEW r, BeganIn(call, r), CallHonest(runs', r)
    PROVE  ICalls'
<1>1. PICK d \in Slots : call'[d] = r /\ OnlyAt(d)
  BY DEF BeganIn, OnlyAt
<1> QED
  BY <1>1, HonestAt

(* A step without calls does. *)
LEMMA HonestSame == ASSUME ITypes, RunsMove, ICalls, UNCHANGED call PROVE ICalls'
BY CallHonestStays DEF ICalls, ITypes

(* Every step keeps the calls honest about the scans they are of. *)
LEMMA CallsHonest ==
    ASSUME ITypes, ICalls, ActiveHonest, Next
    PROVE  ICalls'
<1> DEFINE four == {"triage", "mount", "refresh", "scan", "cancel"}
<1>0. RunsMove
  BY RunsMoves
<1>1. CASE Decides
  <2>1. PICK status \in FindingStatus, reason \in Reason \union {None} : Patched(status, reason)
    BY <1>1 DEF Decides
  <2> DEFINE saw == [finding |-> app.selected, from |-> app.from, patch |-> status,
                     reason |-> reason, status |-> app.activeStatus]
  <2>2. Begun(call, "triage", app.active, saw, Sending) /\ app.active \in Scans
    BY <2>1, PatchedFits
  <2>3. saw.status = app.activeStatus
    OBVIOUS
  <2> HIDE DEF saw
  <2>4. PICK w : /\ BeganIn(call, w) /\ w.task = "triage" /\ w.of = app.active
                 /\ w.saw = saw
    BY <2>2 DEF Begun
  <2>5. Honest(runs', app.active, app.activeStatus)
    BY <1>0, <2>2, HonestStays, ScansThere DEF ActiveHonest
  <2>6. CallHonest(runs', w)
    BY <2>3, <2>4, <2>5 DEF CallHonest, Of
  <2> QED
    BY <1>0, <2>4, <2>6, HonestBegun
<1>2. CASE PanelStep
  <2>1. PanelTasks \intersect four = {}
    BY DEF PanelTasks, Lookups
  <2> QED
    BY <1>0, <1>1, <1>2, <2>1, PanelKinds, HonestAmong
<1>3. CASE ManagerMoves
  <2>1. ListTasks \intersect four = {}
    BY DEF ListTasks, ManagerTasks
  <2> QED
    BY <1>0, <1>3, <2>1, ManagerAmong, HonestAmong
<1>4. CASE ClientStep
  <2>1. ASSUME NEW c \in Slots
        PROVE  CallHonest(runs', call'[c])
    <3>1. ClientMove(call[c], call'[c])
      BY <1>4, ClientMoves DEF ClientStep
    <3>2. CASE call'[c] = call[c]
      BY <1>0, <3>2, CallHonestStays DEF ICalls, ITypes
    <3>3. CASE /\ call[c] \in Requests /\ call'[c] \in Requests /\ SameCall(call'[c], call[c])
               /\ call[c].at \in Sending
               /\ call'[c].at = "answered" => call'[c].end # "done"
      <4>1. call[c].at # "scans"
        BY <3>3 DEF Sending
      <4> QED
        BY <1>0, <3>3, <4>1, HonestOn
    <3> QED
      BY <3>1, <3>2, <3>3 DEF ClientMove
  <2> QED
    BY <2>1 DEF ICalls
<1>5. CASE ShellStep
  <2>1. CASE ScanActs
    <3>1. CASE StartScan \/ StopScan
      <4>1. PICK w \in Requests : BeganIn(call, w) /\ w.at \in Sending /\ w.task \in {"scan", "cancel"}
        BY <3>1, StartScanFits, StopScanFits DEF Begun
      <4>2. CallHonest(runs', w)
        BY <4>1 DEF CallHonest, Of, Sending
      <4> QED
        BY <1>0, <4>1, <4>2, HonestBegun
    <3>2. CASE \/ \E v \in Views : Navigate(v)
               \/ \E t \in TargetIds : ChooseTarget(t)
               \/ \E f \in Findings : SelectFinding(f)
      BY <1>0, <3>2, LooksFits, HonestSame DEF clientVars
    <3> QED
      BY <2>1, <3>1, <3>2 DEF ScanActs
  <2>2. CASE StreamEnds
    <3>1. CASE UNCHANGED call
      BY <1>0, <3>1, HonestSame
    <3>2. CASE /\ Succeeded(runs[app.stream].at)
               /\ \E r \in Requests : /\ r.task = "refresh" /\ r.at = "findings" /\ r.of = app.stream
                                      /\ r.saw = "completed" /\ BeganIn(call, r)
      <4>1. PICK r \in Requests : /\ r.task = "refresh" /\ r.at = "findings" /\ r.of = app.stream
                                  /\ r.saw = "completed" /\ BeganIn(call, r)
        BY <3>2
      <4>2. app.stream \in Scans /\ runs[app.stream].at \in TerminalStates
        BY <2>2, StreamEndsFits
      <4>3. runs[app.stream].at = "completed"
        BY <3>2, <4>2 DEF Succeeded, ScanStateStyle, TerminalStates, ScanRunState
      <4>4. Honest(runs, app.stream, "completed")
        BY <4>2, <4>3 DEF Honest, ScanRunState
      <4>5. Honest(runs', app.stream, "completed")
        BY <1>0, <4>4, HonestStays
      <4>6. CallHonest(runs', r)
        BY <4>1, <4>5 DEF CallHonest, Of
      <4> QED
        BY <1>0, <4>1, <4>6, HonestBegun
    <3> QED
      BY <2>2, <3>1, <3>2, StreamEndsFits
  <2>3. CASE \E s \in Scans : RunEnds(s)
    <3>1. UNCHANGED call
      BY <2>3 DEF RunEnds, clientVars
    <3> QED
      BY <1>0, <3>1, HonestSame
  <2>4. CASE \E c \in Slots : ScanServing(c)
    <3>1. PICK c \in Slots : ScanServing(c)
      BY <2>4
    <3>2. CASE ScanCreated(c)
      <4>1. call'[c].of \in Created' \/ call'[c].end # "done"
        BY <3>2, ScanCreatedFits
      <4>2. call'[c].task \in {"scan", "targetscan"} /\ OnlyAt(c)
        BY <3>2, ScanCreatedFits DEF Served
      <4>3. CallHonest(runs', call'[c])
        BY <4>1, <4>2 DEF CallHonest, Of, Created
      <4> QED
        BY <1>0, <4>2, <4>3, HonestAt
    <3>3. CASE CancelServed(c)
      <4>1. /\ call'[c].task = "cancel" /\ OnlyAt(c) /\ call'[c].of = call[c].of
            /\ call'[c].end = "done" => runs'[call'[c].of].stop
        BY <3>3, CancelServedFits DEF Served, SameCall
      <4>2. CallHonest(runs', call'[c])
        BY <4>1 DEF CallHonest, Of
      <4> QED
        BY <1>0, <4>1, <4>2, HonestAt
    <3>4. CASE TriageServed(c)
      <4>1. /\ call[c] \in Requests /\ call'[c].task = "triage" /\ call[c].task = "triage"
            /\ OnlyAt(c) /\ SameCall(call'[c], call[c])
        BY <3>4, TriageServing DEF Served, SameCall
      <4>2. CallHonest(runs', call[c]) /\ call[c] # Idle
        BY <1>0, <4>1, CallHonestStays, NotIdle DEF ICalls, ITypes
      <4>3. CallHonest(runs', call'[c])
        BY <4>1, <4>2 DEF CallHonest, Of, SameCall
      <4> QED
        BY <1>0, <4>1, <4>3, HonestAt
    <3> QED
      BY <3>1, <3>2, <3>3, <3>4 DEF ScanServing
  <2>5. CASE \E c \in Slots : ScanContinues(c)
    <3>1. PICK c \in Slots : ScanContinues(c)
      BY <2>5
    <3>2. CASE FreedAt(c)
      <4>1. CallHonest(runs', call'[c]) /\ OnlyAt(c)
        BY <3>2, OtherHonest DEF FreedAt
      <4> QED
        BY <1>0, <4>1, HonestAt
    <3>3. CASE /\ \E step \in {"findings", "history"} : MovedAt(c, step)
               /\ call[c] \in Requests /\ call[c].at \in {"answered", "findings"}
      <4>1. /\ call'[c] \in Requests /\ call'[c].at \in {"findings", "history"} /\ OnlyAt(c)
            /\ SameCall(call'[c], call[c]) /\ call[c] \in Requests /\ call[c].at # "scans"
        BY <3>3 DEF MovedAt
      <4>2. CallHonest(runs', call'[c])
        BY <1>0, <4>1, HonestOn
      <4> QED
        BY <1>0, <4>1, <4>2, HonestAt
    <3>4. CASE /\ OnlyAt(c) /\ call'[c].task = "mount" /\ call'[c].at = "findings"
               /\ call'[c].of \in Created /\ call'[c].saw = runs[call'[c].of].at
      <4>1. Honest(runs, call'[c].of, call'[c].saw)
        BY <3>4 DEF Honest, Created, ITypes, TypeOK, Run
      <4>2. Honest(runs', call'[c].of, call'[c].saw)
        BY <1>0, <4>1, HonestStays
      <4>3. CallHonest(runs', call'[c])
        BY <3>4, <4>2 DEF CallHonest, Of
      <4> QED
        BY <1>0, <3>4, <4>3, HonestAt
    <3> QED
      BY <3>1, <3>2, <3>3, <3>4, ScanContinuing
  <2> QED
    BY <1>5, <2>1, <2>2, <2>3, <2>4, <2>5 DEF ShellStep
<1> QED
  BY <1>2, <1>3, <1>4, <1>5, StepKinds
-----------------------------------------------------------------------------
(* What each step of the shell's shows afterwards. *)

(* Run empties the screen and takes the control. *)
LEMMA StartScanShows ==
    ASSUME ITypes, StartScan
    PROVE  /\ ~app.scanning /\ app'.scanning /\ app'.cancelling = FALSE /\ app'.loading
           /\ app'.from = NoScan /\ ShownIds(app') = {} /\ app'.stream = app.stream
           /\ app'.active = app.active /\ app'.activeStatus = app.activeStatus
<1>1. ~app.scanning
  BY DEF StartScan, Controls
<1>2. /\ app'.scanning = TRUE /\ app'.cancelling = FALSE /\ app'.loading = TRUE
      /\ app'.from = NoScan /\ app'.status = NothingShown /\ app'.stream = app.stream
      /\ app'.active = app.active /\ app'.activeStatus = app.activeStatus
  BY DEF StartScan, ITypes, AppFits, App
<1> QED
  BY <1>1, <1>2 DEF ShownIds, NothingShown

(* Stop takes its control and leaves what is shown. *)
LEMMA StopScanShows ==
    ASSUME ITypes, StopScan
    PROVE  /\ app.scanning /\ ~app.cancelling /\ app'.cancelling /\ app'.scanning = app.scanning
           /\ app'.loading = app.loading /\ app'.stream = app.stream
           /\ SameShown(app', app) /\ ShownIds(app') = ShownIds(app)
<1>1. app.scanning /\ ~app.cancelling
  BY DEF StopScan, Controls
<1>2. /\ app'.cancelling = TRUE /\ app'.scanning = app.scanning /\ app'.loading = app.loading
      /\ app'.stream = app.stream /\ SameShown(app', app)
  BY DEF StopScan, ITypes, AppFits, App, SameShown
<1> QED
  BY <1>1, <1>2 DEF ShownIds, SameShown

(* A started scan becomes the active one; a failed start gives the control back. *)
LEMMA ScanAnsweredShows ==
    ASSUME ITypes, NEW c \in Slots, ScanAnswered(c)
    PROVE  /\ app'.cancelling = app.cancelling /\ app'.from = app.from
           /\ ShownIds(app') = ShownIds(app)
           /\ IF call[c].end = "done"
              THEN /\ app'.active = call[c].of /\ app'.activeStatus = "queued"
                   /\ app'.stream = call[c].of
                   /\ app'.scanning = app.scanning /\ app'.loading = app.loading
              ELSE /\ app'.scanning = FALSE /\ app'.loading = FALSE /\ app'.stream = app.stream
                   /\ app'.active = app.active /\ app'.activeStatus = app.activeStatus
<1>1. CASE call[c].end = "done"
  <2>1. app' = [app EXCEPT !.active = call[c].of, !.activeStatus = "queued", !.stream = call[c].of]
    BY <1>1 DEF ScanAnswered
  <2>2. /\ app'.cancelling = app.cancelling /\ app'.from = app.from /\ app'.status = app.status
        /\ app'.active = call[c].of /\ app'.activeStatus = "queued" /\ app'.stream = call[c].of
        /\ app'.scanning = app.scanning /\ app'.loading = app.loading
    BY <2>1 DEF ITypes, AppFits, App
  <2> QED
    BY <1>1, <2>2 DEF ShownIds
<1>2. CASE call[c].end # "done"
  <2>1. app' = [app EXCEPT !.scanning = FALSE, !.loading = FALSE]
    BY <1>2 DEF ScanAnswered
  <2>2. /\ app'.cancelling = app.cancelling /\ app'.from = app.from /\ app'.status = app.status
        /\ app'.active = app.active /\ app'.activeStatus = app.activeStatus
        /\ app'.stream = app.stream /\ app'.scanning = FALSE /\ app'.loading = FALSE
    BY <2>1 DEF ITypes, AppFits, App
  <2> QED
    BY <1>2, <2>2 DEF ShownIds
<1> QED
  BY <1>1, <1>2

(* A stop's answer leaves what is shown, and keeps the control after success. *)
LEMMA StopAnsweredShows ==
    ASSUME ITypes, NEW c \in Slots, StopAnswered(c)
    PROVE  /\ app'.cancelling => app.cancelling /\ call[c].end = "done"
           /\ app'.scanning = app.scanning /\ app'.loading = app.loading
           /\ app'.stream = app.stream
           /\ SameShown(app', app) /\ ShownIds(app') = ShownIds(app)
<1>1. /\ app'.cancelling = (app.cancelling /\ call[c].end = "done")
      /\ app'.scanning = app.scanning /\ app'.loading = app.loading
      /\ app'.stream = app.stream /\ SameShown(app', app)
  BY DEF StopAnswered, ITypes, AppFits, App, SameShown
<1> QED
  BY <1>1 DEF ShownIds, SameShown

(* The saved results change neither the controls nor the scan shown. *)
LEMMA HistoryLoadedShows ==
    ASSUME ITypes, NEW c \in Slots, HistoryLoaded(c)
    PROVE  /\ app'.scanning = app.scanning /\ app'.cancelling = app.cancelling
           /\ app'.stream = app.stream
           /\ SameShown(app', app) /\ ShownIds(app') = ShownIds(app)
<1>1. /\ app'.scanning = app.scanning /\ app'.cancelling = app.cancelling
      /\ app'.stream = app.stream /\ SameShown(app', app)
  BY DEF HistoryLoaded, ITypes, AppFits, App, SameShown
<1> QED
  BY <1>1 DEF ShownIds, SameShown

(* A request that failed at the mount, or no scan to look up. *)
Emptied == app' = [Cleared(app) EXCEPT !.loading = FALSE]

(* An emptied shell shows no scan, and keeps its controls. *)
LEMMA EmptiedShows ==
    ASSUME ITypes, Emptied
    PROVE  /\ app'.active = NoScan /\ app'.from = NoScan /\ ShownIds(app') = {}
           /\ app'.scanning = app.scanning /\ app'.cancelling = app.cancelling
           /\ app'.stream = app.stream
BY ClearedFits DEF Emptied, ITypes

(* The calls of the shell that a step neither begins nor ends. *)
Rests(r, w) ==
    \/ w = r
    \/ /\ r # Idle /\ w # Idle /\ w.task = r.task /\ w.at # "history"
       /\ r.task # "scan" => w.of = r.of
    \/ ~Of(r, {"scan", "cancel", "mount"}) /\ ~Of(w, {"scan", "cancel", "mount"})

(* What is shown, and what the controls allow, stay as they are. *)
Passive ==
    /\ SameControls(app', app) /\ SameShown(app', app)
    /\ \A c \in Slots : Rests(call[c], call'[c])

(* A step among calls that show no scan is passive. *)
LEMMA PassiveAmong ==
    ASSUME NEW tasks, Among(tasks), tasks \intersect {"scan", "cancel", "mount"} = {},
           SameControls(app', app), SameShown(app', app)
    PROVE  Passive
BY DEF Passive, Among, Rests, Of

(* A step at one call that goes no further is passive. *)
LEMMA PassiveAt ==
    ASSUME NEW c \in Slots, OnlyAt(c), Rests(call[c], call'[c]),
           SameControls(app', app), SameShown(app', app)
    PROVE  Passive
BY DEF Passive, OnlyAt, Rests

(* An untouched shell has the same controls and shows the same. *)
LEMMA AppSame == ASSUME UNCHANGED app PROVE SameControls(app', app) /\ SameShown(app', app)
BY DEF SameControls, SameShown

(* Every step is passive or one of the shell's. *)
LEMMA ShellMoves ==
    ASSUME ITypes, Next
    PROVE  \/ Passive \/ StartScan \/ StopScan \/ StreamEnds
           \/ \E c \in Slots : \/ ScanAnswered(c) \/ StopAnswered(c) \/ FindingsLoaded(c)
                               \/ HistoryLoaded(c)
                               \/ /\ FreedAt(c) /\ call[c] \in Requests /\ call[c].task = "mount"
                                  /\ Emptied
                               \/ /\ OnlyAt(c) /\ call[c].task = "mount" /\ UNCHANGED app
                                  /\ call'[c] # Idle => call'[c].task = "mount" /\ call'[c].at # "history"
<1> DEFINE three == {"scan", "cancel", "mount"}
<1>1. CASE PanelStep
  <2>1. OfPanels \intersect three = {}
    BY DEF OfPanels, PanelTasks, Lookups
  <2> QED
    BY <1>1, <2>1, PanelAmong, PassiveAmong, AppSame DEF scanVars
<1>2. CASE ManagerMoves
  <2>1. ListTasks \intersect three = {}
    BY DEF ListTasks, ManagerTasks
  <2> QED
    BY <1>2, <2>1, ManagerAmong, PassiveAmong
<1>3. CASE ClientStep
  <2>1. ASSUME NEW c \in Slots
        PROVE  Rests(call[c], call'[c])
    <3>1. ClientMove(call[c], call'[c])
      BY <1>3, ClientMoves DEF ClientStep
    <3> QED
      BY <3>1, NotIdle DEF ClientMove, Rests, SameCall, Asking, Sending
  <2> QED
    BY <1>3, <2>1, AppSame DEF ClientStep, scanVars, Passive
<1>4. CASE ShellStep
  <2>1. CASE ScanActs
    <3>1. CASE \/ \E v \in Views : Navigate(v)
               \/ \E t \in TargetIds : ChooseTarget(t)
               \/ \E f \in Findings : SelectFinding(f)
      BY <3>1, LooksFits DEF clientVars, Passive, Rests
    <3> QED
      BY <2>1, <3>1 DEF ScanActs
  <2>2. CASE \E s \in Scans : RunEnds(s)
    BY <2>2, AppSame DEF RunEnds, clientVars, Passive, Rests
  <2>3. CASE \E c \in Slots : ScanServing(c)
    <3>1. PICK c \in Slots : ScanServing(c)
      BY <2>3
    <3>2. Served(c) /\ UNCHANGED app
      BY <3>1, ScanCreatedFits, CancelServedFits, TriageServing DEF ScanServing
    <3>3. /\ call[c].task \in {"scan", "targetscan"} \/ SameCall(call'[c], call[c])
      BY <3>1, ScanCreatedFits, CancelServedFits, TriageServing DEF ScanServing
    <3>4. call[c] # Idle /\ call'[c] # Idle /\ call'[c].at = "answered" /\ call'[c].task = call[c].task
          /\ OnlyAt(c)
      BY <3>2, NotIdle DEF Served
    <3>5. Rests(call[c], call'[c])
      BY <3>3, <3>4 DEF Rests, SameCall, Of
    <3> QED
      BY <3>2, <3>4, <3>5, PassiveAt, AppSame
  <2>4. CASE \E c \in Slots : ScanContinues(c)
    <3>1. PICK c \in Slots : ScanContinues(c)
      BY <2>4
    <3>2. CASE TriageAnswered(c)
      <4>1. Among({"triage"})
        BY <3>2, TriageAnsweredFits, AmongFreed, AmongMoved
      <4>2. {"triage"} \intersect three = {}
        OBVIOUS
      <4> QED
        BY <3>2, <4>1, <4>2, PassiveAmong, AppSame DEF TriageAnswered, scanVars
    <3>3. CASE ScansListed(c)
      BY <3>3, ScansListedFits DEF Emptied
    <3>4. CASE LoadFails(c)
      <4>1. CASE call[c].task = "mount"
        BY <3>4, <4>1, LoadFailsFits DEF Emptied
      <4>2. CASE call[c].task # "mount"
        <5>1. Among({"triage", "refresh"})
          BY <3>4, <4>2, LoadFailsFits, AmongFreed
        <5>2. {"triage", "refresh"} \intersect three = {} /\ UNCHANGED app
          BY <3>4, <4>2, LoadFailsFits
        <5> QED
          BY <5>1, <5>2, PassiveAmong, AppSame
      <4> QED
        BY <4>1, <4>2
    <3> QED
      BY <3>1, <3>2, <3>3, <3>4 DEF ScanContinues
  <2> QED
    BY <1>4, <2>1, <2>2, <2>3, <2>4 DEF ShellStep
<1> QED
  BY <1>1, <1>2, <1>3, <1>4, StepKinds
-----------------------------------------------------------------------------
(* What the shell shows and follows. *)

(* A scan is being started, or followed, and never two at once. *)
IScanning ==
    /\ \A c \in Slots : Of(call[c], {"scan"}) =>
          /\ app.scanning /\ app.stream = NoScan
          /\ \A d \in Slots : Of(call[d], {"scan"}) => d = c
    /\ app.stream # NoScan => app.scanning /\ runs[app.stream].at # "none"

(* The findings shown with a completed scan are all it has. *)
IShown ==
    app.active # NoScan /\ app.from = app.active /\ app.activeStatus = "completed"
        => ShownIds(app) = runs[app.active].found

IActive == ActiveHonest /\ IShown

(* As long as no saved findings came in late. *)
ILate ==
    "late" \notin overlapped =>
        /\ app.scanning => app.loading /\ ShownIds(app) = {} /\ app.from = NoScan
        /\ app.stream # NoScan => app.stream = app.active /\ app.activeStatus = "queued"
        /\ \A c \in Slots : Of(call[c], {"mount"}) /\ call[c].at = "history" => app.from = app.active
        /\ ShownIds(app) # {} => app.from = app.active
        /\ \A c \in Slots : Of(call[c], {"triage"}) => call[c].saw.from = call[c].of
        /\ "unstarted" \notin overlapped =>
             (app.active # NoScan /\ ~app.loading /\ app.activeStatus = "completed"
                => app.from = app.active)

IStop ==
    app.scanning /\ app.cancelling /\ app.stream # NoScan
        /\ overlapped \intersect {"late", "creating"} = {}
    => \/ runs[app.stream].stop \/ runs[app.stream].at \in TerminalStates
       \/ \E c \in Slots : Of(call[c], {"cancel"}) /\ call[c].of = app.stream

IShell == ICalls /\ IScanning /\ IActive /\ ILate /\ IStop

(* The shell's fields are well typed. *)
LEMMA AppTyped ==
    ASSUME ITypes
    PROVE  /\ app.scanning \in BOOLEAN /\ app.cancelling \in BOOLEAN /\ app.loading \in BOOLEAN
           /\ app.active \in Scans \union {NoScan} /\ app.stream \in Scans \union {NoScan}
           /\ app.from \in Scans \union {NoScan}
           /\ app.activeStatus \in ScanRunState \union {None}
BY DEF ITypes, AppFits, App

(* A call that waits for an answer, or has one, is no fetch, and the others are. *)
LEMMA FetchingIs ==
    ASSUME NEW c \in Slots, call[c] \in Requests, call[c].task \in {"mount", "refresh", "triage"},
           call[c].at \in {"scans", "findings", "history"}
    PROVE  c \in Fetching
BY NotIdle DEF Fetching, Open, Sending

(* Unless saved findings come in late, a load of them is alone, with no scan running. *)
LEMMA FetchingAlone ==
    ASSUME IOverlap, "late" \notin overlapped, NEW c \in Fetching
    PROVE  ~app.scanning /\ Fetching = {c}
BY DEF IOverlap, Late

(* Every step keeps the part about the scan that is starting or followed. *)
LEMMA ScanningStep ==
    ASSUME ITypes, ICalls, IScanning, Next
    PROVE  IScanning'
<1>0. /\ RunsMove /\ app.stream \in Scans \union {NoScan} /\ app'.stream \in Scans \union {NoScan}
  <2>1. ITypes'
    BY TypesStep
  <2> QED
    BY <2>1, RunsMoves, AppTyped DEF ITypes, AppFits, App
<1>1. ASSUME app'.scanning = app.scanning, app'.stream = app.stream,
             \A c \in Slots : Of(call'[c], {"scan"}) => Of(call[c], {"scan"})
      PROVE  IScanning'
  BY <1>0, <1>1 DEF IScanning, RunsMove
<1>2. CASE Passive
  BY <1>1, <1>2 DEF Passive, Rests, Of, SameControls
<1>3. CASE StartScan
  <2>1. ~app.scanning /\ app'.scanning /\ app'.stream = app.stream
    BY <1>3, StartScanShows
  <2>2. app.stream = NoScan /\ \A c \in Slots : ~Of(call[c], {"scan"})
    BY <2>1 DEF IScanning
  <2>3. PICK d \in Slots : OnlyAt(d)
    BY <1>3, StartScanFits DEF Begun, BeganIn, OnlyAt
  <2> QED
    BY <2>1, <2>2, <2>3 DEF IScanning, OnlyAt
<1>4. CASE StopScan
  <2>1. PICK d \in Slots : call'[d].task = "cancel" /\ OnlyAt(d)
    BY <1>4, StopScanFits DEF Begun, BeganIn, OnlyAt
  <2> QED
    BY <1>1, <1>4, <2>1, StopScanShows DEF OnlyAt, Of
<1>5. CASE StreamEnds
  <2>1. app.stream \in Scans /\ app'.scanning = FALSE /\ app'.stream = NoScan
    BY <1>5, StreamEndsFits
  <2>2. \A c \in Slots : ~Of(call[c], {"scan"})
    BY <2>1, ScansThere DEF IScanning
  <2>3. \A c \in Slots : ~Of(call'[c], {"scan"})
    BY <1>5, <2>2, StreamEndsFits DEF BeganIn, Of
  <2> QED
    BY <2>1, <2>3 DEF IScanning
<1>6. ASSUME NEW c \in Slots, ScanAnswered(c)
      PROVE  IScanning'
  <2>1. call[c] \in Requests /\ call[c].task = "scan" /\ call[c].at = "answered" /\ FreedAt(c)
    BY <1>6, ScanAnsweredFits
  <2>2. Of(call[c], {"scan"})
    BY <2>1, NotIdle DEF Of
  <2>3. app.scanning /\ app.stream = NoScan /\ \A d \in Slots : Of(call[d], {"scan"}) => d = c
    BY <2>2 DEF IScanning
  <2>4. \A d \in Slots : ~Of(call'[d], {"scan"})
    BY <2>1, <2>3 DEF FreedAt, OnlyAt, Of
  <2>5. CASE call[c].end = "done"
    <3>1. call[c].of \in Scans /\ runs[call[c].of].at # "none"
      BY <2>1, <2>2, <2>5 DEF ICalls, CallHonest
    <3>2. app'.stream = call[c].of /\ app'.scanning = app.scanning
      BY <1>6, <2>5, ScanAnsweredShows
    <3> QED
      BY <1>0, <2>3, <2>4, <3>1, <3>2 DEF IScanning, RunsMove
  <2>6. CASE call[c].end # "done"
    BY <1>6, <2>3, <2>4, <2>6, ScanAnsweredShows DEF IScanning
  <2> QED
    BY <2>5, <2>6
<1>7. ASSUME NEW c \in Slots, OnlyAt(c), call'[c] = Idle \/ call'[c].task # "scan",
             app'.scanning = app.scanning, app'.stream = app.stream
      PROVE  IScanning'
  BY <1>1, <1>7 DEF OnlyAt, Of
<1>8. ASSUME NEW c \in Slots,
             StopAnswered(c) \/ FindingsLoaded(c) \/ HistoryLoaded(c)
      PROVE  IScanning'
  <2>1. app'.scanning = app.scanning /\ app'.stream = app.stream
    BY <1>8, StopAnsweredShows, FindingsLoadedFits, HistoryLoadedShows
  <2>2. OnlyAt(c) /\ (call'[c] = Idle \/ call'[c].task # "scan")
    BY <1>8, StopAnsweredFits, FindingsLoadedFits, HistoryLoadedFits DEF FreedAt, MovedAt, SameCall
  <2> QED
    BY <1>7, <2>1, <2>2
<1>9. ASSUME NEW c \in Slots, FreedAt(c), call[c].task = "mount", Emptied
      PROVE  IScanning'
  BY <1>7, <1>9, EmptiedShows DEF FreedAt
<1>10. ASSUME NEW c \in Slots, OnlyAt(c), UNCHANGED app, call'[c] # Idle => call'[c].task = "mount"
       PROVE  IScanning'
  BY <1>7, <1>10
<1> QED
  BY <1>2, <1>3, <1>4, <1>5, <1>6, <1>8, <1>9, <1>10, ShellMoves

(* Every step keeps the part about the active scan. *)
LEMMA ActiveStep ==
    ASSUME ITypes, ICalls, IActive, Next
    PROVE  IActive'
<1>0. /\ RunsMove /\ app.active \in Scans \union {NoScan} /\ app'.active \in Scans \union {NoScan}
  <2>1. ITypes'
    BY TypesStep
  <2> QED
    BY <2>1, RunsMoves, AppTyped DEF ITypes, AppFits, App
<1>1. ASSUME SameShown(app', app)
      PROVE  IActive'
  <2>1. ShownIds(app') = ShownIds(app)
    BY <1>1 DEF ShownIds, SameShown
  <2>2. ActiveHonest'
    BY <1>0, <1>1, HonestStays DEF IActive, ActiveHonest, SameShown
  <2>3. IShown'
    <3>1. SUFFICES ASSUME app'.active # NoScan, app'.from = app'.active, app'.activeStatus = "completed"
                   PROVE  ShownIds(app') = runs'[app'.active].found
      BY DEF IShown
    <3>2. app'.active = app.active /\ ShownIds(app) = runs[app.active].found
      BY <1>1, <3>1 DEF SameShown, IActive, IShown
    <3>3. runs[app.active].at = "completed"
      BY <1>1, <3>1 DEF SameShown, IActive, ActiveHonest, Honest, TerminalStates
    <3> QED
      BY <1>0, <2>1, <3>1, <3>2, <3>3 DEF RunsMove, TerminalStates
  <2> QED
    BY <2>2, <2>3 DEF IActive
<1>2. ASSUME app'.active # NoScan => Honest(runs, app'.active, app'.activeStatus),
             ~(app'.active # NoScan /\ app'.from = app'.active /\ app'.activeStatus = "completed")
      PROVE  IActive'
  BY <1>0, <1>2, HonestStays DEF IActive, ActiveHonest, IShown
<1>3. CASE StartScan
  BY <1>2, <1>3, StartScanShows DEF IActive, ActiveHonest
<1>4. CASE StreamEnds
  <2>1. CASE /\ ~Succeeded(runs[app.stream].at)
             /\ app'.active = app.stream /\ app'.activeStatus = runs[app.stream].at
    <3>1. app.stream \in Scans /\ runs[app.stream].at \in TerminalStates
      BY <1>4, StreamEndsFits
    <3>2. runs[app.stream].at # "completed"
      BY <2>1 DEF Succeeded, ScanStateStyle, ScanRunState
    <3>3. Honest(runs, app.stream, runs[app.stream].at)
      BY <3>1 DEF Honest, TerminalStates, ScanRunState
    <3> QED
      BY <1>2, <2>1, <3>2, <3>3
  <2>2. CASE app'.active = app.active /\ app'.activeStatus = app.activeStatus
    BY <1>1, <1>4, <2>2, StreamEndsFits DEF SameShown
  <2> QED
    BY <1>4, <2>1, <2>2, StreamEndsFits
<1>5. ASSUME NEW c \in Slots, ScanAnswered(c)
      PROVE  IActive'
  <2>1. call[c] \in Requests /\ call[c].task = "scan" /\ call[c].at = "answered"
    BY <1>5, ScanAnsweredFits
  <2>2. CASE call[c].end = "done"
    <3>1. call[c].of \in Scans /\ runs[call[c].of].at # "none"
      BY <2>1, <2>2, NotIdle DEF ICalls, CallHonest, Of
    <3>2. Honest(runs, call[c].of, "queued")
      BY <3>1 DEF Honest, ScanRunState, TerminalStates
    <3>3. app'.active = call[c].of /\ app'.activeStatus = "queued"
      BY <1>5, <2>2, ScanAnsweredShows
    <3> QED
      BY <1>2, <3>2, <3>3
  <2>3. CASE call[c].end # "done"
    <3>1. SameShown(app', app)
      BY <1>5, <2>3 DEF ScanAnswered, ITypes, AppFits, App, SameShown
    <3> QED
      BY <1>1, <3>1
  <2> QED
    BY <2>2, <2>3
<1>6. ASSUME NEW c \in Slots, FindingsLoaded(c)
      PROVE  IActive'
  <2>1. /\ call[c] \in Requests /\ call[c].task \in {"triage", "refresh", "mount"}
        /\ call[c].at = "findings" /\ call[c].of \in Scans
        /\ app'.active = call[c].of /\ app'.from = call[c].of
        /\ app'.activeStatus = IF call[c].task = "triage" THEN call[c].saw.status ELSE call[c].saw
        /\ ShownIds(app') = runs[call[c].of].found
    BY <1>6, FindingsLoadedFits
  <2>2. Honest(runs, app'.active, app'.activeStatus)
    BY <2>1, NotIdle DEF ICalls, CallHonest, Of
  <2>3. ActiveHonest'
    BY <1>0, <2>2, HonestStays DEF ActiveHonest
  <2>4. IShown'
    BY <1>6, <2>1 DEF IShown, FindingsLoaded
  <2> QED
    BY <2>3, <2>4 DEF IActive
<1>7. ASSUME Emptied
      PROVE  IActive'
  BY <1>2, <1>7, EmptiedShows
<1>8. CASE Passive \/ StopScan \/ UNCHANGED app
  BY <1>1, <1>8, StopScanShows, AppSame DEF Passive
<1>9. CASE \E c \in Slots : StopAnswered(c) \/ HistoryLoaded(c)
  BY <1>1, <1>9, StopAnsweredShows, HistoryLoadedShows
<1> QED
  BY <1>3, <1>4, <1>5, <1>6, <1>7, <1>8, <1>9, ShellMoves

(* After the step too, saved findings do not come in during a scan. *)
LEMMA FetchingAloneNext ==
    ASSUME IOverlap', "late" \notin overlapped', NEW c \in Slots, call'[c] # Idle,
           call'[c].task = "mount", call'[c].at = "history"
    PROVE  ~app'.scanning
<1>1. c \in Fetching'
  BY DEF Fetching, Open, Sending
<1> QED
  BY <1>1 DEF IOverlap, Late

(* Every step keeps the part about late loads. *)
LEMMA LateStep ==
    ASSUME ITypes, ITypes', IOverlap, IOverlap', overlapped \subseteq overlapped',
           IScanning, ILate, Next
    PROVE  ILate'
<1> SUFFICES ASSUME "late" \notin overlapped'
             PROVE  ILate'
  BY DEF ILate
<1>1. /\ "late" \notin overlapped
      /\ app.scanning => app.loading /\ ShownIds(app) = {} /\ app.from = NoScan
      /\ app.stream # NoScan => app.scanning /\ app.stream = app.active /\ app.activeStatus = "queued"
      /\ \A c \in Slots : Of(call[c], {"mount"}) /\ call[c].at = "history" => app.from = app.active
      /\ ShownIds(app) # {} => app.from = app.active
      /\ \A c \in Slots : Of(call[c], {"triage"}) => call[c].saw.from = call[c].of
      /\ "unstarted" \notin overlapped =>
           (app.active # NoScan /\ ~app.loading /\ app.activeStatus = "completed"
              => app.from = app.active)
  BY DEF ILate, IScanning
<1>2. ASSUME NEW c \in Slots, Of(call[c], {"mount"})
      PROVE  ~app.scanning /\ app.stream = NoScan
  <2>1. call[c] \in Requests /\ call[c].task = "mount"
    BY <1>2 DEF Of, ITypes, CallFits
  <2>2. call[c].at \in {"scans", "findings", "history"}
    BY <2>1 DEF Requests, Stands, PanelTasks, Lookups
  <2>3. c \in Fetching
    BY <2>1, <2>2, FetchingIs
  <2> QED
    BY <1>1, <2>3, FetchingAlone
<1>3. \A c \in Slots : Of(call'[c], {"triage"}) => call'[c].saw.from = call'[c].of
  <2>1. ASSUME NEW c \in Slots, Of(call'[c], {"triage"}), ~Of(call[c], {"triage"}) \/ call'[c].saw # call[c].saw
                                                        \/ call'[c].of # call[c].of
        PROVE  call'[c].saw.from = call'[c].of
    <3>1. app.active \in Scans /\ call'[c].of = app.active /\ Decided(call'[c].saw)
      BY <2>1, TriageMoves DEF TriageMove
    <3>2. call'[c] \in Requests /\ call'[c].task = "triage"
      BY <2>1 DEF ITypes, CallFits, Of
    <3>3. call'[c].saw.finding \in Findings
      BY <3>2 DEF Requests, About, TriageSaw
    <3>4. app.selected \in Findings /\ call'[c].saw.from = app.from
      BY <3>1, <3>3 DEF Decided
    <3>5. app.selected \in ShownIds(app)
      BY <3>4, ScanAssumption DEF ITypes, AppFits, Selected, ShownIds
    <3> QED
      BY <1>1, <3>1, <3>4, <3>5
  <2> QED
    BY <1>1, <2>1
<1>4. ASSUME app'.scanning => app'.loading /\ ShownIds(app') = {} /\ app'.from = NoScan,
             app'.stream # NoScan => app'.stream = app'.active /\ app'.activeStatus = "queued",
             \A c \in Slots : Of(call'[c], {"mount"}) /\ call'[c].at = "history" => app'.from = app'.active,
             ShownIds(app') # {} => app'.from = app'.active,
             "unstarted" \notin overlapped /\ app'.active # NoScan /\ ~app'.loading
                 /\ app'.activeStatus = "completed" => app'.from = app'.active
      PROVE  ILate'
  BY <1>3, <1>4 DEF ILate
<1>5. ASSUME SameShown(app', app), app'.scanning = app.scanning, app'.stream = app.stream,
             app'.loading = app.loading \/ (app.from = app.active /\ ~app.scanning),
             \A c \in Slots : Of(call'[c], {"mount"}) /\ call'[c].at = "history" =>
                                 Of(call[c], {"mount"}) /\ call[c].at = "history"
      PROVE  ILate'
  <2>1. ShownIds(app') = ShownIds(app)
    BY <1>5 DEF ShownIds, SameShown
  <2> QED
    BY <1>1, <1>4, <1>5, <2>1 DEF SameShown
<1>6. CASE Passive
  BY <1>5, <1>6 DEF Passive, Rests, Of, SameControls
<1>7. CASE StartScan
  <2>1. ~app.scanning /\ app.stream = NoScan
    BY <1>1, <1>7, StartScanShows
  <2>2. \A c \in Slots : ~(Of(call'[c], {"mount"}) /\ call'[c].at = "history")
    BY <1>7, StartScanShows, FetchingAloneNext DEF Of
  <2> QED
    BY <1>4, <1>7, <2>1, <2>2, StartScanShows
<1>8. CASE StopScan
  <2>1. PICK d \in Slots : call'[d].task = "cancel" /\ OnlyAt(d)
    BY <1>8, StopScanFits DEF Begun, BeganIn, OnlyAt
  <2> QED
    BY <1>5, <1>8, <2>1, StopScanShows DEF OnlyAt, Of
<1>9. CASE StreamEnds
  <2>1. app.stream \in Scans /\ app.stream # NoScan
    BY <1>9, StreamEndsFits, ScansThere
  <2>2. /\ app.scanning /\ ShownIds(app) = {} /\ app.activeStatus = "queued"
    BY <1>1, <2>1
  <2>3. \A c \in Slots : ~Of(call'[c], {"mount"})
    <3>1. \A c \in Slots : ~Of(call[c], {"mount"})
      BY <1>2, <2>2
    <3> QED
      BY <1>9, <3>1, StreamEndsFits DEF BeganIn, Of
  <2>4. app'.activeStatus # "completed"
    BY <1>9, <2>2, StreamEndsFits DEF Succeeded, ScanStateStyle, ScanRunState
  <2>5. ShownIds(app') = {}
    BY <1>9, <2>2, StreamEndsFits DEF ShownIds
  <2> QED
    BY <1>4, <1>9, <2>3, <2>4, <2>5, StreamEndsFits
<1>10. ASSUME NEW c \in Slots, ScanAnswered(c)
       PROVE  ILate'
  <2>1. call[c] \in Requests /\ call[c].task = "scan" /\ call[c].at = "answered" /\ FreedAt(c)
    BY <1>10, ScanAnsweredFits
  <2>2. app.scanning /\ app.stream = NoScan
    BY <2>1, NotIdle DEF IScanning, Of
  <2>3. \A d \in Slots : ~Of(call'[d], {"mount"})
    BY <1>2, <2>1, <2>2 DEF FreedAt, OnlyAt, Of
  <2>4. CASE call[c].end = "done"
    BY <1>1, <1>4, <1>10, <2>2, <2>3, <2>4, ScanAnsweredShows
  <2>5. CASE call[c].end # "done"
    <3>1. c \in Open({"scan"})
      BY <2>1, NotIdle DEF Open
    <3>2. "unstarted" \in overlapped
      BY <2>1, <2>5, <3>1 DEF IOverlap, Unstarted
    <3> QED
      BY <1>1, <1>4, <1>10, <2>2, <2>3, <2>5, <3>2, ScanAnsweredShows
  <2> QED
    BY <2>4, <2>5
<1>11. ASSUME NEW c \in Slots, StopAnswered(c)
       PROVE  ILate'
  <2>1. FreedAt(c)
    BY <1>11, StopAnsweredFits
  <2> QED
    BY <1>5, <1>11, <2>1, StopAnsweredShows DEF FreedAt, OnlyAt, Of
<1>12. ASSUME NEW c \in Slots, FindingsLoaded(c)
       PROVE  ILate'
  <2>1. call[c] \in Requests /\ call[c].task \in {"triage", "refresh", "mount"} /\ call[c].at = "findings"
    BY <1>12, FindingsLoadedFits
  <2>2. c \in Fetching
    BY <2>1, FetchingIs
  <2>3. ~app.scanning /\ app.stream = NoScan
    BY <1>1, <2>2, FetchingAlone
  <2> QED
    BY <1>4, <1>12, <2>3, FindingsLoadedFits
<1>13. ASSUME NEW c \in Slots, HistoryLoaded(c)
       PROVE  ILate'
  <2>1. call[c] \in Requests /\ call[c].task = "mount" /\ call[c].at = "history" /\ FreedAt(c)
    BY <1>13, HistoryLoadedFits
  <2>2. Of(call[c], {"mount"})
    BY <2>1, NotIdle DEF Of
  <2>3. app.from = app.active /\ ~app.scanning
    BY <1>1, <1>2, <2>1, <2>2
  <2>4. \A d \in Slots : Of(call'[d], {"mount"}) /\ call'[d].at = "history" =>
                            Of(call[d], {"mount"}) /\ call[d].at = "history"
    BY <2>1 DEF FreedAt, OnlyAt, Of
  <2> QED
    BY <1>5, <1>13, <2>3, <2>4, HistoryLoadedShows
<1>14. ASSUME NEW c \in Slots, FreedAt(c), call[c] \in Requests, call[c].task = "mount", Emptied
       PROVE  ILate'
  <2>1. Of(call[c], {"mount"})
    BY <1>14, NotIdle DEF Of
  <2>2. ~app.scanning /\ app.stream = NoScan
    BY <1>2, <2>1
  <2> QED
    BY <1>4, <1>14, <2>2, EmptiedShows
<1>15. ASSUME NEW c \in Slots, OnlyAt(c), UNCHANGED app,
              call'[c] # Idle => call'[c].task = "mount" /\ call'[c].at # "history"
       PROVE  ILate'
  BY <1>5, <1>15, AppSame DEF OnlyAt, Of
<1> QED
  BY <1>6, <1>7, <1>8, <1>9, <1>10, <1>11, <1>12, <1>13, <1>14, <1>15, ShellMoves

(* Every step keeps the part about the Stop control. *)
LEMMA StopStep ==
    ASSUME ITypes, ITypes', IOverlap, overlapped \subseteq overlapped',
           ICalls, IScanning, ILate, IStop, Next
    PROVE  IStop'
<1>0. RunsMove /\ app.stream \in Scans \union {NoScan} /\ app'.stream \in Scans \union {NoScan}
  BY RunsMoves, AppTyped DEF ITypes, AppFits, App
<1>1. ASSUME app'.scanning => app.scanning, app'.cancelling => app.cancelling, app'.stream = app.stream,
             \A c \in Slots : Of(call[c], {"cancel"}) =>
                  \/ Of(call'[c], {"cancel"}) /\ call'[c].of = call[c].of
                  \/ runs[call[c].of].stop \/ ~app'.cancelling
      PROVE  IStop'
  <2> SUFFICES ASSUME app'.scanning, app'.cancelling, app'.stream # NoScan,
                      overlapped' \intersect {"late", "creating"} = {}
               PROVE  \/ runs'[app'.stream].stop \/ runs'[app'.stream].at \in TerminalStates
                      \/ \E c \in Slots : Of(call'[c], {"cancel"}) /\ call'[c].of = app'.stream
    BY DEF IStop
  <2>1. overlapped \intersect {"late", "creating"} = {}
    OBVIOUS
  <2>2. \/ runs[app.stream].stop \/ runs[app.stream].at \in TerminalStates
        \/ \E c \in Slots : Of(call[c], {"cancel"}) /\ call[c].of = app.stream
    BY <1>1, <2>1 DEF IStop
  <2> QED
    BY <1>0, <1>1, <2>2 DEF RunsMove
<1>2. CASE Passive
  BY <1>1, <1>2 DEF Passive, Rests, Of, SameControls
<1>3. CASE StartScan \/ StreamEnds
  BY <1>3, StartScanShows, StreamEndsFits DEF IStop
<1>4. CASE StopScan
  <2>1. PICK d \in Slots : call'[d] \in Requests /\ call'[d].task = "cancel" /\ call'[d].of = app.active
    BY <1>4, StopScanFits DEF Begun, BeganIn
  <2>2. Of(call'[d], {"cancel"})
    BY <2>1, NotIdle DEF Of
  <2>3. app'.stream = app.stream
    BY <1>4, StopScanShows
  <2> QED
    BY <2>1, <2>2, <2>3 DEF IStop, ILate
<1>5. ASSUME NEW c \in Slots, ScanAnswered(c)
      PROVE  IStop'
  <2>1. Of(call[c], {"scan"})
    BY <1>5, ScanAnsweredFits, NotIdle DEF Of
  <2>2. app.scanning /\ app.stream = NoScan
    BY <2>1 DEF IScanning
  <2>3. app.cancelling => "creating" \in overlapped
    BY <2>2 DEF IOverlap, Creating
  <2>4. app'.cancelling = app.cancelling
    BY <1>5, ScanAnsweredShows
  <2> QED
    BY <2>3, <2>4 DEF IStop
<1>6. ASSUME NEW c \in Slots, StopAnswered(c)
      PROVE  IStop'
  <2>1. call[c] \in Requests /\ call[c].task = "cancel" /\ call[c].at = "answered" /\ FreedAt(c)
    BY <1>6, StopAnsweredFits
  <2>2. app'.cancelling => runs[call[c].of].stop
    BY <1>6, <2>1, NotIdle, StopAnsweredShows DEF ICalls, CallHonest, Of
  <2> QED
    BY <1>1, <1>6, <2>1, <2>2, StopAnsweredShows DEF FreedAt, OnlyAt
<1>7. ASSUME NEW c \in Slots, OnlyAt(c), call[c].task # "cancel",
             app'.scanning = app.scanning, app'.cancelling = app.cancelling, app'.stream = app.stream
      PROVE  IStop'
  BY <1>1, <1>7 DEF OnlyAt, Of
<1>8. ASSUME NEW c \in Slots, FindingsLoaded(c) \/ HistoryLoaded(c)
      PROVE  IStop'
  <2>1. OnlyAt(c) /\ call[c].task # "cancel"
    BY <1>8, FindingsLoadedFits, HistoryLoadedFits DEF FreedAt, MovedAt
  <2> QED
    BY <1>7, <1>8, <2>1, FindingsLoadedFits, HistoryLoadedShows
<1>9. ASSUME NEW c \in Slots, FreedAt(c), call[c].task = "mount", Emptied
      PROVE  IStop'
  BY <1>7, <1>9, EmptiedShows DEF FreedAt
<1>10. ASSUME NEW c \in Slots, OnlyAt(c), call[c].task = "mount", UNCHANGED app
       PROVE  IStop'
  BY <1>7, <1>10
<1> QED
  BY <1>2, <1>3, <1>4, <1>5, <1>6, <1>8, <1>9, <1>10, ShellMoves

(* Every step keeps the shell's invariant. *)
LEMMA ShellHolds ==
    ASSUME ITypes, IOverlap, IShell, [Next]_vars
    PROVE  IShell'
<1>1. CASE Next
  <2>1. ITypes' /\ IOverlap' /\ overlapped \subseteq overlapped'
    BY TypesStep, OverlapStep
  <2> QED
    BY <1>1, <2>1, CallsHonest, ScanningStep, ActiveStep, LateStep, StopStep DEF IShell, IActive
<1>2. CASE UNCHANGED vars
  <2>1. UNCHANGED <<call, app, runs, overlapped>>
    BY <1>2 DEF vars, clientVars, scanVars
  <2> QED
    BY <2>1 DEF IShell, ICalls, CallHonest, Honest, IScanning, IActive, ActiveHonest, IShown,
                ILate, IStop, ShownIds
<1> QED
  BY <1>1, <1>2

(* It holds at the start. *)
LEMMA InitShell == ASSUME Init PROVE IShell
<1>1. \A c \in Slots : call[c] = Idle \/ (call[c].task = "mount" /\ call[c].at = "scans")
  BY DEF Init, Opening, Reviewing, Configuring, Call
<1>2. ICalls /\ \A c \in Slots : ~Of(call[c], {"scan"}) /\ ~Of(call[c], {"triage"})
                                /\ ~(Of(call[c], {"mount"}) /\ call[c].at = "history")
  BY <1>1 DEF ICalls, CallHonest, Of
<1>3. ITypes
  BY InitTypes
<1>4. /\ app.scanning = FALSE /\ app.stream = NoScan
      /\ \/ app.active = NoScan /\ ShownIds(app) = {}
         \/ /\ app.active = app.from /\ ActiveHonest
            /\ ShownIds(app) = runs[app.active].found
  <2>1. targets \in [TargetIds -> Urls \union {None}] /\ reviews \in [Scans -> [Findings -> FindingStatus]]
    BY <1>3 DEF ITypes, TypeOK
  <2>2. CASE Opening
    <3>1. app.active = NoScan /\ app.stream = NoScan /\ ~app.scanning /\ app.status = NothingShown
      BY <2>1, <2>2, OpeningFits
    <3>2. ShownIds(app) = {}
      BY <3>1 DEF ShownIds, NothingShown
    <3> QED
      BY <1>3, <3>1, <3>2, AppTyped
  <2>3. ASSUME NEW n \in Scans, NEW found, runs = Before(n, "completed", found), app.active = n,
               app.activeStatus = "completed"
        PROVE  ActiveHonest /\ runs[app.active].found = found
    <3>1. n <= n
      BY ScansThere
    <3>2. runs[n] = [at |-> "completed", stop |-> FALSE, found |-> found]
      BY <2>3, <3>1 DEF Before
    <3>3. runs[n].at = "completed" /\ runs[n].found = found
      BY <3>2
    <3> QED
      BY <2>3, <3>3 DEF ActiveHonest, Honest, ScanRunState
  <2>4. CASE Reviewing
    <3>1. /\ runs = Before(1, "completed", Findings) /\ app.active = 1 /\ app.from = 1
          /\ app.activeStatus = "completed" /\ app.stream = NoScan /\ ~app.scanning
          /\ ShownIds(app) = Findings
      BY <2>1, <2>4, ReviewingFits
    <3> QED
      BY <1>3, <2>3, <3>1, ScansThere, AppTyped
  <2>5. CASE Configuring
    <3>1. /\ runs = Before(2, "completed", {}) /\ app.active = 2 /\ app.from = 2
          /\ app.activeStatus = "completed" /\ app.stream = NoScan /\ ~app.scanning
          /\ app.status = NothingShown
      BY <2>1, <2>5, ConfiguringFits
    <3>2. ShownIds(app) = {}
      BY <3>1 DEF ShownIds, NothingShown
    <3> QED
      BY <1>3, <2>3, <3>1, <3>2, ScansThere, AppTyped
  <2> QED
    BY <1>3, <2>2, <2>4, <2>5, AppTyped DEF Init
<1>5. IScanning /\ IActive /\ IStop
  BY <1>2, <1>4 DEF IScanning, IActive, IShown, ActiveHonest, IStop
<1>6. ILate
  BY <1>2, <1>4 DEF ILate
<1> QED
  BY <1>2, <1>5, <1>6 DEF IShell

(* It says that a clean result is true, *)
LEMMA CleanFits == ASSUME ITypes, IShell PROVE CleanIsTrue
<1> SUFFICES ASSUME app.active # NoScan, overlapped \intersect {"late", "unstarted"} = {}
             PROVE  /\ Verdict = "completed without findings" =>
                          runs[app.active].at = "completed" /\ runs[app.active].found = {}
                    /\ EndedWithoutResults(app.activeStatus) => runs[app.active].at = app.activeStatus
  BY DEF CleanIsTrue
<1>1. Honest(runs, app.active, app.activeStatus)
  BY DEF IShell, IActive, ActiveHonest
<1>2. app.activeStatus \in ScanRunState
  BY <1>1 DEF Honest
<1>3. ASSUME EndedWithoutResults(app.activeStatus)
      PROVE  runs[app.active].at = app.activeStatus
  <2>1. app.activeStatus \in TerminalStates
    BY <1>2, <1>3 DEF EndedWithoutResults, ScanStateStyle
  <2> QED
    BY <1>1, <2>1 DEF Honest
<1>4. ASSUME Verdict = "completed without findings"
      PROVE  runs[app.active].at = "completed" /\ runs[app.active].found = {}
  <2>1. ~app.loading /\ ShownIds(app) = {} /\ Succeeded(app.activeStatus)
    BY <1>4 DEF Verdict
  <2>2. app.activeStatus = "completed"
    BY <1>2, <2>1 DEF Succeeded, ScanStateStyle
  <2>3. app.from = app.active
    BY <2>1, <2>2 DEF IShell, ILate
  <2>4. runs[app.active].found = {}
    BY <2>1, <2>2, <2>3 DEF IShell, IActive, IShown
  <2> QED
    BY <1>1, <2>2, <2>4 DEF Honest, TerminalStates
<1> QED
  BY <1>3, <1>4

(* that the findings shown are the active scan's, *)
LEMMA ActiveFits == ASSUME IShell PROVE FindingsOfActive
BY DEF IShell, ILate, FindingsOfActive, Open, Of

(* and that Stop stays reachable. *)
LEMMA StopFits == ASSUME IShell PROVE StopReachable
BY DEF IShell, IStop, StopReachable, Open, Of

(* The shell's invariant holds in every state. *)
LEMMA ShellSafe == Spec => [](ITypes /\ IShell)
<1>1. Init => ITypes /\ IOverlap /\ IShell
  BY InitTypes, InitOverlap, InitShell
<1>2. ITypes /\ IOverlap /\ IShell /\ [Next]_vars => (ITypes /\ IOverlap /\ IShell)'
  BY TypesStep, OverlapStep, ShellHolds
<1> QED
  BY <1>1, <1>2, PTL DEF Spec

(* A failed scan never reads as a clean one, whatever the order of the answers, *)
(* the ends of the runs and what the operator does: what the shell says of the  *)
(* active scan is what the server's record says, once it says that it ended.    *)
THEOREM CleanStaysTrue == Spec => []CleanIsTrue
<1>1. ITypes /\ IShell => CleanIsTrue
  BY CleanFits
<1> QED
  BY <1>1, ShellSafe, PTL

(* The findings on the screen, the stream that is followed and the reviews on   *)
(* their way are of the scan that is the active one, as long as saved findings  *)
(* do not come in late.                                                         *)
THEOREM FindingsFollow == Spec => []FindingsOfActive
<1>1. IShell => FindingsOfActive
  BY ActiveFits
<1> QED
  BY <1>1, ShellSafe, PTL

(* While Stop is disabled, the stop of the scan that runs has reached the       *)
(* server, or its request is on its way, or the run has ended: a refused or     *)
(* lost stop gives the control back.                                            *)
THEOREM StopStaysReachable == Spec => []StopReachable
<1>1. IShell => StopReachable
  BY StopFits
<1> QED
  BY <1>1, ShellSafe, PTL
-----------------------------------------------------------------------------
(* The counts of the findings shown. *)

(* Findings as toFinding makes them. *)
Findable(F) ==
    /\ IsFiniteSet(F)
    /\ \A f \in F : f.severity \in Severities /\ f.riskScore \in 0..100

(* A risk score is between 0 and 100, whatever the backend sends. *)
LEMMA RiskScoreBounded ==
    ASSUME NEW severity \in Severities, NEW raw, raw.scored \in BOOLEAN, raw.score \in Nat
    PROVE  RiskScore(severity, raw) \in 0..100
<1>1. CASE ~raw.scored
  BY <1>1 DEF RiskScore, Severities
<1>2. CASE raw.scored /\ raw.score <= 100
  BY <1>2 DEF RiskScore
<1>3. CASE raw.scored /\ ~(raw.score <= 100)
  <2> DEFINE n == (raw.score + 50) \div 100
  <2>1. n \in Nat
    OBVIOUS
  <2> HIDE DEF n
  <2>2. \E x \in {100, n} : \A y \in {100, n} : x =< y
    <3>1. CASE n <= 100
      BY <2>1, <3>1
    <3>2. CASE ~(n <= 100)
      BY <2>1, <3>2
    <3> QED
      BY <3>1, <3>2
  <2>3. Min({100, n}) \in {100, n} /\ Min({100, n}) <= 100
    BY <2>2 DEF Min
  <2>4. RiskScore(severity, raw) = Min({100, n})
    BY <1>3 DEF RiskScore, n
  <2> QED
    BY <2>1, <2>3, <2>4
<1> QED
  BY <1>1, <1>2, <1>3

(* A set of numbers up to 100 that has one has a greatest. *)
LEMMA GreatestScore ==
    ASSUME NEW T \in SUBSET (0..100), T # {}
    PROVE  Max(T) \in T /\ \A y \in T : y <= Max(T)
<1> DEFINE R == OpToRel(<, Nat)
           U == {100 - x : x \in T}
<1>1. IsWellFoundedOn(R, Nat)
  BY NatLessThanWellFounded
<1>2. \A x, y \in Nat : x < y => <<x, y>> \in R
  BY DEF OpToRel
<1>3. U \in SUBSET Nat /\ U # {}
  OBVIOUS
<1>4. \A x \in T : 100 - x \in U
  OBVIOUS
<1>5. \A u \in U : \E x \in T : u = 100 - x
  OBVIOUS
<1> HIDE DEF R, U
<1>6. PICK u \in U : \A v \in U : ~(<<v, u>> \in R)
  BY <1>1, <1>3, WFMin
<1>7. PICK x \in T : u = 100 - x
  BY <1>5
<1>8. ASSUME NEW y \in T
      PROVE  x >= y
  <2>1. 100 - y \in U
    BY <1>4
  <2>2. ~(100 - y < u)
    BY <1>2, <1>3, <1>6, <2>1
  <2> QED
    BY <1>7, <2>2
<1>9. \E z \in T : \A y \in T : z >= y
  BY <1>8
<1>10. Max(T) \in T /\ \A y \in T : Max(T) >= y
  BY <1>9 DEF Max
<1> QED
  BY <1>10

(* Some severity is the highest that a finding has. *)
LEMMA HighestThere ==
    ASSUME NEW F, F # {}, \A f \in F : f.severity \in Severities
    PROVE  /\ \E f \in F : f.severity = Highest(F)
           /\ \A f \in F : SeverityRank[f.severity] <= SeverityRank[Highest(F)]
<1> DEFINE S == {f.severity : f \in F}
           C == Severities \intersect (S \union {"info"})
           Top(s) == \A f \in F : SeverityRank[f.severity] <= SeverityRank[s]
<1>1. S # {} /\ S \subseteq Severities
  OBVIOUS
<1>2. \A f \in F : f.severity \in S
  OBVIOUS
<1>3. \A s \in S : \E f \in F : f.severity = s
  OBVIOUS
<1>4. SeverityRank["critical"] = 4 /\ SeverityRank["high"] = 3 /\ SeverityRank["medium"] = 2
        /\ SeverityRank["low"] = 1 /\ SeverityRank["info"] = 0
  BY DEF SeverityRank
<1>5. \A f \in F : \/ f.severity = "critical" \/ f.severity = "high" \/ f.severity = "medium"
                   \/ f.severity = "low" \/ f.severity = "info"
  BY DEF Severities
<1> HIDE DEF S
<1>6. \E s \in S : Top(s)
  <2>1. CASE "critical" \in S
    BY <1>4, <1>5, <2>1
  <2>2. CASE "critical" \notin S /\ "high" \in S
    BY <1>2, <1>4, <1>5, <2>2
  <2>3. CASE "critical" \notin S /\ "high" \notin S /\ "medium" \in S
    BY <1>2, <1>4, <1>5, <2>3
  <2>4. CASE "critical" \notin S /\ "high" \notin S /\ "medium" \notin S /\ "low" \in S
    BY <1>2, <1>4, <1>5, <2>4
  <2>5. CASE "critical" \notin S /\ "high" \notin S /\ "medium" \notin S /\ "low" \notin S
    BY <1>1, <1>2, <1>4, <1>5, <2>5 DEF Severities
  <2> QED
    BY <2>1, <2>2, <2>3, <2>4, <2>5
<1>7. Highest(F) = CHOOSE s \in C : Top(s)
  BY DEF Highest, S
<1>8. \E s \in C : Top(s)
  BY <1>1, <1>6
<1>9. Highest(F) \in C /\ Top(Highest(F))
  BY <1>7, <1>8
<1>10. Highest(F) \in S
  <2>1. CASE "info" \in S
    BY <1>9, <2>1
  <2>2. CASE "info" \notin S
    <3>1. PICK s \in S : s \in {"critical", "high", "medium", "low"}
      BY <1>1, <2>2 DEF Severities
    <3>2. SeverityRank[s] > SeverityRank["info"]
      BY <1>4, <3>1
    <3>3. SeverityRank[s] <= SeverityRank[Highest(F)]
      BY <1>3, <1>9
    <3>4. Highest(F) # "info"
      BY <1>4, <3>1, <3>2, <3>3
    <3> QED
      BY <1>9, <3>4
  <2> QED
    BY <2>1, <2>2
<1> QED
  BY <1>3, <1>9, <1>10

(* The findings of a severity and the others are all of them. *)
LEMMA SplitBySeverity ==
    ASSUME NEW F, IsFiniteSet(F), NEW s
    PROVE  /\ IsFiniteSet({f \in F : f.severity = s}) /\ IsFiniteSet({f \in F : f.severity # s})
           /\ SeverityCount(F, s) \in Nat /\ Cardinality({f \in F : f.severity # s}) \in Nat
           /\ Cardinality(F) = SeverityCount(F, s) + Cardinality({f \in F : f.severity # s})
<1> DEFINE A == {f \in F : f.severity = s}
           B == {f \in F : f.severity # s}
<1>1. A \in SUBSET F /\ B \in SUBSET F
  OBVIOUS
<1>2. F = A \cup B /\ A \cap B = {}
  OBVIOUS
<1>3. SeverityCount(F, s) = Cardinality(A)
  BY DEF SeverityCount
<1> HIDE DEF A, B
<1>4. IsFiniteSet(A) /\ IsFiniteSet(B)
  BY <1>1, FS_Subset
<1>5. Cardinality(A) \in Nat /\ Cardinality(B) \in Nat
  BY <1>4, FS_CardinalityType
<1>6. Cardinality(A \cup B) = Cardinality(A) + Cardinality(B) - Cardinality(A \cap B)
  BY <1>4, FS_Union
<1>7. Cardinality(A \cap B) = 0
  BY <1>2, FS_EmptySet
<1>8. Cardinality(F) = Cardinality(A) + Cardinality(B)
  BY <1>2, <1>5, <1>6, <1>7
<1> QED
  BY <1>3, <1>4, <1>5, <1>8 DEF A, B

(* The severities' counts add up to all findings. *)
LEMMA CountsAddUp ==
    ASSUME NEW F, IsFiniteSet(F), \A f \in F : f.severity \in Severities
    PROVE  Cardinality(F) = SeverityCount(F, "critical") + SeverityCount(F, "high")
                              + SeverityCount(F, "medium") + SeverityCount(F, "low")
                              + SeverityCount(F, "info")
<1> DEFINE F1 == {f \in F : f.severity # "critical"}
           F2 == {f \in F1 : f.severity # "high"}
           F3 == {f \in F2 : f.severity # "medium"}
           F4 == {f \in F3 : f.severity # "low"}
           F5 == {f \in F4 : f.severity # "info"}
<1>1. /\ {f \in F1 : f.severity = "high"} = {f \in F : f.severity = "high"}
      /\ {f \in F2 : f.severity = "medium"} = {f \in F : f.severity = "medium"}
      /\ {f \in F3 : f.severity = "low"} = {f \in F : f.severity = "low"}
      /\ {f \in F4 : f.severity = "info"} = {f \in F : f.severity = "info"}
  OBVIOUS
<1>2. F5 = {}
  BY DEF Severities
<1>3. /\ SeverityCount(F1, "high") = SeverityCount(F, "high")
      /\ SeverityCount(F2, "medium") = SeverityCount(F, "medium")
      /\ SeverityCount(F3, "low") = SeverityCount(F, "low")
      /\ SeverityCount(F4, "info") = SeverityCount(F, "info")
  BY <1>1 DEF SeverityCount
<1>4. /\ IsFiniteSet(F1) /\ SeverityCount(F, "critical") \in Nat /\ Cardinality(F1) \in Nat
      /\ Cardinality(F) = SeverityCount(F, "critical") + Cardinality(F1)
  BY SplitBySeverity
<1>5. /\ IsFiniteSet(F2) /\ SeverityCount(F1, "high") \in Nat /\ Cardinality(F2) \in Nat
      /\ Cardinality(F1) = SeverityCount(F1, "high") + Cardinality(F2)
  <2> HIDE DEF F1
  <2> QED
    BY <1>4, SplitBySeverity
<1>6. /\ IsFiniteSet(F3) /\ SeverityCount(F2, "medium") \in Nat /\ Cardinality(F3) \in Nat
      /\ Cardinality(F2) = SeverityCount(F2, "medium") + Cardinality(F3)
  <2> HIDE DEF F2
  <2> QED
    BY <1>5, SplitBySeverity
<1>7. /\ IsFiniteSet(F4) /\ SeverityCount(F3, "low") \in Nat /\ Cardinality(F4) \in Nat
      /\ Cardinality(F3) = SeverityCount(F3, "low") + Cardinality(F4)
  <2> HIDE DEF F3
  <2> QED
    BY <1>6, SplitBySeverity
<1>8. /\ SeverityCount(F4, "info") \in Nat /\ Cardinality(F5) \in Nat
      /\ Cardinality(F4) = SeverityCount(F4, "info") + Cardinality(F5)
  <2> HIDE DEF F4
  <2> QED
    BY <1>7, SplitBySeverity
<1>9. Cardinality(F5) = 0
  BY <1>2, FS_EmptySet
<1> HIDE DEF F1, F2, F3, F4, F5
<1> QED
  BY <1>3, <1>4, <1>5, <1>6, <1>7, <1>8, <1>9

(* The chart has a severity's count. *)
LEMMA CountOfSeverity ==
    ASSUME NEW F, IsFiniteSet(F), NEW s \in Severities
    PROVE  CountOf(DistributionFor(F), s) = SeverityCount(F, s)
<1> DEFINE D == DistributionFor(F)
           entry(t) == [severity |-> t, count |-> SeverityCount(F, t)]
<1>1. D = {entry(t) : t \in {t \in Severities : SeverityCount(F, t) > 0}}
  BY DEF DistributionFor
<1>2. SeverityCount(F, s) \in Nat
  BY SplitBySeverity
<1>3. \A p \in D : p.severity = s => p.count = SeverityCount(F, s) /\ SeverityCount(F, s) > 0
  BY <1>1
<1>4. SeverityCount(F, s) > 0 => \E p \in D : p.severity = s
  <2> SUFFICES ASSUME SeverityCount(F, s) > 0
               PROVE  \E p \in D : p.severity = s
    OBVIOUS
  <2>1. entry(s) \in D
    BY <1>1
  <2> QED
    BY <2>1
<1> HIDE DEF D
<1>5. CASE SeverityCount(F, s) > 0
  BY <1>3, <1>4, <1>5 DEF CountOf, D
<1>6. CASE ~(SeverityCount(F, s) > 0)
  <2>1. SeverityCount(F, s) = 0
    BY <1>2, <1>6
  <2> QED
    BY <1>3, <1>6, <2>1 DEF CountOf, D
<1> QED
  BY <1>5, <1>6

(* A finding under review is not fixed. *)
LEMMA ReviewsFit ==
    ASSUME NEW F, IsFiniteSet(F)
    PROVE  Cardinality({f \in F : f.status \in PendingReview})
             <= Cardinality(F) - Cardinality({f \in F : f.status = "fixed"})
<1> DEFINE A == {f \in F : f.status \in PendingReview}
           B == {f \in F : f.status = "fixed"}
<1>1. A \in SUBSET F /\ B \in SUBSET F /\ A \cup B \in SUBSET F
  OBVIOUS
<1>2. A \cap B = {}
  BY DEF PendingReview
<1> HIDE DEF A, B
<1>3. IsFiniteSet(A) /\ IsFiniteSet(B) /\ IsFiniteSet(A \cup B)
  BY <1>1, FS_Subset
<1>4. /\ Cardinality(A) \in Nat /\ Cardinality(B) \in Nat
      /\ Cardinality(A \cup B) \in Nat /\ Cardinality(F) \in Nat
  BY <1>3, FS_CardinalityType
<1>5. Cardinality(A \cup B) = Cardinality(A) + Cardinality(B) - Cardinality(A \cap B)
  BY <1>3, FS_Union
<1>6. Cardinality(A \cap B) = 0
  BY <1>2, FS_EmptySet
<1>7. Cardinality(A \cup B) <= Cardinality(F)
  BY <1>1, FS_Subset
<1>8. Cardinality(A) <= Cardinality(F) - Cardinality(B)
  BY <1>4, <1>5, <1>6, <1>7
<1> QED
  BY <1>8 DEF A, B

(* The asset's risk is that of one of its findings. *)
LEMMA RiskOfOne ==
    ASSUME NEW F, F # {}, \A f \in F : f.riskScore \in 0..100
    PROVE  \E f \in F : Max({0} \union {g.riskScore : g \in F}) = f.riskScore
<1> DEFINE S == {g.riskScore : g \in F}
           T == {0} \union S
<1>1. S # {} /\ S \in SUBSET (0..100)
  OBVIOUS
<1>2. \A x \in S : \E f \in F : x = f.riskScore
  OBVIOUS
<1> HIDE DEF S
<1>3. T \in SUBSET (0..100) /\ T # {}
  BY <1>1
<1>4. Max(T) \in T /\ \A y \in T : y <= Max(T)
  BY <1>3, GreatestScore
<1>5. Max(T) \in S
  <2>1. CASE Max(T) = 0
    <3>1. PICK y \in S : TRUE
      BY <1>1
    <3>2. y \in 0..100 /\ y <= Max(T)
      BY <1>1, <1>4, <3>1
    <3>3. y = 0
      BY <2>1, <3>2
    <3> QED
      BY <2>1, <3>3
  <2> QED
    BY <1>4, <2>1
<1> QED
  BY <1>2, <1>5 DEF S

(* What the shell shows is what toFinding makes, and finitely many. *)
LEMMA ShownFindable ==
    ASSUME TypeOK
    PROVE  Findable(ShownFindings(app))
<1> DEFINE I == ShownIds(app)
           F == ShownFindings(app)
           shows(f) == ToFinding(f, Raw[f], app.from, app.status[f])
           m == [f \in I |-> shows(f)]
<1>1. I \in SUBSET Findings
  BY DEF ShownIds
<1>2. IsFiniteSet(I)
  BY <1>1, ScanAssumption, FS_Subset
<1>3. F = {shows(f) : f \in I}
  BY DEF ShownFindings
<1>4. m \in Surjection(I, F)
  BY <1>3 DEF Surjection
<1>5. IsFiniteSet(F)
  <2> HIDE DEF m, I, F
  <2> QED
    BY <1>2, <1>4, FS_Surjection
<1>6. ASSUME NEW f \in I
      PROVE  shows(f).severity \in Severities /\ shows(f).riskScore \in 0..100
  <2>1. /\ Raw[f].severity \in STRING /\ Raw[f].score.scored \in BOOLEAN
        /\ Raw[f].score.score \in Nat
    BY <1>1, ScanAssumption
  <2>2. NormaliseSeverity(Raw[f].severity) \in Severities
    BY DEF NormaliseSeverity, Severities
  <2>3. RiskScore(NormaliseSeverity(Raw[f].severity), Raw[f].score) \in 0..100
    BY <2>1, <2>2, RiskScoreBounded
  <2> QED
    BY <2>2, <2>3 DEF ToFinding
<1> QED
  BY <1>3, <1>5, <1>6 DEF Findable

(* So the counts agree with the findings shown. *)
LEMMA CountersAgreeing == ASSUME TypeOK PROVE CountersAgree
<1> DEFINE F == ShownFindings(app)
           asset == ScanAsset(app.from, app.activeStatus, F)
           metrics == MetricsFor(F, app.active # NoScan)
           D == DistributionFor(F)
<1>1. Findable(F)
  BY ShownFindable
<1>2. asset.highestSeverity = Highest(F) /\ asset.vulnerabilityCount = Cardinality(F)
        /\ asset.riskScore = Max({0} \union {f.riskScore : f \in F})
  BY DEF ScanAsset
<1>3. metrics.pendingReviews = Cardinality({f \in F : f.status \in PendingReview})
  BY DEF MetricsFor
<1> SUFFICES ASSUME F # {}
             PROVE  /\ \E f \in F : f.severity = asset.highestSeverity
                    /\ ~\E f \in F : SeverityRank[f.severity] > SeverityRank[asset.highestSeverity]
                    /\ asset.vulnerabilityCount =
                         CountOf(D, "critical") + CountOf(D, "high") + CountOf(D, "medium")
                           + CountOf(D, "low") + CountOf(D, "info")
                    /\ metrics.pendingReviews
                         <= Cardinality(F) - Cardinality({f \in F : f.status = "fixed"})
                    /\ \E f \in F : RiskTier(asset.riskScore) = RiskTier(f.riskScore)
  BY DEF CountersAgree
<1> HIDE DEF F, asset, metrics
<1>4. /\ \E f \in F : f.severity = asset.highestSeverity
      /\ \A f \in F : SeverityRank[f.severity] <= SeverityRank[asset.highestSeverity]
  BY <1>1, <1>2, HighestThere DEF Findable
<1>5. ~\E f \in F : SeverityRank[f.severity] > SeverityRank[asset.highestSeverity]
  <2>1. \A s \in Severities : SeverityRank[s] \in Nat
    BY DEF SeverityRank, Severities
  <2>2. asset.highestSeverity \in Severities
    BY <1>1, <1>4 DEF Findable
  <2> QED
    BY <1>1, <1>4, <2>1, <2>2 DEF Findable
<1>6. /\ CountOf(D, "critical") = SeverityCount(F, "critical")
      /\ CountOf(D, "high") = SeverityCount(F, "high")
      /\ CountOf(D, "medium") = SeverityCount(F, "medium")
      /\ CountOf(D, "low") = SeverityCount(F, "low")
      /\ CountOf(D, "info") = SeverityCount(F, "info")
  <2>1. \A s \in Severities : CountOf(D, s) = SeverityCount(F, s)
    BY <1>1, CountOfSeverity DEF Findable
  <2> QED
    BY <2>1 DEF Severities
<1>7. asset.vulnerabilityCount =
        CountOf(D, "critical") + CountOf(D, "high") + CountOf(D, "medium")
          + CountOf(D, "low") + CountOf(D, "info")
  BY <1>1, <1>2, <1>6, CountsAddUp DEF Findable
<1>8. metrics.pendingReviews <= Cardinality(F) - Cardinality({f \in F : f.status = "fixed"})
  BY <1>1, <1>3, ReviewsFit DEF Findable
<1>9. \E f \in F : asset.riskScore = f.riskScore
  BY <1>1, <1>2, RiskOfOne DEF Findable
<1> QED
  BY <1>4, <1>5, <1>7, <1>8, <1>9

(* lib/findings.ts:136-204: the asset's count, its highest severity and its *)
(* risk, the chart's distribution and the reviews pending agree with the    *)
(* findings shown, whatever the backend says of each.                       *)
THEOREM CountersKeepAgreeing == Spec => []CountersAgree
<1>1. TypeOK => CountersAgree
  BY CountersAgreeing
<1> QED
  BY <1>1, TypeCorrect, PTL
=============================================================================
