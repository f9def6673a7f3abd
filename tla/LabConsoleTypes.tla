--------------------------- MODULE LabConsoleTypes ---------------------------
(***************************************************************************)
(* The requests of the Projects and Agents views, by what they are about   *)
(* and where they may stand; from that the types of LabConsole.            *)
(***************************************************************************)
EXTENDS LabConsole, FiniteSetTheorems, WellFoundedInduction, TLAPS

AgentForm == [provider : Providers \union {None}, key : Providers \union {None},
              publishes : BOOLEAN]

ProjectTasks == ImportTasks \union {"select", "delete", "deploy", "undeploy"}
AgentTasks == Deploys \union {"save-template", "delete-template"}
LabelledTasks == {"stop", "start", "remove", "logs"}
Tasks == ProjectTasks \union AgentTasks \union LabelledTasks \union {"refresh", "agents"}

(* The tasks that change the registry, and after which the shell reloads it. *)
Registering == Deploys \union {"deploy", "undeploy", "remove"}

Steps == {"deploy", "run", "health", "load", "write", "record", "save", "undeploy", "drop",
          "dropping", "import", "unpack", "delete", "run-agent", "stop", "start", "remove",
          "save-template", "delete-template", "answered"} \union Reads

(* What is read of a file: the registry or the records. *)
RecordFiles == SUBSET Record
Copies == Registry \union RecordFiles \union {None}

Shape == [task : Tasks, of : Subjects \union {None}, at : Steps, live : BOOLEAN,
          ok : BOOLEAN, form : Form \union AgentForm \union {None},
          saw : Projects \union TargetIds \union {None}, ids : SUBSET TargetIds,
          url : Urls \union {None}, copy : Copies,
          after : {"answered", "record", "drop"}, id : Nat]

Fields == {"task", "of", "at", "live", "ok", "form", "saw", "ids", "url", "copy", "after",
           "id"}

(* What a task is about and the form it carries. *)
About(r) ==
    /\ r.task \in ProjectTasks => r.of \in Projects
    /\ r.task \in AgentTasks => r.of \in Agents
    /\ r.task \in LabelledTasks => r.of \in Subjects
    /\ r.task = "deploy" => r.form \in Form
    /\ r.task \in Deploys => r.form \in AgentForm

(* The route of each task. *)
Stands(r) ==
    \/ /\ r.task \in ImportTasks
       /\ r.at \in {"import", "unpack", "answered", "list", "analyse"}
    \/ r.task = "select" /\ r.at = "analyse"
    \/ /\ r.task = "deploy"
       /\ \/ r.at \in {"deploy", "run", "health", "record", "save", "answered", "targets",
                        "offered"}
          \/ r.at \in {"load", "write"} /\ r.after = "record"
    \/ /\ r.task = "undeploy"
       /\ \/ r.at \in {"undeploy", "drop", "dropping", "answered", "targets", "offered"}
          \/ r.at \in {"load", "write"} /\ r.after = "drop"
    \/ /\ r.task \in Deploys
       /\ \/ r.at \in {"run-agent", "answered", "list", "targets", "offered"}
          \/ r.at \in {"load", "write"} /\ r.after = "answered"
    \/ /\ r.task = "remove"
       /\ \/ r.at \in {"remove", "answered", "list", "targets", "offered"}
          \/ r.at \in {"load", "write"} /\ r.after = "answered"
    \/ /\ r.task \in {"delete", "stop", "start", "save-template", "delete-template"}
       /\ r.at \in {r.task, "answered", "list"}
    \/ r.task \in {"refresh", "agents"} /\ r.at = "list"
    \/ r.task = "logs" /\ r.at = "logs"

(* What it carries there. *)
Carries(r) ==
    /\ r.at = "health" => r.url \in Ports
    /\ r.at \in {"load", "write", "record", "save"} /\ r.task = "deploy" => r.url \in Urls
    /\ r.at \in {"write", "offered"} => r.copy \in Registry
    /\ r.at \in {"save", "dropping"} => r.copy \in SUBSET Record

Requests == {r \in Shape : About(r) /\ Stands(r) /\ Carries(r)}

CallFits == call \in [Slots -> {Idle} \union Requests]

(* Where a request begins. *)
FirstSteps == {"list", "analyse", "logs", "import", "delete", "deploy", "undeploy", "run-agent",
               "stop", "start", "remove", "save-template", "delete-template"}

Opening == {r \in Requests : r.at \in FirstSteps}

(* What the operator does to the requests: at most one begins. *)
Opened == call' = call \/ \E r \in Opening : Begin(r)

(* What a continuation does: its request ends or goes on to read. *)
Continued(c) ==
    /\ call[c] \in Requests /\ call[c].at \in Reads \union {"answered"}
    /\ \/ call' = [call EXCEPT ![c] = Idle]
       \/ \E w \in Requests : w.at \in Reads /\ call' = [call EXCEPT ![c] = w]
-----------------------------------------------------------------------------
(* One field of a request at a time. *)

Same(w, r, except) == \A f \in Fields \ except : w[f] = r[f]

(* What a handler changes in the request it serves. *)
Reply == {"at", "ok", "ids", "url", "copy", "after", "id"}

WithAt(r, v) == [r EXCEPT !.at = v]
WithLive(r, v) == [r EXCEPT !.live = v]
WithOk(r, v) == [r EXCEPT !.ok = v]
WithForm(r, v) == [r EXCEPT !.form = v]
WithSaw(r, v) == [r EXCEPT !.saw = v]
WithIds(r, v) == [r EXCEPT !.ids = v]
WithUrl(r, v) == [r EXCEPT !.url = v]
WithCopy(r, v) == [r EXCEPT !.copy = v]
WithAfter(r, v) == [r EXCEPT !.after = v]
WithId(r, v) == [r EXCEPT !.id = v]

LEMMA WithAtFits ==
    ASSUME NEW r \in Shape, NEW v \in Steps
    PROVE  /\ WithAt(r, v) \in Shape /\ WithAt(r, v).at = v
           /\ Same(WithAt(r, v), r, {"at"})
BY DEF Shape, WithAt, Same, Fields

LEMMA WithLiveFits ==
    ASSUME NEW r \in Shape, NEW v \in BOOLEAN
    PROVE  /\ WithLive(r, v) \in Shape /\ WithLive(r, v).live = v
           /\ Same(WithLive(r, v), r, {"live"})
BY DEF Shape, WithLive, Same, Fields

LEMMA WithOkFits ==
    ASSUME NEW r \in Shape, NEW v \in BOOLEAN
    PROVE  /\ WithOk(r, v) \in Shape /\ WithOk(r, v).ok = v
           /\ Same(WithOk(r, v), r, {"ok"})
BY DEF Shape, WithOk, Same, Fields

LEMMA WithFormFits ==
    ASSUME NEW r \in Shape, NEW v \in Form \union AgentForm \union {None}
    PROVE  /\ WithForm(r, v) \in Shape /\ WithForm(r, v).form = v
           /\ Same(WithForm(r, v), r, {"form"})
BY DEF Shape, WithForm, Same, Fields

LEMMA WithSawFits ==
    ASSUME NEW r \in Shape, NEW v \in Projects \union TargetIds \union {None}
    PROVE  /\ WithSaw(r, v) \in Shape /\ WithSaw(r, v).saw = v
           /\ Same(WithSaw(r, v), r, {"saw"})
BY DEF Shape, WithSaw, Same, Fields

LEMMA WithIdsFits ==
    ASSUME NEW r \in Shape, NEW v \in SUBSET TargetIds
    PROVE  /\ WithIds(r, v) \in Shape /\ WithIds(r, v).ids = v
           /\ Same(WithIds(r, v), r, {"ids"})
BY DEF Shape, WithIds, Same, Fields

LEMMA WithUrlFits ==
    ASSUME NEW r \in Shape, NEW v \in Urls \union {None}
    PROVE  /\ WithUrl(r, v) \in Shape /\ WithUrl(r, v).url = v
           /\ Same(WithUrl(r, v), r, {"url"})
BY DEF Shape, WithUrl, Same, Fields

LEMMA WithCopyFits ==
    ASSUME NEW r \in Shape, NEW v \in Copies
    PROVE  /\ WithCopy(r, v) \in Shape /\ WithCopy(r, v).copy = v
           /\ Same(WithCopy(r, v), r, {"copy"})
BY DEF Shape, WithCopy, Same, Fields

LEMMA WithAfterFits ==
    ASSUME NEW r \in Shape, NEW v \in {"answered", "record", "drop"}
    PROVE  /\ WithAfter(r, v) \in Shape /\ WithAfter(r, v).after = v
           /\ Same(WithAfter(r, v), r, {"after"})
BY DEF Shape, WithAfter, Same, Fields

LEMMA WithIdFits ==
    ASSUME NEW r \in Shape, NEW v \in Nat
    PROVE  /\ WithId(r, v) \in Shape /\ WithId(r, v).id = v
           /\ Same(WithId(r, v), r, {"id"})
BY DEF Shape, WithId, Same, Fields

-----------------------------------------------------------------------------
(* What the steps make of a request. *)

LEMMA CopiesHold ==
    /\ None \in Copies
    /\ \A file \in Registry : file \in Copies
    /\ \A file \in SUBSET Record : file \in Copies
<1>1. /\ None \in Copies
      /\ \A file \in Registry : file \in Copies
      /\ \A file \in RecordFiles : file \in Copies
  BY DEF Copies
<1>2. ASSUME NEW file \in SUBSET Record
      PROVE  file \in RecordFiles
  BY Zenon DEF RecordFiles
<1> QED
  BY <1>1, <1>2, Zenon

(* Who asked and what is shown meanwhile does not matter. *)
LEMMA Unplaced ==
    ASSUME NEW r \in Requests, NEW w \in Shape, Same(w, r, {"live", "ok", "saw", "ids", "id"})
    PROVE  w \in Requests
<1>1. About(r) /\ Stands(r) /\ Carries(r)
  BY DEF Requests
<1>2. /\ w.task = r.task /\ w.of = r.of /\ w.at = r.at /\ w.form = r.form
      /\ w.url = r.url /\ w.copy = r.copy /\ w.after = r.after
  BY DEF Same, Fields
<1>3. About(w) /\ Stands(w) /\ Carries(w)
  BY <1>1, <1>2 DEF About, Stands, Carries
<1> QED
  BY <1>3 DEF Requests

(* The view of a request is left. *)
LEMMA Left ==
    ASSUME NEW r \in Requests
    PROVE  [r EXCEPT !.live = FALSE] \in Requests
<1>1. r \in Shape
  BY DEF Requests
<1>2. WithLive(r, FALSE) \in Shape /\ Same(WithLive(r, FALSE), r, {"live"})
  BY <1>1, WithLiveFits
<1>3. Same(WithLive(r, FALSE), r, {"live", "ok", "saw", "ids", "id"})
  BY <1>2 DEF Same
<1>4. WithLive(r, FALSE) \in Requests
  BY <1>2, <1>3, Unplaced
<1> QED
  BY <1>4 DEF WithLive

(* What the task is about does not change. *)
LEMMA StillAbout ==
    ASSUME NEW r \in Requests, NEW w \in Shape,
           Same(w, r, Reply), Stands(w), Carries(w)
    PROVE  w \in Requests
<1>1. w.task = r.task /\ w.of = r.of /\ w.form = r.form
  BY DEF Same, Fields, Reply
<1>2. About(w)
  BY <1>1 DEF Requests, About
<1> QED
  BY <1>2 DEF Requests

(* Where a request may go with what it carries. *)
Follows(r, at) ==
    CASE at = "unpack" -> r.at = "import"
      [] at = "run" -> r.at = "deploy"
      [] at = "list" -> r.at = "answered" /\ r.task \notin {"deploy", "undeploy"}
      [] at = "analyse" -> r.at = "list" /\ r.task \in ImportTasks
      [] at = "targets" -> r.at \in {"list", "answered"} /\ r.task \in Registering
      [] OTHER -> FALSE

LEMMA GoesOn ==
    ASSUME NEW r \in Requests, NEW at \in Steps, Follows(r, at)
    PROVE  WithAt(r, at) \in Requests
<1> DEFINE w == WithAt(r, at)
<1>1. r \in Shape /\ About(r) /\ Stands(r) /\ Carries(r)
  BY DEF Requests
<1>2. /\ w \in Shape /\ w.at = at
      /\ w.task = r.task /\ w.of = r.of /\ w.form = r.form
      /\ w.url = r.url /\ w.copy = r.copy /\ w.after = r.after
  BY <1>1, WithAtFits DEF Same, Fields
<1> HIDE DEF w
<1>3. About(w)
  BY <1>1, <1>2 DEF About
<1>4. Stands(w)
  BY <1>1, <1>2 DEF Stands, Follows, Reads, Reloading, Tasks, ProjectTasks, AgentTasks,
                    LabelledTasks, ImportTasks, Deploys, Registering, Steps
<1>5. Carries(w)
  BY <1>1, <1>2 DEF Carries, Follows
<1> QED
  BY <1>2, <1>3, <1>4, <1>5 DEF w, Requests

(* A handler answers, a deploy with the id of what it recorded. *)
LEMMA Answered ==
    ASSUME NEW r \in Requests, r.at \notin Reads, NEW ok \in BOOLEAN
    PROVE  /\ [r EXCEPT !.at = "answered", !.ok = ok] \in Requests
           /\ Same([r EXCEPT !.at = "answered", !.ok = ok], r, Reply)
<1> DEFINE a == WithAt(r, "answered")
           w == WithOk(a, ok)
<1>1. r \in Shape /\ Stands(r) /\ "answered" \in Steps
  BY DEF Requests, Steps
<1>2. a \in Shape /\ a.at = "answered" /\ Same(a, r, {"at"})
  BY <1>1, WithAtFits
<1> HIDE DEF a
<1>3. w \in Shape /\ Same(w, a, {"ok"})
  BY <1>2, WithOkFits
<1> HIDE DEF w
<1>4. /\ w.at = "answered" /\ w.task = r.task
      /\ Same(w, r, Reply)
  BY <1>2, <1>3 DEF Same, Fields, Reply
<1>5. Stands(w)
  BY <1>1, <1>4 DEF Stands, Reads, Reloading, ImportTasks, Deploys
<1>6. Carries(w)
  BY <1>4 DEF Carries
<1>7. w \in Requests
  BY <1>3, <1>4, <1>5, <1>6, StillAbout
<1> QED
  BY <1>4, <1>7 DEF w, a, WithAt, WithOk

(* A handler has made up its change of the registry. *)
LEMMA Edited ==
    ASSUME NEW r \in Requests, NEW ids \in SUBSET TargetIds, NEW url \in Urls \union {None},
           NEW after,
           \/ r.at \in {"deploy", "health"} /\ after = "record" /\ url \in Urls
           \/ r.at = "undeploy" /\ after = "drop"
           \/ r.at \in {"run-agent", "remove"} /\ after = "answered"
    PROVE  /\ [r EXCEPT !.at = "load", !.ids = ids, !.url = url, !.after = after] \in Requests
           /\ Same([r EXCEPT !.at = "load", !.ids = ids, !.url = url, !.after = after], r, Reply)
<1> DEFINE a == WithAt(r, "load")
           b == WithIds(a, ids)
           d == WithUrl(b, url)
           w == WithAfter(d, after)
<1>1. r \in Shape /\ Stands(r) /\ "load" \in Steps
  BY DEF Requests, Steps
<1>2. a \in Shape /\ a.at = "load" /\ Same(a, r, {"at"})
  BY <1>1, WithAtFits
<1> HIDE DEF a
<1>3. b \in Shape /\ Same(b, a, {"ids"})
  BY <1>2, WithIdsFits
<1> HIDE DEF b
<1>4. d \in Shape /\ d.url = url /\ Same(d, b, {"url"})
  BY <1>3, WithUrlFits
<1> HIDE DEF d
<1>5. w \in Shape /\ w.after = after /\ Same(w, d, {"after"})
  BY <1>4, WithAfterFits
<1> HIDE DEF w
<1>6. /\ w.at = "load" /\ w.url = url /\ w.task = r.task
      /\ Same(w, r, Reply)
  BY <1>2, <1>3, <1>4, <1>5 DEF Same, Fields, Reply
<1>7. Stands(w)
  BY <1>1, <1>5, <1>6 DEF Stands, Reads, Reloading, ImportTasks, Deploys
<1>8. Carries(w)
  BY <1>1, <1>6 DEF Carries, Stands, ImportTasks, Deploys
<1>9. w \in Requests
  BY <1>5, <1>6, <1>7, <1>8, StillAbout
<1> QED
  BY <1>6, <1>9 DEF w, d, b, a, WithAt, WithIds, WithUrl, WithAfter

(* A file has been read: the registry, by a handler or for the shell, or the records. *)
LEMMA CopyTaken ==
    ASSUME NEW r \in Requests, NEW file, NEW at,
           \/ file \in Registry /\ r.at = "load" /\ at = "write"
           \/ file \in Registry /\ r.at = "targets" /\ at = "offered"
           \/ file \in SUBSET Record /\ r.at = "record" /\ at = "save"
           \/ file \in SUBSET Record /\ r.at = "drop" /\ at = "dropping"
    PROVE  /\ [r EXCEPT !.at = at, !.copy = file] \in Requests
           /\ Same([r EXCEPT !.at = at, !.copy = file], r, Reply)
<1> DEFINE a == WithAt(r, at)
           w == WithCopy(a, file)
<1>1. r \in Shape /\ Stands(r) /\ Carries(r) /\ at \in Steps
  BY DEF Requests, Steps, Reads
<1>2. a \in Shape /\ a.at = at /\ Same(a, r, {"at"})
  BY <1>1, WithAtFits
<1> HIDE DEF a
<1>3. w \in Shape /\ w.copy = file /\ Same(w, a, {"copy"})
  BY <1>2, WithCopyFits, CopiesHold
<1> HIDE DEF w
<1>4. /\ w.at = at /\ w.task = r.task /\ w.after = r.after /\ w.url = r.url
      /\ Same(w, r, Reply)
  BY <1>2, <1>3 DEF Same, Fields, Reply
<1>5. Stands(w)
  BY <1>1, <1>4 DEF Stands, ImportTasks, Deploys
<1>6. Carries(w)
  BY <1>1, <1>3, <1>4 DEF Carries
<1>7. w \in Requests
  BY <1>3, <1>4, <1>5, <1>6, StillAbout
<1> QED
  BY <1>4, <1>7 DEF w, a, WithAt, WithCopy

(* The registry file has been written. *)
LEMMA WrittenBack ==
    ASSUME NEW r \in Requests, r.at = "write"
    PROVE  /\ [r EXCEPT !.at = r.after, !.copy = None, !.ok = r.after = "answered"] \in Requests
           /\ Same([r EXCEPT !.at = r.after, !.copy = None, !.ok = r.after = "answered"], r, Reply)
<1> DEFINE a == WithAt(r, r.after)
           b == WithCopy(a, None)
           ok == r.after = "answered"
           w == WithOk(b, ok)
<1>1. /\ r \in Shape /\ Stands(r) /\ Carries(r)
      /\ r.after \in {"answered", "record", "drop"} /\ r.after \in Steps /\ ok \in BOOLEAN
  BY DEF Requests, Steps, Shape
<1>2. a \in Shape /\ a.at = r.after /\ Same(a, r, {"at"})
  BY <1>1, WithAtFits
<1> HIDE DEF a
<1>3. b \in Shape /\ Same(b, a, {"copy"})
  BY <1>2, WithCopyFits, CopiesHold
<1> HIDE DEF b, ok
<1>4. w \in Shape /\ Same(w, b, {"ok"})
  BY <1>1, <1>3, WithOkFits
<1> HIDE DEF w
<1>5. /\ w.at = r.after /\ w.task = r.task /\ w.after = r.after /\ w.url = r.url
      /\ Same(w, r, Reply)
  BY <1>2, <1>3, <1>4 DEF Same, Fields, Reply
<1>6. Stands(w)
  BY <1>1, <1>5 DEF Stands, ImportTasks, Deploys
<1>7. Carries(w)
  BY <1>1, <1>5 DEF Carries
<1>8. w \in Requests
  BY <1>4, <1>5, <1>6, <1>7, StillAbout
<1> QED
  BY <1>5, <1>8 DEF w, b, a, ok, WithAt, WithCopy, WithOk

(* A container has been started. *)
LEMMA Started ==
    ASSUME NEW r \in Requests, NEW port \in Ports, r.at = "run"
    PROVE  /\ [r EXCEPT !.at = "health", !.url = port] \in Requests
           /\ Same([r EXCEPT !.at = "health", !.url = port], r, Reply)
<1> DEFINE a == WithAt(r, "health")
           w == WithUrl(a, port)
<1>1. /\ r \in Shape /\ Stands(r) /\ "health" \in Steps
      /\ port \in Urls \union {None}
  BY LabAssumption DEF Requests, Steps
<1>2. a \in Shape /\ a.at = "health" /\ Same(a, r, {"at"})
  BY <1>1, WithAtFits
<1> HIDE DEF a
<1>3. w \in Shape /\ w.url = port /\ Same(w, a, {"url"})
  BY <1>1, <1>2, WithUrlFits
<1> HIDE DEF w
<1>4. /\ w.at = "health" /\ w.task = r.task
      /\ Same(w, r, Reply)
  BY <1>2, <1>3 DEF Same, Fields, Reply
<1>5. Stands(w)
  BY <1>1, <1>4 DEF Stands, ImportTasks, Deploys
<1>6. Carries(w)
  BY <1>3, <1>4 DEF Carries
<1>7. w \in Requests
  BY <1>3, <1>4, <1>5, <1>6, StillAbout
<1> QED
  BY <1>4, <1>7 DEF w, a, WithAt, WithUrl

(* A handler that accessed a file is done with its copy. *)
LEMMA Closed ==
    ASSUME NEW r \in Requests, r.at \notin Reads, NEW ok \in BOOLEAN
    PROVE  LET w == [r EXCEPT !.at = "answered", !.ok = ok, !.copy = None] IN
           w \in Requests /\ w.at = "answered" /\ Same(w, r, Reply)
<1> DEFINE a == [r EXCEPT !.at = "answered", !.ok = ok]
           w == WithCopy(a, None)
<1>1. a \in Requests /\ a \in Shape /\ Same(a, r, Reply) /\ Stands(a)
  BY Answered DEF Requests
<1>2. a.at = "answered"
  BY DEF Requests, Shape
<1> HIDE DEF a
<1>3. w \in Shape /\ Same(w, a, {"copy"})
  BY <1>1, WithCopyFits, CopiesHold
<1> HIDE DEF w
<1>4. /\ w.at = "answered" /\ w.task = a.task /\ w.after = a.after
      /\ Same(w, r, Reply) /\ Same(w, a, Reply)
  BY <1>1, <1>2, <1>3 DEF Same, Fields, Reply
<1>5. Stands(w)
  BY <1>1, <1>2, <1>4 DEF Stands
<1>6. Carries(w)
  BY <1>4 DEF Carries
<1>7. w \in Requests
  BY <1>1, <1>3, <1>4, <1>5, <1>6, StillAbout
<1> QED
  BY <1>4, <1>7 DEF w, a, WithCopy

(* A deploy is answered with the id of its record. *)
LEMMA Recorded ==
    ASSUME NEW r \in Requests, NEW id \in Nat, r.at = "save"
    PROVE  LET w == [r EXCEPT !.at = "answered", !.ok = TRUE, !.id = id, !.copy = None] IN
           w \in Requests /\ w.at = "answered" /\ Same(w, r, Reply)
<1> DEFINE a == [r EXCEPT !.at = "answered", !.ok = TRUE, !.copy = None]
           w == WithId(a, id)
<1>1. a \in Requests /\ a \in Shape /\ a.at = "answered" /\ Same(a, r, Reply)
  BY Closed DEF Reads, Reloading, Requests
<1> HIDE DEF a
<1>2. w \in Shape /\ Same(w, a, {"id"})
  BY <1>1, WithIdFits
<1>3. Same(w, a, {"live", "ok", "saw", "ids", "id"})
  BY <1>2 DEF Same
<1>4. w \in Requests /\ w.at = "answered"
  BY <1>1, <1>2, <1>3, Unplaced DEF Same, Fields
<1>5. Same(w, r, Reply)
  BY <1>1, <1>2 DEF Same, Reply
<1> QED
  BY <1>4, <1>5 DEF w, a, WithId
-----------------------------------------------------------------------------
(* What the operator asks for. *)

(* A request about no form. *)
LEMMA Asked ==
    ASSUME NEW task \in Tasks \ ({"deploy"} \union Deploys), NEW of \in Subjects \union {None},
           NEW saw \in Projects \union TargetIds \union {None}, NEW at \in FirstSteps,
           NEW r, r = [Call(task, of, at) EXCEPT !.saw = saw],
           Stands(Call(task, of, at)), About(Call(task, of, at))
    PROVE  r \in Requests
<1> DEFINE c == Call(task, of, at)
<1>1. /\ c \in Shape /\ c.at = at /\ c.task = task /\ c.of = of
  BY CopiesHold DEF Call, Shape, Steps, Reads, FirstSteps
<1>2. c \in Requests
  BY <1>1 DEF Requests, Carries, FirstSteps
<1> HIDE DEF c
<1>3. WithSaw(c, saw) \in Shape /\ Same(WithSaw(c, saw), c, {"saw"})
  BY <1>1, WithSawFits
<1>4. Same(WithSaw(c, saw), c, {"live", "ok", "saw", "ids", "id"})
  BY <1>3 DEF Same
<1>5. WithSaw(c, saw) \in Requests
  BY <1>2, <1>3, <1>4, Unplaced
<1> QED
  BY <1>5 DEF WithSaw, c

(* A request that carries a form. *)
LEMMA AskedWithForm ==
    ASSUME NEW task, NEW of, NEW saw \in Projects \union TargetIds \union {None}, NEW at, NEW form,
           \/ task = "deploy" /\ at = "deploy" /\ of \in Projects /\ form \in Form
           \/ task \in Deploys /\ at = "run-agent" /\ of \in Agents /\ form \in AgentForm,
           NEW r, r = [[Call(task, of, at) EXCEPT !.saw = saw] EXCEPT !.form = form]
    PROVE  r \in Requests
<1> DEFINE c == Call(task, of, at)
           a == WithSaw(c, saw)
           w == WithForm(a, form)
<1>1. /\ task \in Tasks /\ of \in Subjects \union {None} /\ at \in Steps
      /\ form \in Form \union AgentForm \union {None}
  BY DEF Tasks, ProjectTasks, AgentTasks, Deploys, Subjects, Steps
<1>2. c \in Shape /\ c.at = at /\ c.task = task /\ c.of = of
  BY <1>1, CopiesHold DEF Call, Shape
<1> HIDE DEF c
<1>3. a \in Shape /\ Same(a, c, {"saw"})
  BY <1>2, WithSawFits
<1> HIDE DEF a
<1>4. w \in Shape /\ Same(w, a, {"form"}) /\ w.form = form
  BY <1>1, <1>3, WithFormFits
<1> HIDE DEF w
<1>5. w.at = at /\ w.task = task /\ w.of = of
  BY <1>2, <1>3, <1>4 DEF Same, Fields
<1>6. About(w)
  BY <1>4, <1>5 DEF About, ProjectTasks, AgentTasks, LabelledTasks, Deploys, ImportTasks
<1>7. Stands(w) /\ Carries(w)
  BY <1>5 DEF Stands, Carries, Deploys
<1>8. w \in Requests
  BY <1>4, <1>6, <1>7 DEF Requests
<1> QED
  BY <1>8 DEF w, a, c, WithSaw, WithForm
-----------------------------------------------------------------------------
(* The steps of a handler. *)

(* What a step of a handler does to its request. *)
Handled(r, w) ==
    /\ r.at \notin Reads \union {"answered"} /\ w.at \notin Reads
    /\ Same(w, r, Reply)

CallHandled(c) ==
    /\ call[c] \in Requests
    /\ \E w \in Requests : Handled(call[c], w) /\ call' = [call EXCEPT ![c] = w]

(* A slot that is not idle holds a request of the type. *)
LEMMA StandsThere ==
    ASSUME CallFits, NEW c \in Slots, call[c].at # "idle"
    PROVE  call[c] \in Requests
BY DEF CallFits, Idle

(* The three ways a handler's action leaves its request: answered, at an edit, gone on. *)
LEMMA AnswersIt ==
    ASSUME CallFits, NEW c \in Slots, call[c].at \notin Reads \union {"idle", "answered"},
           NEW ok \in BOOLEAN, Answers(c, ok)
    PROVE  CallHandled(c)
<1> DEFINE w == [call[c] EXCEPT !.at = "answered", !.ok = ok]
<1>1. call[c] \in Requests
  BY StandsThere
<1>2. call' = [call EXCEPT ![c] = w]
  BY DEF CallFits, Answers
<1>3. w \in Requests /\ Same(w, call[c], Reply)
  BY <1>1, Answered
<1>4. w.at = "answered"
  BY <1>1 DEF Requests, Shape
<1> HIDE DEF w
<1> QED
  BY <1>1, <1>2, <1>3, <1>4 DEF CallHandled, Handled, Reads

LEMMA EditsIt ==
    ASSUME CallFits, NEW c \in Slots,
           NEW ids \in SUBSET TargetIds, NEW url \in Urls \union {None}, NEW after,
           \/ call[c].at \in {"deploy", "health"} /\ after = "record" /\ url \in Urls
           \/ call[c].at = "undeploy" /\ after = "drop"
           \/ call[c].at \in {"run-agent", "remove"} /\ after = "answered",
           Edits(c, ids, url, after)
    PROVE  CallHandled(c)
<1> DEFINE w == [call[c] EXCEPT !.at = "load", !.ids = ids, !.url = url, !.after = after]
<1>1. call[c] \in Requests
  BY StandsThere
<1>2. call' = [call EXCEPT ![c] = w]
  BY DEF CallFits, Edits
<1>3. w \in Requests /\ Same(w, call[c], Reply)
  BY <1>1, Edited
<1>4. w.at = "load"
  BY <1>1 DEF Requests, Shape
<1> HIDE DEF w
<1> QED
  BY <1>1, <1>2, <1>3, <1>4 DEF CallHandled, Handled, Reads

(* Loading and writing the registry, and each group of handlers, keep the types. *)
LEMMA RegistryHandled ==
    ASSUME CallFits, targets \in Registry, NEW c \in Slots, LoadTargets(c) \/ WriteTargets(c)
    PROVE  CallHandled(c)
<1>1. call[c] \in Requests
  BY StandsThere DEF LoadTargets, WriteTargets, At
<1>2. CASE LoadTargets(c)
  <2> DEFINE w == [call[c] EXCEPT !.at = "write", !.copy = targets]
  <2>1. call' = [call EXCEPT ![c] = w]
    BY <1>2 DEF CallFits, LoadTargets
  <2>2. w \in Requests /\ Same(w, call[c], Reply)
    BY <1>1, <1>2, CopyTaken DEF LoadTargets, At
  <2>3. w.at = "write"
    BY <1>1 DEF Requests, Shape
  <2> HIDE DEF w
  <2> QED
    BY <1>1, <1>2, <2>1, <2>2, <2>3 DEF CallHandled, Handled, Reads, LoadTargets, At
<1>3. CASE WriteTargets(c)
  <2> DEFINE w == [call[c] EXCEPT !.at = call[c].after, !.copy = None,
                                  !.ok = call[c].after = "answered"]
  <2>1. call' = [call EXCEPT ![c] = w]
    BY <1>3 DEF CallFits, WriteTargets
  <2>2. w \in Requests /\ Same(w, call[c], Reply)
    BY <1>1, <1>3, WrittenBack DEF WriteTargets, At
  <2>3. w.at \in {"answered", "record", "drop"}
    BY <1>1 DEF Requests, Shape
  <2> HIDE DEF w
  <2> QED
    BY <1>1, <1>3, <2>1, <2>2, <2>3 DEF CallHandled, Handled, Reads, WriteTargets, At
<1> QED
  BY <1>2, <1>3

(* Loading the records, and a file that fails. *)
LEMMA FilesHandled ==
    ASSUME CallFits, records \in SUBSET Record, NEW c \in Slots, LoadRecords(c) \/ FileFails(c)
    PROVE  CallHandled(c)
<1>1. call[c] \in Requests
  BY StandsThere DEF LoadRecords, FileFails, At
<1>2. CASE LoadRecords(c)
  <2> DEFINE at == IF call[c].at = "record" THEN "save" ELSE "dropping"
             w == [call[c] EXCEPT !.at = at, !.copy = records]
  <2>1. call' = [call EXCEPT ![c] = w]
    BY <1>2 DEF CallFits, LoadRecords
  <2>2. w \in Requests /\ Same(w, call[c], Reply)
    BY <1>1, <1>2, CopyTaken DEF LoadRecords
  <2>3. w.at = at
    BY <1>1 DEF Requests, Shape
  <2> HIDE DEF w
  <2> QED
    BY <1>1, <1>2, <2>1, <2>2, <2>3 DEF CallHandled, Handled, Reads, Reloading, LoadRecords
<1>3. CASE FileFails(c)
  <2> DEFINE w == [call[c] EXCEPT !.at = "answered", !.ok = FALSE, !.copy = None]
  <2>1. call' = [call EXCEPT ![c] = w]
    BY <1>3 DEF CallFits, FileFails
  <2>2. call[c].at \notin Reads
    BY <1>3 DEF FileFails, Reads, Reloading
  <2>3. w \in Requests /\ w.at = "answered" /\ Same(w, call[c], Reply)
    BY <1>1, <2>2, Closed
  <2> HIDE DEF w
  <2> QED
    BY <1>1, <1>3, <2>1, <2>2, <2>3 DEF CallHandled, Handled, Reads, FileFails
<1> QED
  BY <1>2, <1>3

(* What a request at a step of a handler is known to carry. *)
LEMMA AtStep ==
    ASSUME NEW r \in Requests
    PROVE  /\ r.at \in {"import", "unpack", "delete"} => r.of \in Projects
           /\ r.at \in {"deploy", "run", "health", "record", "save"} =>
                 r.of \in Projects /\ r.form \in Form
           /\ r.at \in {"undeploy", "drop", "dropping"} => r.of \in Projects
           /\ r.at = "run-agent" => r.of \in Agents /\ r.form \in AgentForm
           /\ r.at \in {"save-template", "delete-template"} => r.of \in Agents
           /\ r.at \in {"stop", "start", "remove"} => r.of \in Projects \union Agents
           /\ r.at = "health" => r.url \in Ports
           /\ r.at = "save" => r.url \in Urls
           /\ r.at = "write" => r.copy \in Registry
           /\ r.at \in {"save", "dropping"} => r.copy \in SUBSET Record
           /\ r.of \in Projects \union Agents \union {None}
           /\ r.at \in {"load", "write"} => r.of \in Projects \union Agents
           /\ r.url \in Urls \union {None}
<1>1. r \in Shape /\ About(r) /\ Stands(r) /\ Carries(r)
  BY DEF Requests
<1>2. r.url \in Urls \union {None}
  BY <1>1 DEF Shape
<1>3. /\ r.at = "health" => r.url \in Ports
      /\ r.at = "write" => r.copy \in Registry
      /\ r.at \in {"save", "dropping"} => r.copy \in SUBSET Record
  BY <1>1 DEF Carries
<1>4. /\ r.at \in {"import", "unpack"} => r.task \in ImportTasks
      /\ r.at = "delete" => r.task = "delete"
      /\ r.at \in {"deploy", "run", "health", "record", "save"} => r.task = "deploy"
      /\ r.at \in {"undeploy", "drop", "dropping"} => r.task = "undeploy"
  BY <1>1 DEF Stands, ImportTasks, Deploys
<1>5. /\ r.at = "run-agent" => r.task \in Deploys
      /\ r.at \in {"save-template", "delete-template"} => r.task = r.at
      /\ r.at \in {"stop", "start", "remove"} => r.task = r.at
  BY <1>1 DEF Stands, ImportTasks, Deploys
<1>6. /\ r.at \in {"import", "unpack", "delete"} => r.of \in Projects
      /\ r.at \in {"deploy", "run", "health", "record", "save"} =>
            r.of \in Projects /\ r.form \in Form
      /\ r.at \in {"undeploy", "drop", "dropping"} => r.of \in Projects
  BY <1>1, <1>4 DEF About, ProjectTasks, ImportTasks
<1>7. /\ r.at = "run-agent" => r.of \in Agents /\ r.form \in AgentForm
      /\ r.at \in {"save-template", "delete-template"} => r.of \in Agents
      /\ r.at \in {"stop", "start", "remove"} => r.of \in Projects \union Agents
  BY <1>1, <1>5 DEF About, AgentTasks, LabelledTasks, Subjects
<1>8. ASSUME r.at = "save"
      PROVE  r.url \in Urls
  <2>1. r.task = "deploy"
    BY <1>4, <1>8
  <2> QED
    BY <1>1, <1>8, <2>1 DEF Carries
<1>9. r.of \in Projects \union Agents \union {None}
  BY <1>1 DEF Shape, Subjects
<1>10. ASSUME r.at \in {"load", "write"}
       PROVE  r.of \in Projects \union Agents
  <2>1. r.task \in {"deploy", "undeploy", "remove"} \union Deploys
    BY <1>1, <1>10 DEF Stands, ImportTasks
  <2> QED
    BY <1>1, <2>1 DEF About, ProjectTasks, AgentTasks, LabelledTasks, Subjects
<1> QED
  BY <1>2, <1>3, <1>6, <1>7, <1>8, <1>9, <1>10

LEMMA GoesIt ==
    ASSUME CallFits, NEW c \in Slots, NEW step,
           \/ call[c].at = "import" /\ step = "unpack"
           \/ call[c].at = "deploy" /\ step = "run",
           Goes(c, step)
    PROVE  CallHandled(c)
<1> DEFINE w == WithAt(call[c], step)
<1>1. call[c] \in Requests /\ call[c] \in Shape /\ step \in Steps
  BY StandsThere DEF Requests, Steps
<1>2. call' = [call EXCEPT ![c] = w]
  BY DEF CallFits, Goes, WithAt
<1>3. w \in Requests
  BY <1>1, GoesOn DEF Follows
<1>4. w.at = step /\ Same(w, call[c], {"at"})
  BY <1>1, WithAtFits
<1>5. Same(w, call[c], Reply)
  BY <1>4 DEF Same, Reply
<1> HIDE DEF w
<1> QED
  BY <1>1, <1>2, <1>3, <1>4, <1>5 DEF CallHandled, Handled, Reads

LEMMA ImportingHandled ==
    ASSUME CallFits, LabTypeOK, NEW c \in Slots, Importing(c)
    PROVE  CallHandled(c) /\ LabTypeOK'
<1>1. CASE CheckImport(c)
  <2>1. CallHandled(c)
    BY <1>1, AnswersIt, GoesIt DEF CheckImport, At, Reads
  <2> QED
    BY <1>1, <2>1 DEF CheckImport, LabTypeOK, dockerVars, registryVars
<1>2. CASE Unpack(c)
  <2>1. CallHandled(c)
    BY <1>2, AnswersIt DEF Unpack, At, Reads
  <2>2. call[c].of \in Projects
    BY <1>2, StandsThere, AtStep DEF Unpack, At
  <2> QED
    BY <1>2, <2>1, <2>2 DEF Unpack, LabTypeOK, registryVars
<1>3. CASE UnpackFails(c)
  <2>1. CallHandled(c)
    BY <1>3, AnswersIt DEF UnpackFails, At, Reads
  <2>2. faults' \in 0..MaxFaults
    BY <1>3, LabAssumption DEF UnpackFails, Fault, LabTypeOK
  <2> QED
    BY <1>3, <2>1, <2>2 DEF UnpackFails, LabTypeOK, registryVars
<1>4. CASE DeleteProject(c)
  <2>1. CallHandled(c)
    BY <1>4, AnswersIt DEF DeleteProject, At, Reads
  <2> QED
    BY <1>4, <2>1 DEF DeleteProject, LabTypeOK, registryVars
<1> QED
  BY <1>1, <1>2, <1>3, <1>4 DEF Importing

LEMMA SetsContainer ==
    ASSUME container \in [Projects \union Agents -> Container],
           NEW s \in Projects \union Agents, NEW to \in Container, SetContainer(s, to)
    PROVE  container' \in [Projects \union Agents -> Container]
BY DEF SetContainer

LEMMA Containers ==
    /\ Absent \in Container /\ [Absent EXCEPT !.at = "created"] \in Container
    /\ \A port \in Ports \union {None}, serves \in BOOLEAN : Running(port, serves) \in Container
BY DEF Absent, Running, Container

LEMMA Publishes == MayPublish \subseteq Ports
BY LabAssumption DEF MayPublish, Preferred

LEMMA FaultCounted ==
    ASSUME faults \in 0..MaxFaults, Fault
    PROVE  faults' \in 0..MaxFaults
BY LabAssumption DEF Fault

(* Writing the records back. *)
LEMMA RecordsWritten ==
    ASSUME LabTypeOK, NEW copy \in SUBSET Record, NEW file \in SUBSET Record,
           WriteRecords(copy, file)
    PROVE  records' \subseteq Record /\ spoiled' \subseteq (Projects \union Agents) \X SpoiledBy
<1>1. \A d \in records \union file : d.of \in Projects
  BY DEF LabTypeOK, Record
<1>2. Undone(copy, file) \subseteq Projects
  BY <1>1 DEF Undone
<1> QED
  BY <1>2 DEF WriteRecords, LabTypeOK, SpoiledBy

LEMMA DeployingHandled ==
    ASSUME CallFits, LabTypeOK, NEW c \in Slots, Deploying(c)
    PROVE  CallHandled(c) /\ LabTypeOK'
<1> DEFINE r == call[c]
<1>1. CASE StartDeploy(c)
  <2>1. /\ At(c, "deploy") /\ r \in Requests
        /\ r.of \in Projects /\ r.form \in Form
    BY <1>1, StandsThere, AtStep DEF StartDeploy, At
  <2>2. CASE /\ Edits(c, {LabTarget(r.of, r.form.type)}, External, "record")
             /\ UNCHANGED <<container, faults>>
    <3>1. {LabTarget(r.of, r.form.type)} \in SUBSET TargetIds /\ External \in Urls
      BY <2>1, LabAssumption DEF LabTarget, Form
    <3>2. CallHandled(c)
      BY <2>1, <2>2, <3>1, EditsIt DEF At
    <3> QED
      BY <1>1, <2>2, <3>2 DEF StartDeploy, LabTypeOK, registryVars
  <2>3. CASE /\ Goes(c, "run")
             /\ \/ SetContainer(r.of, Absent) /\ UNCHANGED faults
                \/ container[r.of] # Absent /\ UNCHANGED container /\ Fault
    <3>1. CallHandled(c)
      BY <2>1, <2>3, GoesIt DEF At
    <3>2. container' \in [Projects \union Agents -> Container]
      BY <2>1, <2>3, Containers, SetsContainer DEF LabTypeOK
    <3>3. faults' \in 0..MaxFaults
      BY <2>3, FaultCounted DEF LabTypeOK
    <3> QED
      BY <1>1, <3>1, <3>2, <3>3 DEF StartDeploy, LabTypeOK, registryVars
  <2> QED
    BY <1>1, <2>2, <2>3 DEF StartDeploy
<1>2. CASE StartDeployFails(c)
  <2>1. CallHandled(c)
    BY <1>2, AnswersIt DEF StartDeployFails, At, Reads
  <2>2. faults' \in 0..MaxFaults
    BY <1>2, FaultCounted DEF StartDeployFails, LabTypeOK
  <2> QED
    BY <1>2, <2>1, <2>2 DEF StartDeployFails, LabTypeOK, dockerVars, registryVars
<1>3. CASE RunContainer(c)
  <2>1. At(c, "run") /\ r \in Requests /\ r.of \in Projects
    BY <1>3, StandsThere, AtStep DEF RunContainer, At
  <2>2. CASE Answers(c, FALSE) /\ UNCHANGED <<container, faults>>
    <3>1. CallHandled(c)
      BY <2>1, <2>2, AnswersIt DEF At, Reads
    <3> QED
      BY <1>3, <2>2, <3>1 DEF RunContainer, LabTypeOK, registryVars
  <2>3. ASSUME NEW port \in MayPublish, NEW serves \in BOOLEAN,
               IF serves THEN UNCHANGED faults ELSE Fault,
               SetContainer(r.of, Running(port, serves)),
               call' = [call EXCEPT ![c].at = "health", ![c].url = port]
        PROVE  CallHandled(c) /\ LabTypeOK'
    <3> DEFINE w == [r EXCEPT !.at = "health", !.url = port]
    <3>1. port \in Ports
      BY Publishes
    <3>2. call' = [call EXCEPT ![c] = w]
      BY <2>3 DEF CallFits
    <3>3. w \in Requests /\ Same(w, r, Reply)
      BY <2>1, <3>1, Started DEF At
    <3>4. w.at = "health"
      BY <2>1 DEF Requests, Shape
    <3>5. CallHandled(c)
      <4> HIDE DEF w
      <4> QED
        BY <2>1, <3>2, <3>3, <3>4 DEF CallHandled, Handled, Reads, At
    <3>6. container' \in [Projects \union Agents -> Container]
      BY <2>1, <2>3, <3>1, Containers, SetsContainer DEF LabTypeOK
    <3>7. faults' \in 0..MaxFaults
      BY <2>3, FaultCounted DEF LabTypeOK
    <3> QED
      BY <1>3, <3>5, <3>6, <3>7 DEF RunContainer, LabTypeOK, registryVars
  <2> QED
    BY <1>3, <2>2, <2>3 DEF RunContainer
<1>4. CASE RunFails(c)
  <2>1. At(c, "run") /\ r \in Requests /\ r.of \in Projects
    BY <1>4, StandsThere, AtStep DEF RunFails, At
  <2>2. CallHandled(c)
    BY <1>4, AnswersIt DEF RunFails, At, Reads
  <2>3. container' \in [Projects \union Agents -> Container]
    BY <1>4, <2>1, Containers, SetsContainer DEF RunFails, LabTypeOK
  <2>4. faults' \in 0..MaxFaults
    BY <1>4, FaultCounted DEF RunFails, LabTypeOK
  <2>5. spoiled' \subseteq (Projects \union Agents) \X SpoiledBy
    BY <1>4, <2>1 DEF RunFails, LosesOld, LabTypeOK, SpoiledBy
  <2> QED
    BY <1>4, <2>2, <2>3, <2>4, <2>5 DEF RunFails, LabTypeOK, registryVars
<1>5. CASE HealthPasses(c)
  <2>1. /\ At(c, "health") /\ r \in Requests
        /\ r.of \in Projects /\ r.form \in Form /\ r.url \in Ports
    BY <1>5, StandsThere, AtStep DEF HealthPasses, At
  <2>2. {LabTarget(r.of, r.form.type)} \in SUBSET TargetIds /\ r.url \in Urls
    BY <2>1, LabAssumption DEF LabTarget, Form
  <2>3. CallHandled(c)
    BY <1>5, <2>1, <2>2, EditsIt DEF HealthPasses, At
  <2>4. served' \in [Projects -> SUBSET Urls]
    BY <1>5, <2>2 DEF HealthPasses, LabTypeOK
  <2>5. spoiled' \subseteq (Projects \union Agents) \X SpoiledBy
    BY <1>5, <2>1 DEF HealthPasses, LabTypeOK, SpoiledBy
  <2> QED
    BY <1>5, <2>3, <2>4, <2>5 DEF HealthPasses, LabTypeOK, registryVars
<1>6. CASE HealthFails(c)
  <2>1. At(c, "health") /\ r \in Requests /\ r.of \in Projects
    BY <1>6, StandsThere, AtStep DEF HealthFails, At
  <2>2. CallHandled(c)
    BY <1>6, AnswersIt DEF HealthFails, At, Reads
  <2>3. container' \in [Projects \union Agents -> Container]
    BY <1>6, <2>1, Containers, SetsContainer DEF HealthFails, LabTypeOK
  <2>4. spoiled' \subseteq (Projects \union Agents) \X SpoiledBy
    BY <1>6, <2>1 DEF HealthFails, LosesOld, LabTypeOK, SpoiledBy
  <2> QED
    BY <1>6, <2>2, <2>3, <2>4 DEF HealthFails, LabTypeOK, registryVars
<1>7. CASE SaveDeployment(c)
  <2>1. /\ At(c, "save") /\ r \in Requests /\ r.copy \in SUBSET Record
        /\ r.of \in Projects /\ r.form \in Form /\ r.url \in Urls
    BY <1>7, StandsThere, AtStep DEF SaveDeployment, At
  <2>2. stamps + 1 \in Nat
    BY DEF LabTypeOK
  <2> DEFINE w == [r EXCEPT !.at = "answered", !.ok = TRUE, !.id = stamps + 1, !.copy = None]
             new == NewRecord(c)
  <2>3. call' = [call EXCEPT ![c] = w]
    BY <1>7 DEF CallFits, SaveDeployment
  <2>4. w \in Requests /\ w.at = "answered" /\ Same(w, r, Reply)
    BY <2>1, <2>2, Recorded DEF At
  <2>6. CallHandled(c)
    <3> HIDE DEF w
    <3> QED
      BY <2>1, <2>3, <2>4 DEF CallHandled, Handled, Reads, At
  <2>7. new \in Record
    BY <2>1, <2>2, LabAssumption DEF NewRecord, Record, LabTarget, Form
  <2>8. WriteRecords(r.copy, r.copy \union {new})
    BY <1>7 DEF SaveDeployment
  <2>9. /\ records' \subseteq Record
        /\ spoiled' \subseteq (Projects \union Agents) \X SpoiledBy
    <3> HIDE DEF new
    <3>1. r.copy \union {new} \in SUBSET Record
      BY <2>1, <2>7
    <3> QED
      BY <2>1, <2>8, <3>1, RecordsWritten
  <2> QED
    BY <1>7, <2>2, <2>6, <2>9 DEF SaveDeployment, LabTypeOK, registryVars
<1>8. CASE CleanUpFails(c)
  <2>1. At(c, "health") /\ r \in Requests /\ r.of \in Projects
    BY <1>8, StandsThere, AtStep DEF CleanUpFails, At
  <2>2. CallHandled(c)
    BY <1>8, AnswersIt DEF CleanUpFails, At, Reads
  <2>3. spoiled' \subseteq (Projects \union Agents) \X SpoiledBy
    BY <1>8, <2>1 DEF CleanUpFails, LabTypeOK, SpoiledBy
  <2> QED
    BY <1>8, <2>2, <2>3 DEF CleanUpFails, LabTypeOK, registryVars
<1> QED
  BY <1>1, <1>2, <1>3, <1>4, <1>5, <1>6, <1>7, <1>8 DEF Deploying

LEMMA UndeployingHandled ==
    ASSUME CallFits, LabTypeOK, NEW c \in Slots, Undeploying(c)
    PROVE  CallHandled(c) /\ LabTypeOK'
<1> DEFINE r == call[c]
           Found == {d \in records : d.id = r.id}
<1>1. ASSUME NEW d \in Found
      PROVE  d.of \in Projects /\ {d.target} \in SUBSET TargetIds
  BY DEF LabTypeOK, Record
<1>2. CASE RemoveContainer(c)
  <2>1. CASE Answers(c, TRUE) /\ UNCHANGED <<container, spoiled>>
    <3>1. CallHandled(c)
      BY <1>2, <2>1, AnswersIt DEF RemoveContainer, At, Reads
    <3> QED
      BY <1>2, <2>1, <3>1 DEF RemoveContainer, LabTypeOK, registryVars
  <2>2. ASSUME NEW d \in Found, SetContainer(d.of, Absent),
               Edits(c, {d.target}, None, "drop"),
               spoiled' = IF LeavesTargets(d) THEN spoiled \union {<<d.of, "types">>} ELSE spoiled
        PROVE  CallHandled(c) /\ LabTypeOK'
    <3>1. CallHandled(c)
      BY <1>1, <1>2, <2>2, EditsIt DEF RemoveContainer, At
    <3>2. container' \in [Projects \union Agents -> Container]
      BY <1>1, <2>2, Containers, SetsContainer DEF LabTypeOK
    <3>3. spoiled' \subseteq (Projects \union Agents) \X SpoiledBy
      BY <1>1, <2>2 DEF LabTypeOK, SpoiledBy
    <3> QED
      BY <1>2, <3>1, <3>2, <3>3 DEF RemoveContainer, LabTypeOK, registryVars
  <2> QED
    BY <1>2, <2>1, <2>2 DEF RemoveContainer
<1>3. CASE RemoveContainerFails(c)
  <2>1. faults' \in 0..MaxFaults
    BY <1>3, FaultCounted DEF RemoveContainerFails, LabTypeOK
  <2>2. CASE Answers(c, FALSE) /\ UNCHANGED spoiled
    <3>1. CallHandled(c)
      BY <1>3, <2>2, AnswersIt DEF RemoveContainerFails, At, Reads
    <3> QED
      BY <1>3, <2>1, <2>2, <3>1 DEF RemoveContainerFails, LabTypeOK, registryVars
  <2>3. ASSUME NEW d \in Found, Edits(c, {d.target}, None, "drop"),
               spoiled' = spoiled \union {<<d.of, "docker">>}
        PROVE  CallHandled(c) /\ LabTypeOK'
    <3>1. CallHandled(c)
      BY <1>1, <1>3, <2>3, EditsIt DEF RemoveContainerFails, At
    <3>2. spoiled' \subseteq (Projects \union Agents) \X SpoiledBy
      BY <1>1, <2>3 DEF LabTypeOK, SpoiledBy
    <3> QED
      BY <1>3, <2>1, <3>1, <3>2 DEF RemoveContainerFails, LabTypeOK, registryVars
  <2> QED
    BY <1>3, <2>2, <2>3 DEF RemoveContainerFails
<1>4. CASE DropRecords(c)
  <2> DEFINE w == [r EXCEPT !.at = "answered", !.ok = TRUE, !.copy = None]
             kept == {d \in r.copy : d.of = r.of => ~InContainer(d)}
  <2>1. At(c, "dropping") /\ r \in Requests /\ r.copy \in SUBSET Record
    BY <1>4, StandsThere, AtStep DEF DropRecords, At
  <2>2. call' = [call EXCEPT ![c] = w]
    BY <1>4 DEF CallFits, DropRecords
  <2>3. w \in Requests /\ w.at = "answered" /\ Same(w, r, Reply)
    BY <2>1, Closed DEF At, Reads, Reloading
  <2>4. CallHandled(c)
    <3> HIDE DEF w
    <3> QED
      BY <2>1, <2>2, <2>3 DEF CallHandled, Handled, Reads, At
  <2>5. UNCHANGED <<records, spoiled>> \/ WriteRecords(r.copy, kept)
    BY <1>4 DEF DropRecords
  <2>6. kept \in SUBSET Record
    BY <2>1
  <2>7. records' \subseteq Record /\ spoiled' \subseteq (Projects \union Agents) \X SpoiledBy
    <3> HIDE DEF kept
    <3> QED
      BY <2>1, <2>5, <2>6, RecordsWritten DEF LabTypeOK
  <2> QED
    BY <1>4, <2>4, <2>7 DEF DropRecords, LabTypeOK, registryVars
<1> QED
  BY <1>2, <1>3, <1>4 DEF Undeploying

LEMMA RemoveAgentHandled ==
    ASSUME CallFits, LabTypeOK, NEW c \in Slots, RemoveAgent(c)
    PROVE  CallHandled(c) /\ LabTypeOK'
<1> DEFINE s == call[c].of
<1>1. At(c, "remove") /\ call[c] \in Requests /\ s \in Projects \union Agents
  BY StandsThere, AtStep DEF RemoveAgent, At
<1>2. CASE Answers(c, TRUE) /\ UNCHANGED <<container, spoiled, faults>>
  <2>1. CallHandled(c)
    BY <1>1, <1>2, AnswersIt DEF At, Reads
  <2> QED
    BY <1>2, <2>1 DEF RemoveAgent, LabTypeOK, registryVars
<1>3. CASE ~(Answers(c, TRUE) /\ UNCHANGED <<container, spoiled, faults>>)
  <2>1. /\ Edits(c, TargetsOfAgent(s), None, "answered")
        /\ \/ SetContainer(s, Absent) /\ UNCHANGED faults
           \/ UNCHANGED container /\ Fault
        /\ spoiled' = spoiled \union
              (IF s \in Projects THEN {<<s, "agents">>}
               ELSE {<<a, "image">> : a \in {a \in Agents \ {s} : Image[a] = Image[s]}}
                    \union (IF faults' = faults THEN {} ELSE {<<s, "docker">>}))
    BY <1>3 DEF RemoveAgent
  <2>2. TargetsOfAgent(s) \in SUBSET TargetIds
    BY <1>1, LabAssumption DEF TargetsOfAgent, AgentTarget, LabTypeOK
  <2>3. CallHandled(c)
    BY <1>1, <2>1, <2>2, EditsIt DEF At
  <2>4. container' \in [Projects \union Agents -> Container]
    BY <1>1, <2>1, Containers, SetsContainer DEF LabTypeOK
  <2>5. faults' \in 0..MaxFaults
    BY <2>1, FaultCounted DEF LabTypeOK
  <2>6. spoiled' \subseteq (Projects \union Agents) \X SpoiledBy
    BY <1>1, <2>1 DEF LabTypeOK, SpoiledBy
  <2> QED
    BY <2>3, <2>4, <2>5, <2>6 DEF RemoveAgent, LabTypeOK, registryVars
<1> QED
  BY <1>2, <1>3

LEMMA HostingHandled ==
    ASSUME CallFits, LabTypeOK, NEW c \in Slots, Hosting(c)
    PROVE  CallHandled(c) /\ LabTypeOK'
<1> DEFINE r == call[c]
<1>1. CASE RunAgent(c)
  <2>1. /\ At(c, "run-agent") /\ r \in Requests
        /\ r.of \in Agents /\ r.form \in AgentForm
    BY <1>1, StandsThere, AtStep DEF RunAgent, At
  <2>2. AgentIds(c) \in SUBSET TargetIds /\ AgentUrl \in Urls
    BY <2>1, LabAssumption DEF AgentIds, AgentTarget
  <2>3. CallHandled(c)
    BY <1>1, <2>1, <2>2, AnswersIt, EditsIt DEF RunAgent, At, Reads
  <2>4. container' \in [Projects \union Agents -> Container]
    BY <1>1, <2>1, SetsContainer DEF RunAgent, LabTypeOK, Container
  <2> QED
    BY <1>1, <2>3, <2>4 DEF RunAgent, LabTypeOK, registryVars
<1>2. CASE RunAgentFails(c)
  <2>1. At(c, "run-agent") /\ r \in Requests /\ r.of \in Agents
    BY <1>2, StandsThere, AtStep DEF RunAgentFails, At
  <2>2. CallHandled(c)
    BY <1>2, AnswersIt DEF RunAgentFails, At, Reads
  <2>3. container' \in [Projects \union Agents -> Container]
    BY <1>2, <2>1, Containers, SetsContainer DEF RunAgentFails, LabTypeOK
  <2>4. faults' \in 0..MaxFaults
    BY <1>2, FaultCounted DEF RunAgentFails, LabTypeOK
  <2>5. spoiled' \subseteq (Projects \union Agents) \X SpoiledBy
    BY <1>2, <2>1 DEF RunAgentFails, LabTypeOK, SpoiledBy
  <2> QED
    BY <1>2, <2>2, <2>3, <2>4, <2>5 DEF RunAgentFails, LabTypeOK, registryVars
<1>3. CASE StopAgent(c)
  <2>1. At(c, "stop") /\ r \in Requests /\ r.of \in Projects \union Agents
    BY <1>3, StandsThere, AtStep DEF StopAgent, At
  <2>2. CallHandled(c)
    BY <1>3, AnswersIt DEF StopAgent, At, Reads
  <2>3. container[r.of].at = "up" => [container[r.of] EXCEPT !.at = "exited"] \in Container
    BY <2>1 DEF LabTypeOK, Container, Absent
  <2>4. container' \in [Projects \union Agents -> Container]
    BY <1>3, <2>1, <2>3, SetsContainer DEF StopAgent, LabTypeOK
  <2>5. spoiled' \subseteq (Projects \union Agents) \X SpoiledBy
    BY <1>3, <2>1 DEF StopAgent, Spoil, LabTypeOK, SpoiledBy
  <2> QED
    BY <1>3, <2>2, <2>4, <2>5 DEF StopAgent, LabTypeOK, registryVars
<1>4. CASE StartAgent(c)
  <2>1. At(c, "start") /\ r \in Requests /\ r.of \in Projects \union Agents
    BY <1>4, StandsThere, AtStep DEF StartAgent, At
  <2>2. CallHandled(c)
    BY <1>4, AnswersIt DEF StartAgent, At, Reads
  <2>3. container[r.of].at \in {"exited", "created"}
           => [container[r.of] EXCEPT !.at = "up"] \in Container
    BY <2>1 DEF LabTypeOK, Container, Absent
  <2>4. container' \in [Projects \union Agents -> Container]
    BY <1>4, <2>1, <2>3, SetsContainer DEF StartAgent, LabTypeOK
  <2>5. spoiled' \subseteq (Projects \union Agents) \X SpoiledBy
    BY <1>4, <2>1 DEF StartAgent, Spoil, LabTypeOK, SpoiledBy
  <2> QED
    BY <1>4, <2>2, <2>4, <2>5 DEF StartAgent, LabTypeOK, registryVars
<1>5. CASE RemoveAgent(c)
  BY <1>5, RemoveAgentHandled
<1>6. CASE SaveTemplate(c)
  <2>1. At(c, "save-template") /\ r \in Requests /\ r.of \in Agents
    BY <1>6, StandsThere, AtStep DEF SaveTemplate, At
  <2>2. CallHandled(c)
    BY <1>6, AnswersIt DEF SaveTemplate, At, Reads
  <2> QED
    BY <1>6, <2>1, <2>2 DEF SaveTemplate, LabTypeOK, registryVars
<1>7. CASE DeleteTemplate(c)
  <2>1. CallHandled(c)
    BY <1>7, AnswersIt DEF DeleteTemplate, At, Reads
  <2> QED
    BY <1>7, <2>1 DEF DeleteTemplate, LabTypeOK, registryVars
<1> QED
  BY <1>1, <1>2, <1>3, <1>4, <1>5, <1>6, <1>7 DEF Hosting

(* The two accesses of the registry file. *)
LEMMA RegistryTyped ==
    ASSUME CallFits, LabTypeOK, NEW c \in Slots, LoadTargets(c) \/ WriteTargets(c)
    PROVE  LabTypeOK'
<1>1. CASE LoadTargets(c)
  BY <1>1 DEF LoadTargets, LabTypeOK, dockerVars, registryVars
<1>2. CASE WriteTargets(c)
  <2>1. call[c] \in Requests /\ call[c].copy \in Registry /\ call[c].url \in Urls \union {None}
    BY <1>2, StandsThere, AtStep DEF WriteTargets, At
  <2>2. targets' \in Registry
    BY <1>2, <2>1 DEF WriteTargets, WriteBack, Changed, Registry, registryVars, LabTypeOK
  <2>3. staleWrite' \in BOOLEAN
    BY <1>2 DEF WriteTargets, WriteBack, registryVars, LabTypeOK
  <2> QED
    BY <1>2, <2>2, <2>3 DEF WriteTargets, LabTypeOK, dockerVars
<1> QED
  BY <1>1, <1>2

LEMMA FilesTyped ==
    ASSUME CallFits, LabTypeOK, NEW c \in Slots, LoadRecords(c) \/ FileFails(c)
    PROVE  LabTypeOK'
<1>1. CASE LoadRecords(c)
  BY <1>1 DEF LoadRecords, LabTypeOK, dockerVars, registryVars
<1>2. CASE FileFails(c)
  <2>1. call[c] \in Requests
    BY <1>2, StandsThere DEF FileFails
  <2>2. call[c].of \in Projects \union Agents
    BY <1>2, <2>1, AtStep DEF FileFails
  <2>3. spoiled' \subseteq (Projects \union Agents) \X SpoiledBy
    BY <1>2, <2>2 DEF FileFails, LabTypeOK, SpoiledBy
  <2>4. faults' \in 0..MaxFaults
    BY <1>2, FaultCounted DEF FileFails, LabTypeOK
  <2> QED
    BY <1>2, <2>3, <2>4 DEF FileFails, LabTypeOK, registryVars
<1> QED
  BY <1>1, <1>2

(* Whatever a handler does, its request and the server stay within their types. *)
LEMMA HandlerStep ==
    ASSUME CallFits, LabTypeOK, NEW c \in Slots, Serving(c)
    PROVE  CallHandled(c) /\ LabTypeOK'
<1>1. targets \in Registry /\ records \in SUBSET Record
  BY DEF LabTypeOK
<1> QED
  BY <1>1, RegistryHandled, RegistryTyped, FilesHandled, FilesTyped, ImportingHandled,
     DeployingHandled, UndeployingHandled, HostingHandled DEF Serving
-----------------------------------------------------------------------------
(* The Projects view. *)

(* A set of numbers has a least element. *)
LEMMA LeastNat ==
    ASSUME NEW T \in SUBSET Nat, T # {}
    PROVE  \E x \in T : \A y \in T : x <= y
<1> DEFINE R == OpToRel(<, Nat)
<1>1. IsWellFoundedOn(R, Nat)
  BY NatLessThanWellFounded
<1>2. \A x, y \in Nat : x < y => <<x, y>> \in R
  BY DEF OpToRel
<1> HIDE DEF R
<1>3. PICK x \in T : \A y \in T : ~(<<y, x>> \in R)
  BY <1>1, WFMin
<1>4. ASSUME NEW y \in T
      PROVE  x <= y
  <2>1. ~(y < x)
    BY <1>2, <1>3
  <2> QED
    BY <2>1
<1> QED
  BY <1>4

(* A request begins in a free slot and leaves the others alone. *)
LEMMA BeginsIt ==
    ASSUME CallFits, NEW r \in Requests, Begin(r)
    PROVE  /\ CallFits'
           /\ NextSlot \in Slots /\ call[NextSlot] = Idle
           /\ call' = [call EXCEPT ![NextSlot] = r]
<1>1. FreeSlots # {} /\ FreeSlots \in SUBSET Nat
  BY LabAssumption DEF Begin, HasSlot, FreeSlots
<1>2. \E c \in FreeSlots : \A d \in FreeSlots : c <= d
  BY <1>1, LeastNat
<1>3. NextSlot \in FreeSlots
  BY <1>2 DEF NextSlot
<1> QED
  BY <1>3 DEF FreeSlots, CallFits, Begin

LEMMA ClosesIt ==
    ASSUME CallFits, NEW c \in Slots, call' = [call EXCEPT ![c] = Idle]
    PROVE  CallFits'
BY DEF CallFits

(* A handler's continuation goes on to another request. *)
LEMMA GoesOnIt ==
    ASSUME CallFits, NEW c \in Slots, NEW step \in Steps, call[c] \in Requests,
           Follows(call[c], step), Goes(c, step)
    PROVE  CallFits' /\ call' = [call EXCEPT ![c] = WithAt(call[c], step)]
<1>1. call' = [call EXCEPT ![c] = WithAt(call[c], step)]
  BY DEF CallFits, Goes, WithAt
<1>2. WithAt(call[c], step) \in Requests
  BY GoesOn
<1> QED
  BY <1>1, <1>2 DEF CallFits

LEMMA LoadingTyped ==
    ASSUME NEW i \in Importer, NEW b \in BOOLEAN
    PROVE  [i EXCEPT !.loading = b] \in Importer
BY DEF Importer

LEMMA BusyTyped ==
    ASSUME NEW i \in Importer, NEW b \in Busy
    PROVE  [i EXCEPT !.busy = b] \in Importer
BY DEF Importer

LEMMA NotBusyTyped ==
    ASSUME NEW i \in Importer
    PROVE  NotBusy(i) \in Importer
BY DEF Importer, NotBusy, Busy

LEMMA DeploymentTyped ==
    ASSUME NEW i \in Importer, NEW d \in Deployment
    PROVE  [i EXCEPT !.deployment = d] \in Importer
BY DEF Importer

LEMMA NoDeploymentTyped ==
    ASSUME NEW i \in Importer, NEW b \in Busy
    PROVE  [i EXCEPT !.busy = b, !.deployment = NoDeployment] \in Importer
BY DEF Importer, Deployment

LEMMA ListedTyped ==
    ASSUME NEW i \in Importer, NEW L \in SUBSET Projects
    PROVE  [i EXCEPT !.listed = L, !.loading = FALSE] \in Importer
BY DEF Importer

LEMMA GoneTyped ==
    ASSUME NEW i \in Importer
    PROVE  [i EXCEPT !.selected = None, !.analysis = None, !.deployment = NoDeployment] \in Importer
BY DEF Importer, Deployment

LEMMA SelectedTyped ==
    ASSUME NEW i \in Importer, NEW p \in Projects
    PROVE  Selected(i, p) \in Importer
<1>1. EmptyForm \in Form
  BY DEF EmptyForm, Form, Modes, TargetTypes
<1> QED
  BY <1>1 DEF Importer, Selected, Deployment

LEMMA AnalysedTyped ==
    ASSUME NEW i \in Importer, NEW p \in Projects, NEW ok \in BOOLEAN, NEW nudge \in BOOLEAN
    PROVE  Analysed(i, p, ok, nudge) \in Importer
<1> DEFINE f == [i.form EXCEPT !.detected = IF ok THEN p ELSE i.form.detected,
                               !.mode = IF ok /\ nudge THEN "external" ELSE i.form.mode]
           a == [i EXCEPT !.analyzing = FALSE, !.analysis = IF ok THEN p ELSE i.analysis]
<1>1. f \in Form
  BY DEF Importer, Form, Modes
<1>2. a \in Importer /\ a.form = i.form
  BY DEF Importer
<1>3. Analysed(i, p, ok, nudge) = [a EXCEPT !.form = f]
  BY DEF Analysed, Importer
<1> HIDE DEF a, f
<1>4. [a EXCEPT !.form = f] \in Importer
  BY <1>1, <1>2 DEF Importer
<1> QED
  BY <1>3, <1>4

LEMMA FilledInTyped ==
    ASSUME NEW i \in Importer, NEW mode \in Modes, NEW type \in TargetTypes
    PROVE  [i EXCEPT !.form.mode = mode, !.form.type = type, !.form.typed = i.selected]
              \in Importer
BY DEF Importer, Form

(* What the Projects view asks is a request of the type. *)
LEMMA RequestOf ==
    ASSUME scanTarget \in TargetIds \union {None}
    PROVE  /\ \A p \in Projects, kind \in ImportTasks : Task(kind, p, "import") \in Opening
           /\ \A p \in Projects : Task("select", p, "analyse") \in Opening
           /\ Task("refresh", None, "list") \in Opening
           /\ Task("agents", None, "list") \in Opening
           /\ \A p \in Projects, saw \in Projects \union {None} :
                  [Task("delete", p, "delete") EXCEPT !.saw = saw] \in Opening
           /\ \A p \in Projects, form \in Form :
                  [Task("deploy", p, "deploy") EXCEPT !.form = form] \in Opening
           /\ \A p \in Projects, id \in Nat :
                  [Task("undeploy", p, "undeploy") EXCEPT !.id = id] \in Opening
<1> DEFINE Plain(task, of, at) ==
              /\ task \in Tasks \ ({"deploy"} \union Deploys) /\ of \in Subjects \union {None}
              /\ at \in FirstSteps
              /\ Stands(Call(task, of, at)) /\ About(Call(task, of, at))
<1>1. ASSUME NEW task, NEW of, NEW at, Plain(task, of, at)
      PROVE  Task(task, of, at) \in Requests
  BY <1>1, Asked DEF Task
<1>2. \A p \in Projects, kind \in ImportTasks : Plain(kind, p, "import")
  BY DEF Call, Tasks, ProjectTasks, AgentTasks, LabelledTasks, ImportTasks, Deploys, Subjects,
         FirstSteps, Steps, Stands, About
<1>3. \A p \in Projects : Plain("select", p, "analyse")
  BY DEF Call, Tasks, ProjectTasks, AgentTasks, LabelledTasks, ImportTasks, Deploys, Subjects,
         FirstSteps, Steps, Reads, Stands, About
<1>4. Plain("refresh", None, "list") /\ Plain("agents", None, "list")
  BY DEF Call, Tasks, ProjectTasks, AgentTasks, LabelledTasks, ImportTasks, Deploys, Subjects,
         FirstSteps, Steps, Reads, Stands, About
<1>5. \A p \in Projects : Plain("delete", p, "delete") /\ Plain("undeploy", p, "undeploy")
  BY DEF Call, Tasks, ProjectTasks, AgentTasks, LabelledTasks, ImportTasks, Deploys, Subjects,
         FirstSteps, Steps, Stands, About
<1> HIDE DEF Plain
<1>6. ASSUME NEW p \in Projects, NEW saw \in Projects \union {None}
      PROVE  [Task("delete", p, "delete") EXCEPT !.saw = saw] \in Requests
  <2> DEFINE r == Task("delete", p, "delete")
  <2>1. r \in Requests /\ r \in Shape
    BY <1>1, <1>5 DEF Requests
  <2> HIDE DEF r
  <2>2. WithSaw(r, saw) \in Shape /\ Same(WithSaw(r, saw), r, {"saw"})
    BY <2>1, WithSawFits
  <2>3. Same(WithSaw(r, saw), r, {"live", "ok", "saw", "ids", "id"})
    BY <2>2 DEF Same
  <2>4. WithSaw(r, saw) \in Requests
    BY <2>1, <2>2, <2>3, Unplaced
  <2> QED
    BY <2>4 DEF WithSaw, r
<1>7. ASSUME NEW p \in Projects, NEW id \in Nat
      PROVE  [Task("undeploy", p, "undeploy") EXCEPT !.id = id] \in Requests
  <2> DEFINE r == Task("undeploy", p, "undeploy")
  <2>1. r \in Requests /\ r \in Shape
    BY <1>1, <1>5 DEF Requests
  <2> HIDE DEF r
  <2>2. WithId(r, id) \in Shape /\ Same(WithId(r, id), r, {"id"})
    BY <2>1, WithIdFits
  <2>3. Same(WithId(r, id), r, {"live", "ok", "saw", "ids", "id"})
    BY <2>2 DEF Same
  <2>4. WithId(r, id) \in Requests
    BY <2>1, <2>2, <2>3, Unplaced
  <2> QED
    BY <2>4 DEF WithId, r
<1>8. \A p \in Projects, form \in Form :
         [Task("deploy", p, "deploy") EXCEPT !.form = form] \in Requests
  BY AskedWithForm DEF Task
<1>9. ASSUME NEW task, NEW of, NEW at \in FirstSteps, Plain(task, of, at)
      PROVE  Task(task, of, at) \in Opening
  BY <1>1, <1>9 DEF Opening, Task, Call
<1>10. /\ \A p \in Projects, saw \in Projects \union {None} :
             [Task("delete", p, "delete") EXCEPT !.saw = saw] \in Opening
       /\ \A p \in Projects, form \in Form :
             [Task("deploy", p, "deploy") EXCEPT !.form = form] \in Opening
       /\ \A p \in Projects, id \in Nat :
             [Task("undeploy", p, "undeploy") EXCEPT !.id = id] \in Opening
  <2>1. ASSUME NEW p \in Projects, NEW saw \in Projects \union {None}
        PROVE  [Task("delete", p, "delete") EXCEPT !.saw = saw] \in Opening
    BY <1>6 DEF Opening, FirstSteps, Task, Call
  <2>2. ASSUME NEW p \in Projects, NEW form \in Form
        PROVE  [Task("deploy", p, "deploy") EXCEPT !.form = form] \in Opening
    BY <1>8 DEF Opening, FirstSteps, Task, Call
  <2>3. ASSUME NEW p \in Projects, NEW id \in Nat
        PROVE  [Task("undeploy", p, "undeploy") EXCEPT !.id = id] \in Opening
    BY <1>7 DEF Opening, FirstSteps, Task, Call
  <2> QED
    BY <2>1, <2>2, <2>3, Zenon
<1>11. {"import", "analyse", "list"} \subseteq FirstSteps
  BY DEF FirstSteps
<1>12. /\ \A p \in Projects, kind \in ImportTasks : Task(kind, p, "import") \in Opening
       /\ \A p \in Projects : Task("select", p, "analyse") \in Opening
       /\ Task("refresh", None, "list") \in Opening
       /\ Task("agents", None, "list") \in Opening
  BY <1>2, <1>3, <1>4, <1>9, <1>11
<1> QED
  BY <1>10, <1>12, Zenon

(* The operator's gestures in the Projects view. *)
LEMMA ImporterActsTyped ==
    ASSUME CallFits, importer \in Importer, scanTarget \in TargetIds \union {None}, ImporterActs
    PROVE  Opened /\ importer' \in Importer
<1>1. ASSUME NEW r \in Opening, Begin(r)
      PROVE  Opened
  BY <1>1 DEF Opened
<1>2. CASE Refresh
  <2>1. Opened
    BY <1>1, <1>2, RequestOf, Zenon DEF Refresh
  <2>2. importer' \in Importer
    BY <1>2, LoadingTyped DEF Refresh, ui
  <2> QED
    BY <2>1, <2>2
<1>3. CASE Deploy
  <2>1. importer.selected \in Projects /\ importer.form \in Form
    BY <1>3 DEF Deploy, MayDeploy, ui, Importer
  <2>2. Opened
    BY <1>1, <1>3, <2>1, RequestOf, Zenon DEF Deploy, ui
  <2>3. [what |-> "deploy", of |-> None] \in Busy
    BY DEF Busy
  <2>4. importer' \in Importer
    BY <1>3, <2>3, NoDeploymentTyped DEF Deploy, ui
  <2> QED
    BY <2>2, <2>4
<1>4. CASE RemoveDeployment
  <2>1. importer.deployment.of \in Projects /\ importer.deployment.id \in Nat
    BY <1>4 DEF RemoveDeployment, MayUndeploy, ui, Importer, Deployment
  <2>2. Opened
    BY <1>1, <1>4, <2>1, RequestOf, Zenon DEF RemoveDeployment, ui
  <2>3. [what |-> "undeploy", of |-> None] \in Busy
    BY DEF Busy
  <2>4. importer' \in Importer
    BY <1>4, <2>3, BusyTyped DEF RemoveDeployment, ui
  <2> QED
    BY <2>2, <2>4
<1>5. ASSUME NEW p \in Projects, SelectProject(p)
      PROVE  Opened /\ importer' \in Importer
  <2>1. Opened
    BY <1>1, <1>5, RequestOf, Zenon DEF SelectProject
  <2>2. importer' \in Importer
    BY <1>5, SelectedTyped DEF SelectProject, ui
  <2> QED
    BY <2>1, <2>2
<1>6. ASSUME NEW p \in Projects, RemoveProject(p)
      PROVE  Opened /\ importer' \in Importer
  <2>1. importer.selected \in Projects \union {None} /\ [what |-> "delete", of |-> p] \in Busy
    BY DEF Importer, Busy
  <2>2. Opened
    BY <1>1, <1>6, <2>1, RequestOf, Zenon DEF RemoveProject, ui
  <2>3. importer' \in Importer
    BY <1>6, <2>1, BusyTyped DEF RemoveProject, ui
  <2> QED
    BY <2>2, <2>3
<1>7. ASSUME NEW p \in Projects, NEW kind \in ImportTasks, ImportProject(kind, p)
      PROVE  Opened /\ importer' \in Importer
  <2>1. [what |-> kind, of |-> None] \in Busy
    BY DEF Busy
  <2>2. Opened
    BY <1>1, <1>7, RequestOf, Zenon DEF ImportProject
  <2>3. importer' \in Importer
    BY <1>7, <2>1, BusyTyped DEF ImportProject, ui
  <2> QED
    BY <2>2, <2>3
<1>8. ASSUME NEW mode \in Modes, NEW type \in TargetTypes, FillIn(mode, type)
      PROVE  Opened /\ importer' \in Importer
  BY <1>8, FilledInTyped DEF FillIn, ui, Opened
<1> QED
  BY <1>2, <1>3, <1>4, <1>5, <1>6, <1>7, <1>8 DEF ImporterActs

(* A request answered or read for the console. *)
LEMMA Continues ==
    ASSUME NEW r \in Requests
    PROVE  /\ r.task \in ProjectTasks => r.of \in Projects
           /\ r.task \in LabelledTasks => r.of \in Subjects
           /\ r.task = "deploy" => r.form \in Form
           /\ r.at = "analyse" => r.of \in Projects
           /\ r.at = "logs" => r.of \in Subjects
           /\ r.id \in Nat /\ r.live \in BOOLEAN /\ r.ok \in BOOLEAN
           /\ r.at = "offered" => r.copy \in Registry
           /\ r.at \in Reloading => r.task \in Registering
<1>1. r \in Shape /\ About(r) /\ Stands(r) /\ Carries(r)
  BY DEF Requests
<1>2. r.id \in Nat /\ r.live \in BOOLEAN /\ r.ok \in BOOLEAN
  BY <1>1 DEF Shape
<1>3. /\ r.task \in ProjectTasks => r.of \in Projects
      /\ r.task \in LabelledTasks => r.of \in Subjects
      /\ r.task = "deploy" => r.form \in Form
  BY <1>1 DEF About
<1>4. /\ r.at = "analyse" => r.task \in ImportTasks \union {"select"}
      /\ r.at = "logs" => r.task = "logs"
      /\ r.at \in Reloading => r.task \in Registering
  BY <1>1 DEF Stands, ImportTasks, Deploys, Reloading, Registering
<1>5. r.at = "offered" => r.copy \in Registry
  BY <1>1 DEF Carries
<1>6. ImportTasks \union {"select"} \subseteq ProjectTasks /\ "logs" \in LabelledTasks
  BY DEF ProjectTasks, LabelledTasks
<1> QED
  BY <1>2, <1>3, <1>4, <1>5, <1>6

(* The continuations of the Projects view. *)
LEMMA ImporterContinuesTyped ==
    ASSUME CallFits, importer \in Importer, imported \subseteq Projects, NEW c \in Slots,
           ImporterContinues(c)
    PROVE  Continued(c) /\ importer' \in Importer
<1> DEFINE r == call[c]
<1>1. r.at \in {"list", "analyse", "answered"}
  BY DEF ImporterContinues, ProjectsListed, AnalysisAnswered, ImportAnswered, ProjectRemoved,
         DeployAnswered, DeploymentRemoved, At
<1>2. r \in Requests
  BY <1>1, StandsThere
<1>3. NotBusy(importer) \in Importer
  BY NotBusyTyped
<1>4. ASSUME NEW state \in Importer, Set(c, state)
      PROVE  importer' \in Importer
  BY <1>4 DEF Set
<1>5. ASSUME NEW step \in Steps, Follows(r, step), step \in Reads, Goes(c, step)
      PROVE  Continued(c)
  <2>1. call' = [call EXCEPT ![c] = WithAt(r, step)]
    BY <1>5 DEF CallFits, Goes, WithAt
  <2>2. WithAt(r, step) \in Requests
    BY <1>2, <1>5, GoesOn
  <2>3. WithAt(r, step).at = step
    BY <1>2, WithAtFits DEF Requests
  <2> QED
    BY <1>1, <1>2, <1>5, <2>1, <2>2, <2>3 DEF Continued, Reads
<1>6. ASSUME Frees(c)
      PROVE  Continued(c)
  BY <1>1, <1>2, <1>6 DEF Frees, Continued, Reads
<1>7. CASE ProjectsListed(c)
  <2> DEFINE loaded == [importer EXCEPT !.listed = imported, !.loading = FALSE]
  <2>1. loaded \in Importer
    BY ListedTyped
  <2>2. NotBusy(loaded) \in Importer
    <3> HIDE DEF loaded
    <3> QED
      BY <2>1, NotBusyTyped
  <2>3. CASE r.task = "refresh"
    BY <1>4, <1>6, <1>7, <2>1, <2>3 DEF ProjectsListed, ui
  <2>4. CASE r.task = "delete"
    BY <1>4, <1>6, <1>7, <2>2, <2>4 DEF ProjectsListed, ui
  <2>5. CASE r.task \in ImportTasks
    <3>1. r.of \in Projects
      BY <1>2, <2>5, Continues DEF ProjectTasks
    <3>2. Selected(loaded, r.of) \in Importer
      <4> HIDE DEF loaded
      <4> QED
        BY <2>1, <3>1, SelectedTyped
    <3>3. Set(c, Selected(loaded, r.of)) /\ Goes(c, "analyse") /\ r.at = "list"
      BY <1>7, <2>5 DEF ProjectsListed, ui, ImportTasks, At
    <3>4. Follows(r, "analyse") /\ "analyse" \in Steps /\ "analyse" \in Reads
      BY <2>5, <3>3 DEF Follows, Steps, Reads
    <3> QED
      BY <1>4, <1>5, <3>2, <3>3, <3>4
  <2> QED
    BY <1>7, <2>3, <2>4, <2>5 DEF ProjectsListed
<1>8. CASE AnalysisAnswered(c)
  <2>1. PICK nudge \in BOOLEAN :
           LET done == Analysed(ui, r.of, r.of \in imported, nudge) IN
           Set(c, IF r.task = "select" THEN done ELSE NotBusy(done))
    BY <1>8 DEF AnalysisAnswered
  <2> DEFINE ok == r.of \in imported
             done == Analysed(importer, r.of, ok, nudge)
  <2>2. r.of \in Projects
    BY <1>2, <1>8, Continues DEF AnalysisAnswered, At
  <2>3. done \in Importer
    <3>1. ok \in BOOLEAN
      OBVIOUS
    <3> HIDE DEF ok
    <3> QED
      BY <2>2, <3>1, AnalysedTyped
  <2>4. NotBusy(done) \in Importer
    <3> HIDE DEF done
    <3> QED
      BY <2>3, NotBusyTyped
  <2>5. importer' \in Importer
    BY <1>4, <2>1, <2>3, <2>4 DEF ui
  <2>6. Continued(c)
    BY <1>6, <1>8 DEF AnalysisAnswered
  <2> QED
    BY <2>5, <2>6
<1>9. CASE ImportAnswered(c)
  <2>1. [importer EXCEPT !.loading = TRUE] \in Importer
    BY LoadingTyped
  <2>2. CASE r.ok
    <3>1. Follows(r, "list") /\ "list" \in Steps /\ "list" \in Reads
      BY <1>9 DEF ImportAnswered, At, Follows, ImportTasks, Steps, Reads
    <3> QED
      BY <1>4, <1>5, <1>9, <2>1, <2>2, <3>1 DEF ImportAnswered, ui
  <2>3. CASE ~r.ok
    BY <1>3, <1>4, <1>6, <1>9, <2>3 DEF ImportAnswered, ui
  <2> QED
    BY <2>2, <2>3
<1>10. CASE ProjectRemoved(c)
  <2> DEFINE gone == IF r.saw = r.of
                     THEN [importer EXCEPT !.selected = None, !.analysis = None,
                                           !.deployment = NoDeployment]
                     ELSE importer
  <2>1. gone \in Importer
    BY GoneTyped
  <2>2. [gone EXCEPT !.loading = TRUE] \in Importer
    <3> HIDE DEF gone
    <3> QED
      BY <2>1, LoadingTyped
  <2>3. Set(c, [gone EXCEPT !.loading = TRUE]) /\ Goes(c, "list")
    BY <1>10 DEF ProjectRemoved, ui
  <2>4. Follows(r, "list") /\ "list" \in Steps /\ "list" \in Reads
    BY <1>10 DEF ProjectRemoved, At, Follows, Steps, Reads
  <2> HIDE DEF gone
  <2> QED
    BY <1>4, <1>5, <2>2, <2>3, <2>4
<1>11. CASE DeployAnswered(c)
  <2>1. CASE r.ok
    <3> DEFINE d == [of |-> r.of, id |-> r.id, target |-> LabTarget(r.of, r.form.type),
                     external |-> r.form.mode = "external"]
    <3>1. r.of \in Projects /\ r.form \in Form /\ r.id \in Nat
      BY <1>2, <1>11, Continues DEF DeployAnswered, ProjectTasks
    <3>2. d \in Deployment
      BY <3>1, LabAssumption DEF Deployment, LabTarget, Form
    <3>3. Set(c, [NotBusy(importer) EXCEPT !.deployment = d]) /\ Goes(c, "targets")
      BY <1>11, <2>1 DEF DeployAnswered, ReloadTargets, ui
    <3>4. [NotBusy(importer) EXCEPT !.deployment = d] \in Importer
      <4> HIDE DEF d
      <4> QED
        BY <1>3, <3>2, DeploymentTyped
    <3>5. Follows(r, "targets") /\ "targets" \in Steps /\ "targets" \in Reads
      BY <1>11 DEF DeployAnswered, At, Follows, Registering, Steps, Reads
    <3> HIDE DEF d
    <3> QED
      BY <1>4, <1>5, <3>3, <3>4, <3>5
  <2>2. CASE ~r.ok
    BY <1>3, <1>4, <1>6, <1>11, <2>2 DEF DeployAnswered, ui
  <2> QED
    BY <2>1, <2>2
<1>12. CASE DeploymentRemoved(c)
  <2>1. [NotBusy(importer) EXCEPT !.deployment = NoDeployment] \in Importer
    BY <1>3, DeploymentTyped DEF Deployment
  <2>2. CASE r.ok
    <3>1. Follows(r, "targets") /\ "targets" \in Steps /\ "targets" \in Reads
      BY <1>12 DEF DeploymentRemoved, At, Follows, Registering, Steps, Reads
    <3> QED
      BY <1>4, <1>5, <1>12, <2>1, <2>2, <3>1 DEF DeploymentRemoved, ReloadTargets, ui
  <2>3. CASE ~r.ok
    BY <1>3, <1>4, <1>6, <1>12, <2>3 DEF DeploymentRemoved, ui
  <2> QED
    BY <2>2, <2>3
<1> QED
  BY <1>7, <1>8, <1>9, <1>10, <1>11, <1>12 DEF ImporterContinues
-----------------------------------------------------------------------------
(* The Agents view. *)

LEMMA HostRequestOf ==
    ASSUME scanTarget \in TargetIds \union {None}
    PROVE  /\ HostTask("agents", None, "list") \in Opening
           /\ \A a \in Agents, task \in Deploys, form \in AgentForm :
                  [HostTask(task, a, "run-agent") EXCEPT !.form = form] \in Opening
           /\ \A s \in Subjects, action \in {"stop", "start", "remove", "logs"} :
                  HostTask(action, s, action) \in Opening
           /\ \A a \in Agents, action \in {"save-template", "delete-template"} :
                  HostTask(action, a, action) \in Opening
<1> DEFINE Plain(task, of, at) ==
              /\ task \in Tasks \ ({"deploy"} \union Deploys) /\ of \in Subjects \union {None}
              /\ at \in FirstSteps
              /\ Stands(Call(task, of, at)) /\ About(Call(task, of, at))
<1>1. ASSUME NEW task, NEW of, NEW at, Plain(task, of, at)
      PROVE  HostTask(task, of, at) \in Requests
  BY <1>1, Asked DEF HostTask
<1>2. Plain("agents", None, "list")
  BY DEF Call, Tasks, ProjectTasks, AgentTasks, LabelledTasks, ImportTasks, Deploys, Subjects,
         FirstSteps, Steps, Reads, Stands, About
<1>3. \A s \in Subjects, action \in {"stop", "start", "remove", "logs"} : Plain(action, s, action)
  BY DEF Call, Tasks, ProjectTasks, AgentTasks, LabelledTasks, ImportTasks, Deploys, Subjects,
         FirstSteps, Steps, Reads, Stands, About
<1>4. \A a \in Agents, action \in {"save-template", "delete-template"} : Plain(action, a, action)
  BY DEF Call, Tasks, ProjectTasks, AgentTasks, LabelledTasks, ImportTasks, Deploys, Subjects,
         FirstSteps, Steps, Reads, Stands, About
<1> HIDE DEF Plain
<1>5. \A a \in Agents, task \in Deploys, form \in AgentForm :
         [HostTask(task, a, "run-agent") EXCEPT !.form = form] \in Requests
  BY AskedWithForm DEF HostTask
<1>6. ASSUME NEW task, NEW of, NEW at \in FirstSteps, Plain(task, of, at)
      PROVE  HostTask(task, of, at) \in Opening
  BY <1>1, <1>6 DEF Opening, HostTask, Call
<1>7. ASSUME NEW a \in Agents, NEW task \in Deploys, NEW form \in AgentForm
      PROVE  [HostTask(task, a, "run-agent") EXCEPT !.form = form] \in Opening
  BY <1>5 DEF Opening, FirstSteps, HostTask, Call
<1>8. {"list", "stop", "start", "remove", "logs", "save-template", "delete-template"}
         \subseteq FirstSteps
  BY DEF FirstSteps
<1>9. HostTask("agents", None, "list") \in Opening
  BY <1>2, <1>6, <1>8
<1>10. ASSUME NEW s \in Subjects, NEW action \in {"stop", "start", "remove", "logs"}
       PROVE  HostTask(action, s, action) \in Opening
  BY <1>3, <1>6, <1>8
<1>11. ASSUME NEW a \in Agents, NEW action \in {"save-template", "delete-template"}
       PROVE  HostTask(action, a, action) \in Opening
  BY <1>4, <1>6, <1>8
<1> QED
  BY <1>7, <1>9, <1>10, <1>11, Zenon

(* The operator's gestures in the Agents view. *)
LEMMA HostActsTyped ==
    ASSUME CallFits, host \in Host, scanTarget \in TargetIds \union {None}, HostActs
    PROVE  Opened /\ host' \in Host
<1>1. ASSUME NEW r \in Opening, Begin(r)
      PROVE  Opened
  BY <1>1 DEF Opened
<1>2. CASE RefreshAgents
  <2>1. Opened
    BY <1>1, <1>2, HostRequestOf, Zenon DEF RefreshAgents
  <2>2. host' \in Host
    BY <1>2 DEF RefreshAgents, Host
  <2> QED
    BY <2>1, <2>2
<1>3. CASE TypeKey
  BY <1>3 DEF TypeKey, Host, Opened
<1>4. CASE DeployCustom
  <2> DEFINE form == [provider |-> None, key |-> None, publishes |-> host.port]
  <2>1. host.image \in Agents /\ form \in AgentForm /\ "deploy-image" \in Deploys
    BY <1>4, LabAssumption DEF DeployCustom, OffersCustom, Host, AgentForm, Deploys
  <2>2. Begin([HostTask("deploy-image", host.image, "run-agent") EXCEPT !.form = form])
    BY <1>4 DEF DeployCustom
  <2> HIDE DEF form
  <2>3. Opened
    BY <1>1, <2>1, <2>2, HostRequestOf, Zenon
  <2>4. host' \in Host
    BY <1>4 DEF DeployCustom, Host
  <2> QED
    BY <2>3, <2>4
<1>5. CASE CloseLogs
  BY <1>5 DEF CloseLogs, Host, Opened
<1>6. ASSUME NEW k \in Providers \union {None}, ChooseProvider(k)
      PROVE  Opened /\ host' \in Host
  BY <1>6 DEF ChooseProvider, Host, Opened
<1>7. ASSUME NEW a \in Agents \ Custom, DeployTemplate(a)
      PROVE  Opened /\ host' \in Host
  <2> DEFINE form == [provider |-> host.provider, publishes |-> TRUE,
                      key |-> IF host.provider = None THEN None ELSE host.key]
  <2>1. form \in AgentForm /\ "deploy-template" \in Deploys
    BY DEF Host, AgentForm, Deploys
  <2>2. Begin([HostTask("deploy-template", a, "run-agent") EXCEPT !.form = form])
    BY <1>7 DEF DeployTemplate
  <2> HIDE DEF form
  <2>3. Opened
    BY <1>1, <2>1, <2>2, HostRequestOf, Zenon
  <2>4. host' \in Host
    BY <1>7 DEF DeployTemplate, Host
  <2> QED
    BY <2>3, <2>4
<1>8. ASSUME NEW a \in Agents \ Custom, AddTemplate(a) \/ DropTemplate(a)
      PROVE  Opened /\ host' \in Host
  <2>1. HostTask("save-template", a, "save-template") \in Opening
    BY HostRequestOf
  <2>2. HostTask("delete-template", a, "delete-template") \in Opening
    BY HostRequestOf
  <2> QED
    BY <1>1, <1>8, <2>1, <2>2 DEF AddTemplate, DropTemplate
<1>9. ASSUME NEW a \in Custom, NEW port \in BOOLEAN, FillCustom(a, port)
      PROVE  Opened /\ host' \in Host
  BY <1>9 DEF FillCustom, Host, Opened
<1>10. ASSUME NEW s \in Subjects, OpenLogs(s)
       PROVE  Opened /\ host' \in Host
  <2>1. HostTask("logs", s, "logs") \in Opening
    BY HostRequestOf
  <2>2. Opened
    BY <1>1, <1>10, <2>1 DEF OpenLogs
  <2>3. host' \in Host
    BY <1>10 DEF OpenLogs, Host
  <2> QED
    BY <2>2, <2>3
<1>11. ASSUME NEW s \in Subjects, NEW action \in {"stop", "start", "remove"},
              AgentAction(s, action)
       PROVE  Opened /\ host' \in Host
  <2>1. HostTask(action, s, action) \in Opening
    BY HostRequestOf
  <2> QED
    BY <1>1, <1>11, <2>1 DEF AgentAction
<1> QED
  BY <1>2, <1>3, <1>4, <1>5, <1>6, <1>7, <1>8, <1>9, <1>10, <1>11 DEF HostActs

(* The continuations of the Agents view. *)
LEMMA HostContinuesTyped ==
    ASSUME CallFits, LabTypeOK, host \in Host, NEW c \in Slots, HostContinues(c)
    PROVE  Continued(c) /\ host' \in Host
<1> DEFINE r == call[c]
<1>1. r.at \in {"list", "answered", "logs"}
  BY DEF HostContinues, AgentsListed, HostAnswered, LogsAnswered, At
<1>2. r \in Requests
  BY <1>1, StandsThere
<1>3. ASSUME NEW state \in Host, HostSet(c, state)
      PROVE  host' \in Host
  BY <1>3 DEF HostSet
<1>4. ASSUME NEW step \in Steps, Follows(r, step), step \in Reads, Goes(c, step)
      PROVE  Continued(c)
  <2>1. call' = [call EXCEPT ![c] = WithAt(r, step)]
    BY <1>4 DEF CallFits, Goes, WithAt
  <2>2. WithAt(r, step) \in Requests
    BY <1>2, <1>4, GoesOn
  <2>3. WithAt(r, step).at = step
    BY <1>2, WithAtFits DEF Requests
  <2> QED
    BY <1>1, <1>2, <1>4, <2>1, <2>2, <2>3 DEF Continued, Reads
<1>5. ASSUME HostFrees(c)
      PROVE  Continued(c)
  BY <1>1, <1>2, <1>5 DEF HostFrees, Continued, Reads
<1>6. ASSUME NEW state \in Host
      PROVE  DeployEnds(state) \in Host
  BY DEF DeployEnds, Host
<1>7. CASE AgentsListed(c)
  <2> DEFINE loaded == [host EXCEPT !.loading = FALSE, !.listed = Labelled,
                                    !.running = {s \in Labelled : container[s].at = "up"},
                                    !.offered = templates]
  <2>1. Labelled \subseteq Subjects /\ templates \subseteq Agents
    BY DEF Labelled, LabTypeOK
  <2>2. {s \in Labelled : container[s].at = "up"} \in SUBSET Subjects
    BY <2>1
  <2>3. loaded \in Host
    BY <2>1, <2>2 DEF Host
  <2>4. host' \in Host
    <3>1. HostSet(c, IF r.task \in Deploys THEN DeployEnds(loaded) ELSE loaded)
      BY <1>7 DEF AgentsListed
    <3> HIDE DEF loaded
    <3> QED
      BY <1>3, <1>6, <2>3, <3>1
  <2>5. Continued(c)
    <3>1. CASE r.task \in Deploys \union {"remove"}
      <4>1. Goes(c, "targets") /\ r.at = "list"
        BY <1>7, <3>1 DEF AgentsListed, HostReloads, At
      <4>2. Follows(r, "targets") /\ "targets" \in Steps /\ "targets" \in Reads
        BY <3>1, <4>1 DEF Follows, Registering, Steps, Reads
      <4> QED
        BY <1>4, <4>1, <4>2
    <3>2. CASE r.task \notin Deploys \union {"remove"}
      BY <1>5, <1>7, <3>2 DEF AgentsListed
    <3> QED
      BY <3>1, <3>2
  <2> QED
    BY <2>4, <2>5
<1>8. CASE HostAnswered(c)
  <2>1. host' \in Host
    <3>1. [host EXCEPT !.loading = TRUE,
                       !.logsFor = IF r.task = "remove" THEN None ELSE host.logsFor] \in Host
      BY DEF Host
    <3> QED
      BY <1>3, <1>6, <1>8, <3>1 DEF HostAnswered
  <2>2. Continued(c)
    <3>1. CASE r.ok
      <4>1. Goes(c, "list") /\ r.at = "answered" /\ r.task \in HostTasks
        BY <1>8, <3>1 DEF HostAnswered, At
      <4>2. Follows(r, "list") /\ "list" \in Steps /\ "list" \in Reads
        BY <4>1 DEF Follows, HostTasks, Deploys, Steps, Reads
      <4> QED
        BY <1>4, <4>1, <4>2
    <3>2. CASE ~r.ok
      BY <1>5, <1>8, <3>2 DEF HostAnswered
    <3> QED
      BY <3>1, <3>2
  <2> QED
    BY <2>1, <2>2
<1>9. CASE LogsAnswered(c)
  <2>1. r.of \in Subjects
    BY <1>2, <1>9, Continues DEF LogsAnswered, At
  <2>2. [host EXCEPT !.logs = r.of] \in Host
    BY <2>1 DEF Host
  <2> QED
    BY <1>3, <1>5, <1>9, <2>2 DEF LogsAnswered
<1> QED
  BY <1>7, <1>8, <1>9 DEF HostContinues
-----------------------------------------------------------------------------
(* The shell. *)

LEMMA NewViewsTyped == NewImporter \in Importer /\ NewHost \in Host
<1>1. EmptyForm \in Form
  BY DEF EmptyForm, Form, Modes, TargetTypes
<1> QED
  BY <1>1 DEF NewImporter, Importer, NewHost, Host, Busy, Deployment

(* The slot a request would take, whether or not one is begun. *)
LEMMA NextSlotIsFree ==
    ASSUME HasSlot
    PROVE  NextSlot \in Slots /\ call[NextSlot] = Idle
<1>1. FreeSlots # {} /\ FreeSlots \in SUBSET Nat
  BY LabAssumption DEF HasSlot, FreeSlots
<1>2. \E c \in FreeSlots : \A d \in FreeSlots : c <= d
  BY <1>1, LeastNat
<1>3. NextSlot \in FreeSlots
  BY <1>2 DEF NextSlot
<1> QED
  BY <1>3 DEF FreeSlots

LEMMA UnmountedFits ==
    ASSUME CallFits
    PROVE  /\ Unmounted \in [Slots -> {Idle} \union Requests]
           /\ \A c \in Slots : call[c] = Idle => Unmounted[c] = Idle
           /\ \A c \in Slots : call[c] # Idle => Unmounted[c] = [call[c] EXCEPT !.live = FALSE]
<1>1. ASSUME NEW c \in Slots, call[c] # Idle
      PROVE  [call[c] EXCEPT !.live = FALSE] \in Requests
  BY <1>1, Left DEF CallFits
<1> QED
  BY <1>1 DEF Unmounted

(* A view is left for another, which loads its list. *)
LEMMA NavigateTyped ==
    ASSUME CallFits, scanTarget \in TargetIds \union {None}, NEW v \in Views, Navigate(v)
    PROVE  CallFits' /\ importer' \in Importer /\ host' \in Host /\ view' \in Views
<1>1. importer' \in Importer /\ host' \in Host /\ view' \in Views
  BY NewViewsTyped DEF Navigate
<1>2. CASE v = "overview"
  BY <1>1, <1>2, UnmountedFits DEF Navigate, CallFits
<1>3. CASE v # "overview"
  <2>1. PICK r \in Opening : call' = [Unmounted EXCEPT ![NextSlot] = r]
    BY <1>3, RequestOf, Zenon DEF Navigate
  <2>2. r \in Requests
    BY DEF Opening
  <2> QED
    BY <1>1, <2>1, <2>2, UnmountedFits DEF CallFits
<1> QED
  BY <1>2, <1>3

LEMMA BaselineTyped ==
    ASSUME CallFits, importer \in Importer, RunBaselineScan
    PROVE  /\ CallFits' /\ importer' \in Importer /\ host' \in Host /\ view' \in Views
           /\ scanTarget' \in TargetIds \union {None}
<1>1. CallFits'
  BY UnmountedFits DEF RunBaselineScan, CallFits
<1>2. importer' \in Importer /\ host' \in Host /\ view' \in Views
  BY NewViewsTyped DEF RunBaselineScan, Views
<1>3. importer.deployment.target \in TargetIds \union {None}
  BY DEF Importer, Deployment, NoDeployment
<1> QED
  BY <1>1, <1>2, <1>3 DEF RunBaselineScan

LEMMA ReloadTyped ==
    ASSUME CallFits, targets \in Registry, offers \subseteq TargetIds,
           scanTarget \in TargetIds \union {None}, NEW c \in Slots,
           TargetsServed(c) \/ TargetsLoaded(c)
    PROVE  /\ Continued(c) /\ offers' \subseteq TargetIds
           /\ scanTarget' \in TargetIds \union {None}
<1>1. CASE TargetsServed(c)
  <2> DEFINE w == [call[c] EXCEPT !.at = "offered", !.copy = targets]
  <2>1. call' = [call EXCEPT ![c] = w]
    BY <1>1 DEF CallFits, TargetsServed
  <2>2. call[c] \in Requests /\ call[c].at = "targets" /\ w \in Requests
    BY <1>1, StandsThere, CopyTaken DEF TargetsServed, At
  <2>3. w.at = "offered"
    BY <2>2 DEF Requests, Shape
  <2> HIDE DEF w
  <2> QED
    BY <1>1, <2>1, <2>2, <2>3 DEF Continued, Reads, TargetsServed
<1>2. CASE TargetsLoaded(c)
  <2>1. offers' \subseteq TargetIds
    BY <1>2 DEF TargetsLoaded, Registered
  <2>2. scanTarget' \in TargetIds \union {None}
    BY <1>2, <2>1 DEF TargetsLoaded, Choice
  <2>3. call[c] \in Requests
    BY <1>2, StandsThere DEF TargetsLoaded, At
  <2> QED
    BY <1>2, <2>1, <2>2, <2>3 DEF TargetsLoaded, Frees, Continued, Reads, At
<1> QED
  BY <1>1, <1>2
-----------------------------------------------------------------------------
(* The types. *)

LEMMA OpenedFits ==
    ASSUME CallFits, Opened
    PROVE  CallFits'
<1>1. CASE call' = call
  BY <1>1 DEF CallFits
<1>2. ASSUME NEW r \in Opening, Begin(r)
      PROVE  CallFits'
  BY <1>2, BeginsIt DEF Opening
<1> QED
  BY <1>1, <1>2 DEF Opened

LEMMA ContinuedFits ==
    ASSUME CallFits, NEW c \in Slots, Continued(c)
    PROVE  CallFits'
BY DEF CallFits, Continued

IType == TypeOK /\ CallFits

(* The server starts within its types, and so does the whole. *)
LEMMA LabInitTyped ==
    ASSUME NEW I \in SUBSET Projects, NEW D \in SUBSET Projects, Cardinality(D) \in Nat,
           NEW port \in Ports, NEW R \in SUBSET Agents, LabInit(I, D, port, R)
    PROVE  LabTypeOK /\ CallFits
<1>1. targets \in Registry /\ served \in [Projects -> SUBSET Urls]
  BY LabAssumption DEF LabInit, Registry
<1>2. container \in [Projects \union Agents -> Container]
  BY Containers DEF LabInit
<1>3. records \subseteq Record
  <2>1. ASSUME NEW p \in D
        PROVE  [of |-> p, id |-> 1, target |-> LabTarget(p, "http_json"), url |-> port] \in Record
    BY LabAssumption DEF Record, LabTarget, TargetTypes
  <2> QED
    BY <2>1 DEF LabInit
<1>4. stamps \in Nat /\ faults \in 0..MaxFaults /\ staleWrite \in BOOLEAN
  <2>1. stamps = Cardinality(D) /\ faults = 0 /\ staleWrite = FALSE
    BY DEF LabInit
  <2>2. 0 \in 0..MaxFaults
    BY LabAssumption
  <2> QED
    BY <2>1, <2>2
<1>5. imported \subseteq Projects /\ templates \subseteq Agents
      /\ spoiled \subseteq (Projects \union Agents) \X SpoiledBy
  BY DEF LabInit
<1>6. CallFits
  BY DEF LabInit, CallFits
<1> QED
  BY <1>1, <1>2, <1>3, <1>4, <1>5, <1>6 DEF LabTypeOK

LEMMA InitTyped == Init => IType
<1> SUFFICES ASSUME Init PROVE IType
  OBVIOUS
<1>1. LabTypeOK /\ CallFits
  <2>1. CASE view = "projects"
    <3>1. PICK I \in SUBSET Projects, D \in {{}} \union {{p} : p \in Projects}, port \in Ports :
             LabInit(I, D, port, {})
      BY <2>1 DEF Init
    <3>2. D \in SUBSET Projects
      OBVIOUS
    <3>3. Cardinality(D) \in Nat
      <4>1. CASE D = {}
        BY <4>1, FS_EmptySet
      <4>2. CASE D # {}
        <5>1. PICK p \in Projects : D = {p}
          BY <4>2
        <5>2. Cardinality({p}) = 1
          BY FS_Singleton
        <5> QED
          BY <5>1, <5>2
      <4> QED
        BY <4>1, <4>2
    <3> QED
      BY <3>1, <3>2, <3>3, LabInitTyped
  <2>2. CASE view # "projects"
    <3>1. PICK p \in Projects : LabInit({p}, {p}, Preferred, Agents \ Custom)
      BY <2>2 DEF Init
    <3>2. Cardinality({p}) = 1
      BY FS_Singleton
    <3>3. Preferred \in Ports
      BY LabAssumption DEF Preferred
    <3> QED
      BY <3>1, <3>2, <3>3, LabInitTyped
  <2> QED
    BY <2>1, <2>2
<1>2. view \in Views
  BY DEF Init, Views
<1>3. importer \in Importer
  <2>1. PICK p \in IF view = "agents" \/ imported = {} THEN {None} ELSE imported :
           \E d \in Shown(p) :
              importer = [NewImporter EXCEPT !.loading = FALSE, !.listed = imported,
                             !.selected = p, !.analysis = p, !.form.detected = p,
                             !.deployment = d]
    BY DEF Init
  <2>2. p \in Projects \union {None} /\ imported \in SUBSET Projects
    BY <1>1, <2>1 DEF LabTypeOK
  <2>3. EmptyForm \in Form /\ [EmptyForm EXCEPT !.detected = p] \in Form
    BY <2>2 DEF EmptyForm, Form, Modes, TargetTypes
  <2>4. Shown(p) \subseteq Deployment
    <3>1. ASSUME NEW d \in RecordsOf(p)
          PROVE  [of |-> p, id |-> d.id, target |-> d.target, external |-> FALSE] \in Deployment
      BY <1>1 DEF RecordsOf, LabTypeOK, Record, Deployment
    <3>2. NoDeployment \in Deployment
      BY DEF Deployment
    <3> QED
      BY <3>1, <3>2, Zenon DEF Shown
  <2>5. PICK d \in Deployment :
           importer = [NewImporter EXCEPT !.loading = FALSE, !.listed = imported,
                          !.selected = p, !.analysis = p, !.form.detected = p,
                          !.deployment = d]
    BY <2>1, <2>4
  <2>6. [NewImporter EXCEPT !.loading = FALSE, !.listed = imported, !.selected = p,
                            !.analysis = p, !.form.detected = p] \in Importer
    BY <2>2, <2>3 DEF NewImporter, Importer, Busy, Deployment
  <2> QED
    BY <2>5, <2>6, DeploymentTyped
<1>4. host \in Host
  BY <1>1, NewViewsTyped DEF Init, Host, Labelled, LabTypeOK
<1>5. offers \subseteq TargetIds /\ scanTarget \in TargetIds \union {None}
  BY DEF Init, Registered
<1>6. gestures \in 0..MaxGestures
  BY GesturesAssumption DEF Init
<1>7. \A c \in Slots : call[c] # Idle => call[c].of \in Subjects \union {None}
  BY <1>1 DEF CallFits, Requests, Shape
<1> QED
  BY <1>1, <1>2, <1>3, <1>4, <1>5, <1>6, <1>7 DEF IType, TypeOK

(* Every step keeps the types. *)
LEMMA NextTyped == IType /\ [Next]_vars => IType'
<1> SUFFICES ASSUME IType, [Next]_vars
             PROVE  IType'
  OBVIOUS
<1> USE DEF IType, TypeOK
<1>1. CallFits' /\ LabTypeOK' /\ importer' \in Importer /\ host' \in Host /\ view' \in Views
      /\ offers' \subseteq TargetIds /\ scanTarget' \in TargetIds \union {None}
      /\ gestures' \in 0..MaxGestures
  <2>1. CASE Operate
    <3>1. LabTypeOK'
      BY <2>1 DEF Operate, LabTypeOK, dockerVars, registryVars
    <3>2. gestures' \in 0..MaxGestures
      BY <2>1, GesturesAssumption DEF Operate
    <3>3. CASE ImporterActs /\ UNCHANGED <<host, shellVars>>
      BY <3>1, <3>2, <3>3, ImporterActsTyped, OpenedFits DEF shellVars
    <3>4. CASE HostActs /\ UNCHANGED <<importer, shellVars>>
      BY <3>1, <3>2, <3>4, HostActsTyped, OpenedFits DEF shellVars
    <3>5. CASE RunBaselineScan
      BY <3>1, <3>2, <3>5, BaselineTyped DEF RunBaselineScan
    <3>6. ASSUME NEW v \in Views, Navigate(v)
          PROVE  CallFits' /\ LabTypeOK' /\ importer' \in Importer /\ host' \in Host /\ view' \in Views
                 /\ offers' \subseteq TargetIds /\ scanTarget' \in TargetIds \union {None}
                 /\ gestures' \in 0..MaxGestures
      BY <3>1, <3>2, <3>6, NavigateTyped DEF Navigate
    <3>7. ASSUME NEW t \in TargetIds, ChooseTarget(t)
          PROVE  CallFits' /\ LabTypeOK' /\ importer' \in Importer /\ host' \in Host /\ view' \in Views
                 /\ offers' \subseteq TargetIds /\ scanTarget' \in TargetIds \union {None}
                 /\ gestures' \in 0..MaxGestures
      BY <3>1, <3>2, <3>7 DEF ChooseTarget, CallFits
    <3> QED
      BY <2>1, <3>3, <3>4, <3>5, <3>6, <3>7 DEF Operate
  <2>2. CASE Handle
    <3>1. PICK c \in Slots : Serving(c)
      BY <2>2 DEF Handle
    <3>2. CallHandled(c) /\ LabTypeOK'
      BY <3>1, HandlerStep
    <3>3. CallFits'
      BY <3>2 DEF CallHandled, CallFits
    <3> QED
      BY <2>2, <3>2, <3>3 DEF Handle, shellVars
  <2>3. CASE Continue
    <3>1. LabTypeOK' /\ gestures' \in 0..MaxGestures
      BY <2>3 DEF Continue, LabTypeOK, dockerVars, registryVars
    <3>2. PICK c \in Slots :
             \/ ImporterContinues(c) /\ UNCHANGED <<host, shellVars>>
             \/ HostContinues(c) /\ UNCHANGED <<importer, shellVars>>
             \/ (TargetsServed(c) \/ TargetsLoaded(c)) /\ UNCHANGED <<importer, host, view>>
      BY <2>3 DEF Continue
    <3>3. imported \subseteq Projects /\ targets \in Registry
      BY DEF LabTypeOK
    <3>4. CASE ImporterContinues(c) /\ UNCHANGED <<host, shellVars>>
      BY <3>1, <3>3, <3>4, ImporterContinuesTyped, ContinuedFits DEF shellVars
    <3>5. CASE HostContinues(c) /\ UNCHANGED <<importer, shellVars>>
      BY <3>1, <3>5, HostContinuesTyped, ContinuedFits DEF shellVars
    <3>6. CASE (TargetsServed(c) \/ TargetsLoaded(c)) /\ UNCHANGED <<importer, host, view>>
      BY <3>1, <3>3, <3>6, ReloadTyped, ContinuedFits
    <3> QED
      BY <3>2, <3>4, <3>5, <3>6
  <2>4. CASE UNCHANGED vars
    BY <2>4 DEF vars, labVars, dockerVars, registryVars, shellVars, LabTypeOK, CallFits
  <2> QED
    BY <2>1, <2>2, <2>3, <2>4 DEF Next
<1>2. \A c \in Slots : call'[c] # Idle => call'[c].of \in Subjects \union {None}
  BY <1>1 DEF CallFits, Requests, Shape
<1> QED
  BY <1>1, <1>2

(* Every variable of the server, of the two views and of the shell has its  *)
(* type, and every request is about what its task says, on the route of its *)
(* task, with what it must carry there.                                     *)
THEOREM TypeCorrect == Spec => [](TypeOK /\ CallFits)
<1>1. Init => IType
  BY InitTyped
<1>2. IType /\ [Next]_vars => IType'
  BY NextTyped
<1> QED
  BY <1>1, <1>2, PTL DEF Spec, IType
=============================================================================
