----------------------------- MODULE CsrfClient -----------------------------
(***************************************************************************)
(* The console's HTTP client (lib/api.ts) against the server's CSRF tokens *)
(* (web_security.py).  A call is a GET, answered by one step, or a change, *)
(* for which the client holds a token: its cached copy, or the one it has  *)
(* just fetched.  A change the server answers with 403 is sent once more   *)
(* with a fresh token.                                                     *)
(*                                                                         *)
(* There is no clock.  A token is told by whether it is the one the server *)
(* would accept now: it lapses when it expires and when the server is      *)
(* restarted.                                                              *)
(***************************************************************************)
EXTENDS Naturals, FiniteSets, TLC

CONSTANTS
    None,
    Slots,         \* bound: calls the console has open at once
    MaxFaults      \* bound: lapses, lost calls and refusals of a handler

ASSUME ClientAssumption == MaxFaults \in Nat \ {0}

VARIABLES
    call,          \* the console's calls
    cached,        \* the client's copy of the token
    permitted,     \* the operator's role allows changes
    faults

clientVars == <<call, cached, permitted, faults>>

Held == {"none", "valid", "stale"}    \* stale: not the server's any more
Sending == {"fetch", "sent"}

Idle == [at |-> "idle"]

(* A call: the console's function, what it is about, where it stands, whether *)
(* its answer is still wanted, and what its function captured.                *)
Call(task, of, at) ==
    [task |-> task, of |-> of, at |-> at, live |-> TRUE, saw |-> None, token |-> "none",
     tries |-> 0, effects |-> 0, end |-> None, lapsed |-> FALSE]

FreeSlots == {c \in Slots : call[c] = Idle}
BeginIn(calls, r) == \E c \in FreeSlots : call' = [calls EXCEPT ![c] = r]
Begin(r) == BeginIn(call, r)

(* mutate: with the copy, or with a token it fetches first. *)
Posted(r) ==
    [r EXCEPT !.at = IF cached = "none" THEN "fetch" ELSE "sent",
              !.token = cached, !.tries = 1, !.effects = 0]

Post(r) == Begin(Posted(r))

At(c, step) == call[c].at = step
Frees(c) == call' = [call EXCEPT ![c] = Idle]
Goes(c, step) == call' = [call EXCEPT ![c].at = step, ![c].end = None, ![c].effects = 0]
Ended(c, task) == At(c, "answered") /\ call[c].task = task

Fault == faults < MaxFaults /\ faults' = faults + 1

(* The module starts without a copy, and is without one again when the copy's *)
(* time limit has passed.  A role without permissions counts as a fault.      *)
ClientInit(copies) ==
    \/ permitted = TRUE /\ cached \in copies /\ faults = 0
    \/ permitted = FALSE /\ cached = "none" /\ faults = 1
-----------------------------------------------------------------------------
(* token_for: the server's token, or a new one when it has lapsed. *)
FetchToken(c) ==
    /\ At(c, "fetch")
    /\ cached' = "valid"
    /\ call' = [call EXCEPT ![c].at = "sent", ![c].token = "valid"]
    /\ UNCHANGED <<permitted, faults>>

(* validate, then the permission of the route, which the connectivity check of *)
(* a target does not ask for.  The handler runs: accepted.                     *)
Unguarded == {"validate"}
Accepted(c) ==
    /\ At(c, "sent") /\ call[c].token = "valid"
    /\ permitted \/ call[c].task \in Unguarded

(* The handler of call c, answered as r, carried the change out.  The client *)
(* takes an answer that is lost for a failure.                               *)
Executed(c, r) ==
    \E ok \in BOOLEAN :
        /\ call' = [call EXCEPT ![c] = [r EXCEPT !.at = "answered", !.effects = @ + 1,
                                                 !.end = IF ok THEN "done" ELSE "failed"]]
        /\ IF ok THEN UNCHANGED faults ELSE Fault

(* The handler said no, or the request was lost before it ran. *)
Rejected(c) == call' = [call EXCEPT ![c].at = "answered", ![c].end = "failed"]

Lost(c) ==
    /\ call[c].at \in Sending
    /\ Fault
    /\ Rejected(c)
    /\ UNCHANGED <<cached, permitted>>

(* Mutant: the copy is kept for the second attempt. *)
DeniedKeepingCopy(c) ==
    /\ At(c, "sent") /\ ~Accepted(c)
    /\ IF call[c].tries = 1
       THEN call' = [call EXCEPT ![c].tries = 2, ![c].token = cached]
       ELSE call' = [call EXCEPT ![c].at = "answered", ![c].end = "refused"]
    /\ UNCHANGED <<cached, permitted, faults>>

(* 403: drop the copy and fetch, once; then it is a failure. *)
Denied(c) ==
    /\ At(c, "sent") /\ ~Accepted(c)
    /\ IF call[c].tries = 1
       THEN /\ cached' = "none"
            /\ call' = [call EXCEPT ![c].at = "fetch", ![c].tries = 2]
       ELSE /\ UNCHANGED cached
            /\ call' = [call EXCEPT ![c].at = "answered", ![c].end = "refused"]
    /\ UNCHANGED <<permitted, faults>>

(* The server's token expires, or the server is restarted.  That makes a *)
(* difference to a request that is under way.                            *)
Lapse ==
    LET Stale(t) == IF t = "valid" THEN "stale" ELSE t IN
    /\ Fault /\ \E c \in Slots : At(c, "sent")
    /\ cached' = Stale(cached)
    /\ call' = [c \in Slots |->
                  IF call[c] = Idle \/ call[c].at # "sent" THEN call[c]
                  ELSE [call[c] EXCEPT !.token = Stale(@), !.lapsed = call[c].tries = 2]]
    /\ UNCHANGED permitted

ClientSteps == Lapse \/ \E c \in Slots : FetchToken(c) \/ Lost(c) \/ Denied(c)
-----------------------------------------------------------------------------
(* The promise of a call, and where this client keeps it. *)

CallStatus == [c \in Slots |->
    CASE call[c].at \in Sending -> "asked"
      [] call[c].at = "answered" -> call[c].end
      [] OTHER -> "idle"]
CallEffects == [c \in Slots |-> IF call[c] = Idle THEN 0 ELSE call[c].effects]

(* A refusal is excused when the operator may not change anything, or the *)
(* token lapsed on its second way to the server.                          *)
CallExcused == [c \in Slots |-> ~permitted \/ (call[c] # Idle /\ call[c].lapsed)]

Promise == INSTANCE MutationCall WITH
               status <- CallStatus, effects <- CallEffects, excused <- CallExcused

(* api.ts:88-89 "A 403 on a mutation is what an expired cached token looks    *)
(* like. Retry once with a fresh one; anything else is a real failure": the   *)
(* client keeps the promise of MutationCall, so a retry never carries a       *)
(* change out twice, and an expired or forgotten token fails no call.         *)
PromiseKept == Promise!Spec
=============================================================================
