---------------------------- MODULE IntentStore ----------------------------
(***************************************************************************)
(* Confirming a plan once: the intents and results a server keeps.         *)
(*                                                                         *)
(* Registry presets, Environment Profiles, Snapshot Restore and Product    *)
(* Setup import share one protocol.  A page shows a plan and carries the   *)
(* token of an intent; the confirmation, a second request, takes the       *)
(* intent out of the store, executes it, saves the result and redirects;   *)
(* the third request shows the result.  Both collections hold at most      *)
(* Limit entries and drop the oldest one for a new one; they are in the    *)
(* memory of the process, and each of their methods runs under a lock.     *)
(* Users reload pages, go back, submit twice and mix up tabs.              *)
(***************************************************************************)
EXTENDS Naturals, FiniteSets

CONSTANTS
    Store,      \* which of the four stores may be meant
    Request,    \* confirmations
    Subject,    \* what is confirmed: a preset, profile or snapshot of a product
    Limit,      \* entries a collection holds (100)
    MaxTokens,  \* bound: previews in a behaviour
    MaxRestarts \* bound: restarts of the server in a behaviour

ASSUME StoreAssumption == Store \subseteq {"registry", "profile", "restore", "setup"}
ASSUME LimitAssumption == Limit \in Nat \ {0}
ASSUME MaxTokensAssumption == MaxTokens \in Nat
ASSUME MaxRestartsAssumption == MaxRestarts \in Nat

VARIABLES
    store,      \* which store this is
    owner,      \* the subject each token is issued for
    issued,     \* intents created: tokens are numbered in this order
    intents,    \* the tokens of the intents in the store
    saved,      \* results saved: ids are numbered in this order
    results,    \* the ids of the results in the store
    pc,         \* where each confirmation is
    token,      \* the token it sends
    subject,    \* the subject in its URL
    result,     \* the id of its result
    restarts,   \* restarts of the server
    popped,     \* ghost: the tokens that a confirmation has taken out
    lost,       \* ghost: the last token and the last result before the restart
    ran         \* ghost: whether a confirmation has executed its intent

storeVars == <<issued, intents, saved, results>>
requestVars == <<pc, token, subject, result>>
ghostVars == <<popped, lost, ran>>
vars == <<store, owner, storeVars, requestVars, restarts, ghostVars>>

Token == 1..MaxTokens

PC == {"idle", "taking", "executing", "refused", "finished", "redirected",
       "shown", "not_found", "error"}

(* The server is at work on it. *)
Running == {"taking", "executing", "refused", "finished"}

TypeOK ==
    /\ store \in Store
    /\ owner \in [Token -> Subject]
    /\ issued \in 0..MaxTokens
    /\ intents \subseteq 1..issued
    /\ saved \in Nat
    /\ results \subseteq 1..saved
    /\ pc \in [Request -> PC]
    /\ token \in [Request -> 0..MaxTokens]
    /\ subject \in [Request -> Subject]
    /\ result \in [Request -> Nat]
    /\ restarts \in 0..MaxRestarts
    /\ popped \subseteq 1..issued
    /\ lost \in [intent : 0..issued, result : 0..saved]
    /\ ran \in [Request -> BOOLEAN]

Init ==
    /\ store \in Store
    /\ owner \in [Token -> Subject]
    /\ issued = 0
    /\ intents = {}
    /\ saved = 0
    /\ results = {}
    /\ pc = [r \in Request |-> "idle"]
    /\ token = [r \in Request |-> 0]
    /\ subject \in [Request -> Subject]
    /\ result = [r \in Request |-> 0]
    /\ restarts = 0
    /\ popped = {}
    /\ lost = [intent |-> 0, result |-> 0]
    /\ ran = [r \in Request |-> FALSE]

Goto(r, label) == pc' = [pc EXCEPT ![r] = label]

(* Seeded fault: any entry may be dropped. *)
TrimmedAnyhow(entries) ==
    IF Cardinality(entries) < Limit THEN {{}} ELSE {{m} : m \in entries}

(* Seeded fault: the limit is compared with > instead of >=. *)
TrimmedLate(entries) ==
    IF Cardinality(entries) <= Limit
    THEN {{}}
    ELSE {{m} : m \in {m \in entries : \A u \in entries : m <= u}}

(* _trim: what is dropped before an entry is added.  No collection is ever   *)
(* longer than Limit, so the loop drops one entry at most, the oldest.       *)
Trimmed(entries) ==
    IF Cardinality(entries) < Limit
    THEN {{}}
    ELSE {{m} : m \in {m \in entries : \A u \in entries : m <= u}}

(* A plan is shown, with the token of a new intent. *)
CreateIntent ==
    /\ issued < MaxTokens
    /\ issued' = issued + 1
    /\ \E dropped \in Trimmed(intents) :
          intents' = (intents \ dropped) \union {issued + 1}
    /\ UNCHANGED <<store, owner, saved, results, requestVars, restarts, ghostVars>>

(* A confirmation arrives: any token that was ever shown, or none, sent to   *)
(* the URL of any subject.                                                   *)
Confirm(r) ==
    /\ pc[r] = "idle"
    /\ \E t \in 0..issued : token' = [token EXCEPT ![r] = t]
    /\ Goto(r, "taking")
    /\ UNCHANGED <<store, owner, storeVars, subject, result, restarts, ghostVars>>

(* Seeded fault: the intent of any subject is good enough. *)
MatchesAnything(r) == token[r] # 0

Matches(r) == store = "setup" \/ owner[token[r]] = subject[r]

(* Seeded fault: the intent is read, and removed after its execution only. *)
TakeIntentLate(r) ==
    /\ pc[r] = "taking"
    /\ IF token[r] \in intents /\ Matches(r)
       THEN Goto(r, "executing") /\ ran' = [ran EXCEPT ![r] = TRUE]
       ELSE Goto(r, "refused") /\ UNCHANGED ran
    /\ UNCHANGED <<store, owner, storeVars, token, subject, result, restarts,
                   popped, lost>>

(* The intent is popped, whether it is for this subject or not. *)
TakeIntent(r) ==
    /\ pc[r] = "taking"
    /\ IF token[r] \in intents /\ Matches(r)
       THEN Goto(r, "executing") /\ ran' = [ran EXCEPT ![r] = TRUE]
       ELSE Goto(r, "refused") /\ UNCHANGED ran
    /\ intents' = intents \ {token[r]}
    /\ popped' = popped \union (intents \cap {token[r]})
    /\ UNCHANGED <<store, owner, issued, saved, results, token, subject, result,
                   restarts, lost>>

(* The execution ends, or raises past the route: then nothing is saved. *)
Execute(r) ==
    /\ pc[r] = "executing"
    /\ \/ Goto(r, "finished")
       \/ Goto(r, "error")
    /\ UNCHANGED <<store, owner, storeVars, token, subject, result, restarts,
                   ghostVars>>

(* Product Setup answers a refusal with an error page and saves no result. *)
RefuseImport(r) ==
    /\ pc[r] = "refused"
    /\ store = "setup"
    /\ Goto(r, "error")
    /\ UNCHANGED <<store, owner, storeVars, token, subject, result, restarts,
                   ghostVars>>

(* Seeded fault: the collection is trimmed after the result is in it. *)
SaveResultThenTrim(r) ==
    /\ \/ pc[r] = "finished"
       \/ pc[r] = "refused" /\ store # "setup"
    /\ saved' = saved + 1
    /\ \E dropped \in Trimmed(results \union {saved + 1}) :
          results' = (results \union {saved + 1}) \ dropped
    /\ result' = [result EXCEPT ![r] = saved + 1]
    /\ Goto(r, "redirected")
    /\ UNCHANGED <<store, owner, issued, intents, token, subject, restarts,
                   ghostVars>>

SaveResult(r) ==
    /\ \/ pc[r] = "finished"
       \/ pc[r] = "refused" /\ store # "setup"
    /\ saved' = saved + 1
    /\ \E dropped \in Trimmed(results) :
          results' = (results \ dropped) \union {saved + 1}
    /\ result' = [result EXCEPT ![r] = saved + 1]
    /\ Goto(r, "redirected")
    /\ UNCHANGED <<store, owner, issued, intents, token, subject, restarts,
                   ghostVars>>

(* The browser follows the redirect. *)
GetResult(r) ==
    /\ pc[r] = "redirected"
    /\ Goto(r, IF result[r] \in results THEN "shown" ELSE "not_found")
    /\ UNCHANGED <<store, owner, storeVars, token, subject, result, restarts,
                   ghostVars>>

(* The process dies and starts again: both collections are empty. *)
Restart ==
    /\ restarts < MaxRestarts
    /\ restarts' = restarts + 1
    /\ intents' = {}
    /\ results' = {}
    /\ lost' = [intent |-> issued, result |-> saved]
    /\ pc' = [r \in Request |-> IF pc[r] \in Running THEN "error" ELSE pc[r]]
    /\ UNCHANGED <<store, owner, issued, saved, token, subject, result, popped,
                   ran>>

Next ==
    \/ CreateIntent
    \/ \E r \in Request :
        \/ Confirm(r)
        \/ TakeIntent(r)
        \/ Execute(r)
        \/ RefuseImport(r)
        \/ SaveResult(r)
        \/ GetResult(r)
    \/ Restart

Spec == Init /\ [][Next]_vars

---------------------------------------------------------------------------
(* A confirmed plan is executed once, however often its form is submitted,   *)
(* at the same time or after a restart.                                      *)
AtMostOnce ==
    \A r, q \in Request : ran[r] /\ ran[q] /\ token[r] = token[q] => r = q

(* What is executed was shown to the user, on the page of the very preset,   *)
(* profile or snapshot whose URL is confirmed.                               *)
OnlyWhatWasShown ==
    \A r \in Request : ran[r] =>
        /\ token[r] \in 1..issued
        /\ store # "setup" => owner[token[r]] = subject[r]

(* Neither collection grows beyond its limit. *)
Bounded == Cardinality(intents) <= Limit /\ Cardinality(results) <= Limit

(* A confirmation is refused for a reason: another subject, a token that     *)
(* was sent before, a restart, or at least Limit plans shown since.  Serving *)
(* other users never costs the newest Limit plans their confirmation.        *)
RefusedForAReason ==
    \A r \in Request : pc[r] = "refused" =>
        \/ token[r] = 0
        \/ store # "setup" /\ owner[token[r]] # subject[r]
        \/ token[r] \in popped
        \/ token[r] <= lost.intent
        \/ issued >= token[r] + Limit

(* A result that a redirect points to is there, unless the server has been   *)
(* restarted or at least Limit results were saved since.                     *)
ResultIsThere ==
    \A r \in Request : pc[r] = "not_found" =>
        \/ result[r] <= lost.result
        \/ saved >= result[r] + Limit

(* What they rest on: an intent that has run is popped, a live one is not;   *)
(* and an entry that is neither live nor popped nor lost is Limit entries    *)
(* old, because it was the oldest of Limit live ones when it was dropped.    *)
Spent ==
    \A r \in Request :
        /\ ran[r] => token[r] \in popped /\ pc[r] \notin {"idle", "taking"}
        /\ token[r] <= issued
        /\ result[r] <= saved

LiveOrOld ==
    /\ intents \cap popped = {}
    /\ \A t \in 1..issued :
        t \in intents \union popped \/ t <= lost.intent \/ issued >= t + Limit
    /\ \A i \in 1..saved :
        i \in results \/ i <= lost.result \/ saved >= i + Limit

IInv ==
    /\ TypeOK
    /\ AtMostOnce
    /\ OnlyWhatWasShown
    /\ Bounded
    /\ RefusedForAReason
    /\ ResultIsThere
    /\ Spent
    /\ LiveOrOld

===========================================================================
