--------------------------- MODULE SubmissionKeys ---------------------------
(***************************************************************************)
(* The idempotency keys of one action on one model, from the form to the   *)
(* job: stores/request.js issues them, the train and evaluate actions of   *)
(* stores/model.js send them, and ModelController answers a repeated key   *)
(* from the cache of IdempotencyService.                                   *)
(*                                                                         *)
(* A page is one load of the application in a tab; it has a store of its   *)
(* own, and a reload is the use of another page.  A key and a job are      *)
(* named by the submission they were made for.  Keys of other actions and  *)
(* of other models share neither a slot of the store nor a cache entry.    *)
(***************************************************************************)
EXTENDS Naturals, Sequences

CONSTANTS
    Forms,            \* what the user can fill in
    Pages,
    MaxSubmissions    \* bound: submissions

ASSUME SubmissionsAssumption == MaxSubmissions \in Nat

VARIABLES
    slot,       \* per page: the entry of the action in idempotency
    sent,       \* the submissions in the order in which they were sent
    open,       \* per page: the submission that disables the button
    answered,   \* the keys with an answer in the cache, and the jobs these name
    expired     \* history: keys whose answer outlived its time to live

keyVars == <<slot, sent, open, answered, expired>>

NoSubmission == 0
NoSlot == [key |-> NoSubmission, form |-> NoSubmission]

Submissions == 1 .. Len(sent)

KeysInit ==
    /\ slot = [p \in Pages |-> NoSlot]
    /\ sent = <<>>
    /\ open = [p \in Pages |-> NoSubmission]
    /\ answered = {} /\ expired = {}

-----------------------------------------------------------------------------
(* The browser *)

\* Mutant: the key depends on the action alone.
KeyForAction(p, form, fresh) ==
    IF slot[p] = NoSlot THEN [key |-> fresh, form |-> form] ELSE slot[p]

\* issueIdempotencyKey: the slot holds the last form only, and nothing clears it.
IssueKey(p, form, fresh) ==
    IF slot[p] # NoSlot /\ slot[p].form = form THEN slot[p] ELSE [key |-> fresh, form |-> form]

\* trainModel or evaluateModel, up to its POST.
SubmitForm(p, form) ==
    LET s == Len(sent) + 1
        entry == IssueKey(p, form, s)
    IN  /\ open[p] = NoSubmission
        /\ s <= MaxSubmissions
        /\ slot' = [slot EXCEPT ![p] = entry]
        /\ sent' = Append(sent, [page |-> p, form |-> form, key |-> entry.key,
                                 at |-> "posted", job |-> NoSubmission, raced |-> FALSE])
        /\ open' = [open EXCEPT ![p] = s]
        /\ UNCHANGED <<answered, expired>>

\* An answer, or none within 15 seconds: the button is enabled again, and the slot
\* stays as it is.
PostOver(p) ==
    /\ open[p] # NoSubmission
    /\ open' = [open EXCEPT ![p] = NoSubmission]
    /\ UNCHANGED <<slot, sent, answered, expired>>

-----------------------------------------------------------------------------
(* The server, also for a request that the browser gave up *)

SentGoesTo(s, from, to) ==
    /\ sent[s].at = from
    /\ sent' = [sent EXCEPT ![s].at = to]

\* A submission of the same key is on its way to storing its answer.
Racing(s) ==
    \E r \in Submissions \ {s} : sent[r].key = sent[s].key /\ sent[r].at \in {"missed", "marked"}

\* getCachedResponse
LookUpKey(s) ==
    /\ sent[s].at = "posted"
    /\ \/ \E a \in answered :
            /\ a.key = sent[s].key
            /\ sent' = [sent EXCEPT ![s].at = "accepted", ![s].job = a.job]
       \/ /\ \A a \in answered : a.key # sent[s].key
          /\ sent' = [sent EXCEPT ![s].at = "missed", ![s].raced = Racing(s)]
    /\ UNCHANGED <<slot, open, answered, expired>>

\* The run is saved and the model marked as busy, or that fails.
MarkBusy(s) ==
    /\ SentGoesTo(s, "missed", "marked") \/ SentGoesTo(s, "missed", "error")
    /\ UNCHANGED <<slot, open, answered, expired>>

\* storeResponse takes the place of an answer that a racing submission stored.  If it
\* throws, the pending dispatch pushes the job all the same, or fails to, and the answer
\* is an error: no later submission finds that job.
StoreAnswer(s) ==
    /\ \/ /\ SentGoesTo(s, "marked", "stored")
          /\ answered' = {a \in answered : a.key # sent[s].key}
                             \cup {[key |-> sent[s].key, job |-> s]}
       \/ /\ sent[s].at = "marked"
          /\ \E job \in {s, NoSubmission} :
                sent' = [sent EXCEPT ![s].at = "error", ![s].job = job]
          /\ UNCHANGED answered
    /\ UNCHANGED <<slot, open, expired>>

\* Only now the job is pushed, or that fails, and the answer stays in the cache.
PushJob(s) ==
    /\ sent[s].at = "stored"
    /\ sent' \in {[sent EXCEPT ![s].at = "accepted", ![s].job = s], [sent EXCEPT ![s].at = "error"]}
    /\ UNCHANGED <<slot, open, answered, expired>>

AnswerExpires(a) ==
    /\ answered' = answered \ {a}
    /\ expired' = expired \cup {a.key}
    /\ UNCHANGED <<slot, sent, open>>

-----------------------------------------------------------------------------
KeysNext ==
    \/ \E p \in Pages : (\E form \in Forms : SubmitForm(p, form)) \/ PostOver(p)
    \/ \E s \in Submissions : LookUpKey(s) \/ MarkBusy(s) \/ StoreAnswer(s) \/ PushJob(s)
    \/ \E a \in answered : AnswerExpires(a)

-----------------------------------------------------------------------------
(* Properties *)

\* What a page sent from r to s was the same form all the time.
Unchanged(r, s) ==
    \A i \in r .. s : sent[i].page = sent[s].page => sent[i].form = sent[s].form

\* Two submissions of the key overlapped on the server.
Raced(key) == \E q \in Submissions : sent[q].key = key /\ sent[q].raced

\* "As long as the payload for a given action remains unchanged ... the API will not
\* enqueue duplicate jobs. Changing the relevant form fields ... allows a fresh
\* submission" (frontend README): two accepted submissions of one page name the same
\* job exactly if the form did not change between them, also when it was changed and
\* changed back; unless one looked for an answer while another had not yet stored it, or
\* the answer expired.
JobsFollowForms ==
    \A r, s \in Submissions :
        /\ r < s /\ sent[r].page = sent[s].page
        /\ sent[r].at = "accepted" /\ sent[s].at = "accepted"
        => IF Unchanged(r, s)
           THEN sent[r].job = sent[s].job \/ Raced(sent[s].key) \/ sent[s].key \in expired
           ELSE sent[r].job # sent[s].job
=============================================================================
