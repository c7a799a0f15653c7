------------------------- MODULE AdminPagesProofs --------------------------
(***************************************************************************)
(* Two parts of the admin pages, for every value of their constants: the   *)
(* callbacks of the datasets page and the idempotency keys of a            *)
(* submission.                                                             *)
(*                                                                         *)
(* Datasets page: NoStrayCallbacks is inductive once the types are known.  *)
(* Each component gives back exactly the channels that its own book-       *)
(* keeping names, so it may take away the callbacks of the other one, but  *)
(* never leaves its own.                                                   *)
(*                                                                         *)
(* Keys: a page keeps the key of its last submission while the form stays  *)
(* the same, so that two submissions of a page share a key exactly when no *)
(* other form came between them. A key then names one job as long as its   *)
(* cache entry lives and no two of its submissions raced: KeysInv follows  *)
(* a submission from the lookup in the cache to the answer, with what the  *)
(* cache, the answers and the marks of the middleware say of its key at    *)
(* each stage.                                                             *)
(***************************************************************************)
EXTENDS DatasetsPage, SubmissionKeys, TLAPS

-----------------------------------------------------------------------------
(* The callbacks of the datasets page *)

Statuses == {"none"} \cup Active \cup Ended

Tables == [rows : [Imports -> Statuses], held : SUBSET Imports, filter : Filters]

DatasetsTypeOK ==
    /\ dataset \in [Imports -> Statuses]
    /\ notices \in SUBSET [dataset : Imports, status : Statuses]
    /\ callbacks \in [Imports -> {Nobody, Wizard} \cup Visits]
    /\ wizard \in [of : {Nobody} \cup Imports, posting : {Nobody} \cup Imports, visit : {0} \cup Visits]
    /\ wizard.posting # Nobody => wizard.visit # 0
    /\ visit \in {0} \cup Visits
    /\ visits \in 0 .. MaxVisits
    /\ table \in [Visits -> Tables]
    /\ lists \in SUBSET [visit : Visits, rows : [Imports -> Statuses]]

ChannelInv == DatasetsTypeOK /\ NoStrayCallbacks

\* An answer of the server is a row of the table for each dataset.
LEMMA ListedType ==
    ASSUME DatasetsTypeOK, NEW filter
    PROVE  Listed(filter) \in [Imports -> Statuses]
BY DEF DatasetsTypeOK, Listed, Statuses

LEMMA InitChannels == DatasetsInit => ChannelInv
<1> SUFFICES ASSUME DatasetsInit PROVE ChannelInv
  OBVIOUS
<1>1. PICK f \in Filters : (CHOOSE g \in Filters : TRUE) = f
  BY PageAssumption
<1>2. NoRows \in [Imports -> Statuses]
  BY DEF NoRows, Statuses
<1>3. table \in [Visits -> Tables]
  BY <1>1, <1>2 DEF DatasetsInit, Tables
<1>4. /\ wizard \in [of : {Nobody} \cup Imports, posting : {Nobody} \cup Imports, visit : {0} \cup Visits]
      /\ wizard.posting = Nobody /\ visit = 0 /\ visits \in 0 .. MaxVisits
  BY PageAssumption DEF DatasetsInit
<1>5. notices = {} /\ lists = {} /\ dataset = NoRows /\ callbacks = [d \in Imports |-> Nobody]
  BY DEF DatasetsInit
<1>6. DatasetsTypeOK
  BY <1>2, <1>3, <1>4, <1>5 DEF DatasetsTypeOK
<1> QED BY <1>5, <1>6 DEF ChannelInv, NoStrayCallbacks

LEMMA ServerChannels ==
    ASSUME ChannelInv, NEW d \in Imports, Advance(d) \/ Create(d)
    PROVE  ChannelInv'
<1>1. PICK status \in Statuses : Becomes(d, status)
  BY DEF Advance, Create, Statuses, Active, Ended
<1>2. UNCHANGED viewVars
  BY DEF Advance, Create
<1> QED BY <1>1, <1>2 DEF Becomes, ChannelInv, DatasetsTypeOK, NoStrayCallbacks, viewVars

LEMMA FetchChannels ==
    ASSUME ChannelInv, NEW v \in Visits, NEW filter, FetchDatasets(v, filter)
    PROVE  lists' \in SUBSET [visit : Visits, rows : [Imports -> Statuses]]
BY ListedType DEF FetchDatasets, ChannelInv, DatasetsTypeOK

LEMMA EnterChannels == ASSUME ChannelInv, EnterPage PROVE ChannelInv'
<1>1. visits + 1 \in Visits /\ visits + 1 \in 0 .. MaxVisits
  BY PageAssumption DEF EnterPage, ChannelInv, DatasetsTypeOK, Visits
<1> QED BY <1>1, FetchChannels DEF EnterPage, ChannelInv, DatasetsTypeOK, NoStrayCallbacks, remoteVars

LEMMA LeaveChannels == ASSUME ChannelInv, LeavePage PROVE ChannelInv'
<1>1. visit \in Visits
  BY DEF LeavePage, ChannelInv, DatasetsTypeOK
<1>2. DatasetsTypeOK'
  BY <1>1 DEF LeavePage, ChannelInv, DatasetsTypeOK, Tables, remoteVars, Unsubscribed
<1>3. NoStrayCallbacks'
  BY <1>1 DEF LeavePage, ChannelInv, DatasetsTypeOK, NoStrayCallbacks, Unsubscribed
<1> QED BY <1>2, <1>3 DEF ChannelInv

LEMMA TableChannels ==
    ASSUME ChannelInv, PollTable \/ \E f \in Filters : ChooseFilter(f)
    PROVE  ChannelInv'
<1>1. CASE PollTable
  BY <1>1, FetchChannels DEF PollTable, ChannelInv, DatasetsTypeOK, NoStrayCallbacks, remoteVars
<1>2. ASSUME NEW f \in Filters, ChooseFilter(f) PROVE ChannelInv'
  <2>1. visit \in Visits
    BY <1>2 DEF ChooseFilter, ChannelInv, DatasetsTypeOK
  <2>2. lists' \in SUBSET [visit : Visits, rows : [Imports -> Statuses]]
    BY <1>2, <2>1, FetchChannels DEF ChooseFilter
  <2>3. table' \in [Visits -> Tables] /\ \A v \in Visits : table'[v].held = table[v].held
    BY <1>2, <2>1 DEF ChooseFilter, ChannelInv, DatasetsTypeOK, Tables
  <2>4. DatasetsTypeOK'
    BY <1>2, <2>2, <2>3 DEF ChooseFilter, ChannelInv, DatasetsTypeOK, remoteVars
  <2> QED BY <1>2, <2>3, <2>4 DEF ChooseFilter, ChannelInv, NoStrayCallbacks
<1> QED BY <1>1, <1>2

LEMMA ArriveChannels ==
    ASSUME ChannelInv, NEW l \in lists, RowsArrive(l)
    PROVE  ChannelInv'
<1> DEFINE v == l.visit
           active == {d \in Imports : l.rows[d] \in Active}
           held == table[v].held
<1>1. v \in Visits /\ l.rows \in [Imports -> Statuses]
  BY DEF ChannelInv, DatasetsTypeOK
<1>2. /\ table' = [table EXCEPT ![v].rows = l.rows, ![v].held = active]
      /\ callbacks' = Subscribed(Unsubscribed(callbacks, held \ active), active \ held, v)
      /\ lists' \subseteq lists
      /\ UNCHANGED <<remoteVars, wizard, visit, visits, turns>>
  BY DEF RowsArrive
<1>3. DatasetsTypeOK'
  BY <1>1, <1>2 DEF ChannelInv, DatasetsTypeOK, Tables, Subscribed, Unsubscribed, remoteVars
<1>4. \A d \in Imports : callbacks'[d] = IF d \in active \ held THEN v
                                         ELSE IF d \in held \ active THEN Nobody
                                         ELSE callbacks[d]
  BY <1>2 DEF Subscribed, Unsubscribed
<1>5. \A u \in Visits : table'[u].held = IF u = v THEN active ELSE table[u].held
  BY <1>1, <1>2 DEF ChannelInv, DatasetsTypeOK, Tables
<1>6. NoStrayCallbacks'
  <2> SUFFICES ASSUME NEW d \in Imports, callbacks'[d] # Nobody
               PROVE  \/ callbacks'[d] = Wizard /\ wizard'.of = d
                      \/ \E u \in Visits : callbacks'[d] = u /\ d \in table'[u].held
    BY DEF NoStrayCallbacks
  <2>1. CASE d \in active \ held
    BY <1>1, <1>4, <1>5, <2>1
  <2>2. CASE d \notin active \ held
    <3>1. callbacks'[d] = callbacks[d] /\ d \notin held \ active
      BY <1>4, <2>2
    <3>2. CASE callbacks[d] = Wizard /\ wizard.of = d
      BY <1>2, <3>1, <3>2
    <3>3. CASE \E u \in Visits : callbacks[d] = u /\ d \in table[u].held
      BY <1>5, <3>1, <3>3
    <3> QED BY <3>1, <3>2, <3>3 DEF ChannelInv, NoStrayCallbacks
  <2> QED BY <2>1, <2>2
<1> QED BY <1>3, <1>6 DEF ChannelInv

LEMMA WizardChannels ==
    ASSUME ChannelInv,
           \/ \E d \in Imports : SubmitIngestion(d)
           \/ IngestionAnswered \/ IngestionFails \/ CloseWizard
    PROVE  ChannelInv'
<1>1. ASSUME NEW d \in Imports, SubmitIngestion(d) PROVE ChannelInv'
  BY <1>1 DEF SubmitIngestion, ChannelInv, DatasetsTypeOK, NoStrayCallbacks, Unsubscribed, remoteVars
<1>2. CASE IngestionAnswered
  <2> DEFINE d == wizard.posting
  <2>1. d \in Imports
    BY <1>2 DEF IngestionAnswered, ChannelInv, DatasetsTypeOK
  <2>2. lists' \in SUBSET [visit : Visits, rows : [Imports -> Statuses]]
    <3>1. CASE visit = wizard.visit
      BY <1>2, <3>1, FetchChannels DEF IngestionAnswered, ChannelInv, DatasetsTypeOK
    <3>2. CASE visit # wizard.visit
      BY <1>2, <3>2 DEF IngestionAnswered, ChannelInv, DatasetsTypeOK
    <3> QED BY <3>1, <3>2
  <2>3. DatasetsTypeOK'
    BY <1>2, <2>1, <2>2 DEF IngestionAnswered, ChannelInv, DatasetsTypeOK, Subscribed, Unsubscribed, remoteVars
  <2>4. NoStrayCallbacks'
    BY <1>2, <2>1 DEF IngestionAnswered, ChannelInv, DatasetsTypeOK, NoStrayCallbacks, Subscribed, Unsubscribed
  <2> QED BY <2>3, <2>4 DEF ChannelInv
<1>3. CASE IngestionFails
  BY <1>3 DEF IngestionFails, ChannelInv, DatasetsTypeOK, NoStrayCallbacks, remoteVars
<1>4. CASE CloseWizard
  BY <1>4 DEF CloseWizard, ChannelInv, DatasetsTypeOK, NoStrayCallbacks, Unsubscribed, remoteVars
<1> QED BY <1>1, <1>2, <1>3, <1>4

LEMMA EventChannels ==
    ASSUME ChannelInv, NEW n \in notices, Notify(n)
    PROVE  ChannelInv'
<1> DEFINE d == n.dataset
           who == callbacks[d]
<1>1. d \in Imports /\ n.status \in Statuses /\ who \in {Nobody, Wizard} \cup Visits
  BY DEF ChannelInv, DatasetsTypeOK
<1>2. notices' \subseteq notices /\ UNCHANGED <<dataset, visit, visits, lists, turns>>
  BY DEF Notify
<1>3. CASE who = Nobody
  <2>1. UNCHANGED <<callbacks, wizard, table>>
    BY <1>3, PageAssumption DEF Notify
  <2> QED BY <1>2, <2>1 DEF ChannelInv, DatasetsTypeOK, NoStrayCallbacks
<1>4. CASE who = Wizard
  <2>1. WizardHears(n.status)
    BY <1>4, PageAssumption DEF Notify
  <2> QED BY <1>2, <2>1 DEF WizardHears, ChannelInv, DatasetsTypeOK, NoStrayCallbacks, Unsubscribed
<1>5. CASE who \in Visits
  <2>1. HandleDatasetRealtime(who, d, n.status)
    BY <1>5, PageAssumption DEF Notify, Visits
  <2>2. d \in table[who].held
    BY <1>1, <1>5, PageAssumption DEF ChannelInv, NoStrayCallbacks, Visits
  <2>3. DatasetsTypeOK'
    <3>1. callbacks' \in [Imports -> {Nobody, Wizard} \cup Visits] /\ wizard' = wizard
      BY <1>1, <2>1 DEF HandleDatasetRealtime, ChannelInv, DatasetsTypeOK, Unsubscribed
    <3>2. table' \in [Visits -> Tables]
      <4>1. table[who] \in Tables /\ table \in [Visits -> Tables]
        BY <1>5 DEF ChannelInv, DatasetsTypeOK
      <4>2. CASE table[who].rows[d] = "none"
        BY <2>1, <4>1, <4>2 DEF HandleDatasetRealtime
      <4>3. CASE table[who].rows[d] # "none"
        <5> DEFINE kept == IF n.status \in Ended THEN table[who].held \ {d} ELSE table[who].held
                   new == [table[who] EXCEPT !.rows[d] = n.status, !.held = kept]
        <5>1. table' = [table EXCEPT ![who] = new]
          BY <2>1, <4>1, <4>3 DEF HandleDatasetRealtime, Tables
        <5>2. [table[who].rows EXCEPT ![d] = n.status] \in [Imports -> Statuses] /\ kept \in SUBSET Imports
          BY <1>1, <4>1 DEF Tables
        <5>3. new \in Tables
          BY <4>1, <5>2 DEF Tables
        <5> QED BY <4>1, <5>1, <5>3
      <4> QED BY <4>2, <4>3
    <3> QED BY <1>2, <3>1, <3>2 DEF ChannelInv, DatasetsTypeOK
  <2>4. \A u \in Visits : \A e \in Imports :
            e \in table[u].held => e \in table'[u].held \/ (u = who /\ e = d /\ callbacks'[d] = Nobody)
    BY <1>1, <1>5, <2>1, <2>2 DEF HandleDatasetRealtime, ChannelInv, DatasetsTypeOK, Tables, Unsubscribed
  <2>5. \A e \in Imports : callbacks'[e] \in {callbacks[e], Nobody}
    BY <2>1 DEF HandleDatasetRealtime, ChannelInv, DatasetsTypeOK, Unsubscribed
  <2>6. wizard' = wizard
    BY <2>1 DEF HandleDatasetRealtime
  <2> QED BY <1>5, <2>3, <2>4, <2>5, <2>6 DEF ChannelInv, NoStrayCallbacks
<1> QED BY <1>1, <1>3, <1>4, <1>5

LEMMA NextChannels == ASSUME ChannelInv, [DatasetsNext]_datasetsVars PROVE ChannelInv'
<1>1. ASSUME NEW d \in Imports, Advance(d) \/ Create(d) \/ SubmitIngestion(d) PROVE ChannelInv'
  BY <1>1, ServerChannels, WizardChannels
<1>2. CASE EnterPage \/ LeavePage \/ PollTable \/ \E f \in Filters : ChooseFilter(f)
  BY <1>2, EnterChannels, LeaveChannels, TableChannels
<1>3. ASSUME NEW l \in lists, RowsArrive(l) \/ RowsFail(l) PROVE ChannelInv'
  <2>1. CASE RowsArrive(l)
    BY <2>1, ArriveChannels
  <2>2. CASE RowsFail(l)
    BY <2>2 DEF RowsFail, ChannelInv, DatasetsTypeOK, NoStrayCallbacks, remoteVars
  <2> QED BY <1>3, <2>1, <2>2
<1>4. CASE IngestionAnswered \/ IngestionFails \/ CloseWizard
  BY <1>4, WizardChannels
<1>5. ASSUME NEW n \in notices, Notify(n) \/ NoticeLost(n) PROVE ChannelInv'
  <2>1. CASE Notify(n)
    BY <2>1, EventChannels
  <2>2. CASE NoticeLost(n)
    BY <2>2 DEF NoticeLost, ChannelInv, DatasetsTypeOK, NoStrayCallbacks, viewVars
  <2> QED BY <1>5, <2>1, <2>2
<1>6. CASE UNCHANGED datasetsVars
  BY <1>6 DEF datasetsVars, viewVars, remoteVars, ChannelInv, DatasetsTypeOK, NoStrayCallbacks
<1> QED BY <1>1, <1>2, <1>3, <1>4, <1>5, <1>6 DEF DatasetsNext

\* The callbacks on a channel are always those of a component that follows it,
\* whichever of the table and the wizard took it from the other or gave it up.
THEOREM CallbacksHaveOwners == DatasetsSpec => []NoStrayCallbacks
<1>1. DatasetsInit => ChannelInv
  BY InitChannels
<1>2. ChannelInv /\ [DatasetsNext]_datasetsVars => ChannelInv'
  BY NextChannels
<1>3. ChannelInv => NoStrayCallbacks
  BY DEF ChannelInv
<1> QED BY <1>1, <1>2, <1>3, PTL DEF DatasetsSpec

-----------------------------------------------------------------------------
(* The keys of the submissions *)

\* The submissions alone, as a specification.
KeysSpec == KeysInit /\ [][KeysNext]_keyVars

\* The stages of a submission.
Stages == {"posted", "missed", "marked", "stored", "accepted", "error"}

Sendings ==
    [page : Pages, form : Forms, key : Nat, at : Stages, job : Nat, raced : BOOLEAN]

KeysTyped ==
    /\ sent \in Seq(Sendings)
    /\ slot \in [Pages -> [key : Nat, form : Forms \cup {NoSubmission}]]
    /\ answered \subseteq [key : Nat, job : Nat]

\* A key is named by a submission of the same page.
KeysAreIssued ==
    /\ \A s \in Submissions :
           /\ sent[s].key \in Submissions
           /\ sent[sent[s].key].page = sent[s].page
           /\ slot[sent[s].page] # NoSlot
           /\ sent[s].raced => sent[s].at # "posted"
    /\ \A p \in Pages : slot[p] # NoSlot => slot[p].key \in Submissions /\ sent[slot[p].key].page = p
    /\ \A a \in answered : a.key \in Submissions
    /\ expired \subseteq Submissions

\* The slot of a page remembers its last submission.
SlotIsLast ==
    \A r \in Submissions :
        /\ \E i \in r .. Len(sent) :
               sent[i].page = sent[r].page /\ sent[i].form = slot[sent[r].page].form
        /\ slot[sent[r].page].key = sent[r].key
              <=> \A i \in r .. Len(sent) :
                      sent[i].page = sent[r].page => sent[i].form = slot[sent[r].page].form

\* Two submissions of a page share a key as long as the form stayed the same.
KeysFollowForms ==
    \A r, s \in Submissions :
        r < s /\ sent[r].page = sent[s].page => (sent[r].key = sent[s].key <=> Unchanged(r, s))

\* An answer names a job of its key.
JobsOfKeys ==
    /\ \A s \in Submissions :
           sent[s].at = "accepted" =>
               sent[s].job \in Submissions /\ sent[sent[s].job].key = sent[s].key
    /\ \A a \in answered : a.job \in Submissions /\ sent[a.job].key = a.key
    /\ \A a, b \in answered : a.key = b.key => a = b

\* The keys that raced or whose answer expired.
Spoilt == {sent[q].key : q \in {r \in Submissions : sent[r].raced}} \cup expired

\* The job of a key that is not spoilt is made once and then found in the cache.
OneAnswer ==
    \A s \in Submissions : sent[s].key \notin Spoilt =>
        /\ sent[s].at \in {"missed", "marked"} =>
               /\ \A r \in Submissions :
                      sent[r].key = sent[s].key /\ sent[r].at \in {"missed", "marked"} => r = s
               /\ \A a \in answered : a.key # sent[s].key
        /\ sent[s].at = "stored" => [key |-> sent[s].key, job |-> s] \in answered
        /\ sent[s].at = "accepted" => [key |-> sent[s].key, job |-> sent[s].job] \in answered

KeysInv == KeysTyped /\ KeysAreIssued /\ SlotIsLast /\ KeysFollowForms /\ JobsOfKeys /\ OneAnswer

LEMMA InitKeys == KeysInit => KeysInv
<1> SUFFICES ASSUME KeysInit PROVE KeysInv
  OBVIOUS
<1>1. Submissions = {} /\ answered = {} /\ expired = {} /\ sent = <<>>
  BY DEF KeysInit, Submissions
<1>2. KeysTyped /\ \A p \in Pages : slot[p] = NoSlot
  BY <1>1 DEF KeysTyped, KeysInit, NoSlot, NoSubmission
<1> QED BY <1>1, <1>2 DEF KeysInv, KeysAreIssued, SlotIsLast, KeysFollowForms, JobsOfKeys, OneAnswer

\* What a submission adds.
LEMMA SubmitSends ==
    ASSUME KeysTyped, NEW p \in Pages, NEW form \in Forms, SubmitForm(p, form)
    PROVE  /\ Len(sent') = Len(sent) + 1 /\ Len(sent) \in Nat
           /\ Submissions' = Submissions \cup {Len(sent')} /\ Len(sent') \notin Submissions
           /\ \A i \in Submissions : sent'[i] = sent[i]
           /\ sent'[Len(sent')] = [page |-> p, form |-> form, key |-> slot'[p].key,
                                   at |-> "posted", job |-> NoSubmission, raced |-> FALSE]
           /\ slot'[p].form = form
           /\ \/ slot[p] # NoSlot /\ slot[p].form = form /\ slot' = slot
              \/ ~(slot[p] # NoSlot /\ slot[p].form = form) /\ slot'[p].key = Len(sent')
           /\ \A q \in Pages : q # p => slot'[q] = slot[q]
           /\ UNCHANGED <<answered, expired>>
           /\ KeysTyped'
<1> DEFINE s == Len(sent) + 1
           entry == IssueKey(p, form, s)
           new == [page |-> p, form |-> form, key |-> entry.key,
                   at |-> "posted", job |-> NoSubmission, raced |-> FALSE]
<1>1. slot' = [slot EXCEPT ![p] = entry] /\ sent' = Append(sent, new) /\ UNCHANGED <<answered, expired>>
  BY DEF SubmitForm
<1>2. Len(sent) \in Nat /\ s \in Nat
  BY DEF KeysTyped
<1>3. slot[p] \in [key : Nat, form : Forms \cup {NoSubmission}]
  BY DEF KeysTyped
<1>4. entry \in [key : Nat, form : Forms \cup {NoSubmission}] /\ entry.form = form
  BY <1>2, <1>3 DEF IssueKey
<1>5. \/ slot[p] # NoSlot /\ slot[p].form = form /\ entry = slot[p]
      \/ ~(slot[p] # NoSlot /\ slot[p].form = form) /\ entry.key = s
  BY DEF IssueKey
<1> HIDE DEF entry
<1>6. new \in Sendings
  BY <1>4 DEF Sendings, Stages, NoSubmission
<1>7. slot' \in [Pages -> [key : Nat, form : Forms \cup {NoSubmission}]] /\ slot'[p] = entry
  BY <1>1, <1>4 DEF KeysTyped
<1> HIDE DEF new
<1>8. sent' \in Seq(Sendings) /\ Len(sent') = s /\ sent'[s] = new /\ \A i \in 1 .. Len(sent) : sent'[i] = sent[i]
  BY <1>1, <1>6 DEF KeysTyped
<1>9. Submissions' = Submissions \cup {s} /\ s \notin Submissions
  BY <1>2, <1>8 DEF Submissions
<1>10. entry = slot[p] => slot' = slot
  BY <1>1 DEF KeysTyped
<1>11. new = [page |-> p, form |-> form, key |-> slot'[p].key,
              at |-> "posted", job |-> NoSubmission, raced |-> FALSE]
  BY <1>7 DEF new
<1>12. KeysTyped'
  BY <1>1, <1>7, <1>8 DEF KeysTyped
<1>13. \A q \in Pages : q # p => slot'[q] = slot[q]
  BY <1>1 DEF KeysTyped
<1>14. \A i \in Submissions : sent'[i] = sent[i]
  BY <1>8 DEF Submissions
<1>15. \/ slot[p] # NoSlot /\ slot[p].form = form /\ slot' = slot
       \/ ~(slot[p] # NoSlot /\ slot[p].form = form) /\ slot'[p].key = Len(sent')
  BY <1>5, <1>7, <1>8, <1>10
<1> QED BY <1>1, <1>2, <1>4, <1>7, <1>8, <1>9, <1>11, <1>12, <1>13, <1>14, <1>15

LEMMA SubmitKeepsKeys ==
    ASSUME KeysInv, NEW p \in Pages, NEW form \in Forms, SubmitForm(p, form)
    PROVE  KeysInv'
<1> DEFINE s == Len(sent')
<1>0. KeysTyped
  BY DEF KeysInv
<1>1. /\ s = Len(sent) + 1 /\ Len(sent) \in Nat
      /\ Submissions' = Submissions \cup {s} /\ s \notin Submissions
      /\ \A i \in Submissions : sent'[i] = sent[i]
  BY <1>0, SubmitSends
<1>2. /\ sent'[s].page = p /\ sent'[s].form = form /\ sent'[s].key = slot'[p].key
      /\ sent'[s].at = "posted" /\ sent'[s].raced = FALSE /\ slot'[p].form = form
  <2>1. /\ sent'[s] = [page |-> p, form |-> form, key |-> slot'[p].key,
                       at |-> "posted", job |-> NoSubmission, raced |-> FALSE]
        /\ slot'[p].form = form
    BY <1>0, SubmitSends
  <2> QED BY <2>1
<1>3. /\ \/ slot[p] # NoSlot /\ slot[p].form = form /\ slot' = slot
         \/ ~(slot[p] # NoSlot /\ slot[p].form = form) /\ slot'[p].key = s
      /\ \A q \in Pages : q # p => slot'[q] = slot[q]
      /\ UNCHANGED <<answered, expired>>
      /\ KeysTyped'
  BY <1>0, SubmitSends
<1> HIDE DEF s
<1>4. \A i \in Submissions : sent[i].page \in Pages /\ sent[i].key \in Nat
  <2>1. \A i \in Submissions : sent[i] \in Sendings
    BY <1>0 DEF KeysTyped, Submissions
  <2> QED BY <2>1 DEF Sendings
<1>5. \A i : i \in Submissions => i \in Nat /\ 1 <= i /\ i < s
  BY <1>1 DEF Submissions
<1>6. slot'[p] # NoSlot
  <2>1. s # 0
    BY <1>1
  <2>2. NoSlot.key = 0
    BY DEF NoSlot, NoSubmission
  <2> QED BY <1>3, <2>1, <2>2
<1>7. KeysAreIssued'
  <2>1. slot'[p].key \in Submissions' /\ sent'[slot'[p].key].page = p
    BY <1>1, <1>2, <1>3 DEF KeysInv, KeysAreIssued
  <2>2. \A q \in Pages : slot'[q] # NoSlot => slot'[q].key \in Submissions' /\ sent'[slot'[q].key].page = q
    BY <1>1, <1>3, <2>1 DEF KeysInv, KeysAreIssued
  <2>3. \A i \in Submissions' : sent'[i].key \in Submissions' /\ sent'[sent'[i].key].page = sent'[i].page
    BY <1>1, <1>2, <2>1 DEF KeysInv, KeysAreIssued
  <2>4. \A i \in Submissions' : slot'[sent'[i].page] # NoSlot
    BY <1>1, <1>2, <1>3, <1>4, <1>6 DEF KeysInv, KeysAreIssued
  <2>6. \A i \in Submissions' : sent'[i].raced => sent'[i].at # "posted"
    BY <1>1, <1>2 DEF KeysInv, KeysAreIssued
  <2>5. (\A a \in answered' : a.key \in Submissions') /\ expired' \subseteq Submissions'
    BY <1>1, <1>3 DEF KeysInv, KeysAreIssued
  <2> QED BY <2>2, <2>3, <2>4, <2>5, <2>6 DEF KeysAreIssued
<1>8. SlotIsLast'
  <2> SUFFICES ASSUME NEW r \in Submissions'
               PROVE  /\ \E i \in r .. s :
                             /\ sent'[i].page = sent'[r].page
                             /\ sent'[i].form = slot'[sent'[r].page].form
                      /\ slot'[sent'[r].page].key = sent'[r].key
                            <=> \A i \in r .. s :
                                   sent'[i].page = sent'[r].page
                                       => sent'[i].form = slot'[sent'[r].page].form
    BY DEF SlotIsLast, s
  <2>1. CASE r = s
    <3>1. s .. s = {s}
      BY <1>1
    <3> QED BY <2>1, <3>1, <1>2
  <2>2. CASE r \in Submissions
    <3>1. /\ r .. s = (r .. Len(sent)) \cup {s} /\ s \notin r .. Len(sent)
          /\ r .. Len(sent) \subseteq Submissions
      BY <2>2, <1>1, <1>5 DEF Submissions
    <3>2. \A i \in r .. Len(sent) : sent'[i] = sent[i]
      BY <3>1, <1>1
    <3>3. sent'[r] = sent[r] /\ sent[r].page \in Pages
      BY <2>2, <1>1, <1>4
    <3>4. PICK j \in r .. Len(sent) :
              sent[j].page = sent[r].page /\ sent[j].form = slot[sent[r].page].form
      BY <2>2 DEF KeysInv, SlotIsLast
    <3>5. slot[sent[r].page].key = sent[r].key
            <=> \A i \in r .. Len(sent) :
                   sent[i].page = sent[r].page => sent[i].form = slot[sent[r].page].form
      BY <2>2 DEF KeysInv, SlotIsLast
    <3>6. CASE sent[r].page # p
      <4>1. slot'[sent[r].page] = slot[sent[r].page]
        BY <3>6, <3>3, <1>3
      <4>2. sent'[s].page # sent[r].page
        BY <3>6, <1>2
      <4> QED BY <4>1, <4>2, <3>1, <3>2, <3>3, <3>4, <3>5
    <3>7. CASE sent[r].page = p /\ slot' = slot /\ slot[p].form = form
      <4>1. j \in r .. s /\ sent'[j].page = p /\ sent'[j].form = form
        BY <3>1, <3>2, <3>4, <3>7
      <4>2. slot[p].key = sent[r].key <=> \A i \in r .. s : sent'[i].page = p => sent'[i].form = form
        BY <3>1, <3>2, <3>5, <3>7, <1>2
      <4> QED BY <4>1, <4>2, <3>3, <3>7
    <3>8. CASE sent[r].page = p /\ ~(slot[p] # NoSlot /\ slot[p].form = form) /\ slot'[p].key = s
      <4>1. slot[p].form # form
        BY <3>8, <2>2 DEF KeysInv, KeysAreIssued
      <4>2. sent[r].key # s
        BY <2>2, <1>5 DEF KeysInv, KeysAreIssued
      <4>3. sent'[j].page = p /\ sent'[j].form # form /\ j \in r .. s
        BY <3>8, <3>4, <3>2, <3>1, <4>1
      <4>4. s \in r .. s
        BY <3>1
      <4> QED BY <4>2, <4>3, <4>4, <3>3, <3>8, <1>2
    <3> QED BY <3>6, <3>7, <3>8, <1>3
  <2> QED BY <2>1, <2>2, <1>1
<1>9. KeysFollowForms'
  <2> SUFFICES ASSUME NEW r \in Submissions', NEW q \in Submissions',
                      r < q, sent'[r].page = sent'[q].page
               PROVE  sent'[r].key = sent'[q].key <=> Unchanged(r, q)'
    BY DEF KeysFollowForms
  <2>1. r \in Submissions
    BY <1>1, <1>5
  <2>2. CASE q \in Submissions
    <3>1. r .. q \subseteq Submissions
      BY <2>1, <2>2 DEF Submissions
    <3>2. \A i \in r .. q : sent'[i] = sent[i]
      BY <3>1, <1>1
    <3>3. Unchanged(r, q)' <=> Unchanged(r, q)
      BY <3>2, <2>2, <1>1 DEF Unchanged
    <3> QED BY <3>3, <2>1, <2>2, <1>1 DEF KeysInv, KeysFollowForms
  <2>3. CASE q = s
    <3>1. sent'[r].page = p /\ sent'[q].key = slot'[p].key
      BY <2>3, <1>2
    <3>2. slot'[p].key = sent'[r].key
            <=> \A i \in r .. s : sent'[i].page = p => sent'[i].form = form
      BY <1>8, <3>1, <1>2 DEF SlotIsLast, s
    <3> QED BY <2>3, <3>1, <3>2, <1>2 DEF Unchanged
  <2> QED BY <2>2, <2>3, <1>1
<1>10. JobsOfKeys'
  <2>1. \A i \in Submissions' : sent'[i].at = "accepted" => i \in Submissions
    BY <1>1, <1>2
  <2> QED BY <2>1, <1>1, <1>3 DEF KeysInv, JobsOfKeys
<1>11. OneAnswer'
  <2>1. \A i \in Submissions' : sent'[i].at # "posted" => i \in Submissions
    BY <1>1, <1>2
  <2>3. Spoilt \subseteq Spoilt'
    BY <1>1, <1>3 DEF Spoilt
  <2> SUFFICES ASSUME NEW i \in Submissions, sent[i].key \notin Spoilt
               PROVE  /\ sent[i].at \in {"missed", "marked"} =>
                            /\ \A r \in Submissions' :
                                 sent'[r].key = sent[i].key /\ sent'[r].at \in {"missed", "marked"} => r = i
                            /\ \A a \in answered : a.key # sent[i].key
                      /\ sent[i].at = "stored" => [key |-> sent[i].key, job |-> i] \in answered
                      /\ sent[i].at = "accepted" => [key |-> sent[i].key, job |-> sent[i].job] \in answered
    BY <2>1, <2>3, <1>1, <1>2, <1>3 DEF OneAnswer
  <2>4. \A r \in Submissions' : sent'[r].at \in {"missed", "marked"} => r \in Submissions /\ sent'[r] = sent[r]
    BY <2>1, <1>1
  <2> QED BY <2>4 DEF KeysInv, OneAnswer
<1> QED BY <1>3, <1>7, <1>8, <1>9, <1>10, <1>11 DEF KeysInv

\* What a step of the server leaves alone.
SameSubmissions(s) ==
    /\ Len(sent') = Len(sent) /\ Submissions' = Submissions
    /\ \A i \in Submissions : i # s => sent'[i] = sent[i]
    /\ \A i \in Submissions :
           sent'[i].page = sent[i].page /\ sent'[i].form = sent[i].form /\ sent'[i].key = sent[i].key

\* One entry of a sequence changes.
LEMMA ReplaceEntry ==
    ASSUME NEW S, NEW f \in Seq(S), NEW i \in 1 .. Len(f), NEW e \in S
    PROVE  /\ [f EXCEPT ![i] = e] \in Seq(S)
           /\ Len([f EXCEPT ![i] = e]) = Len(f)
           /\ [f EXCEPT ![i] = e][i] = e
           /\ \A j \in 1 .. Len(f) : j # i => [f EXCEPT ![i] = e][j] = f[j]
OBVIOUS

LEMMA ServerMoves ==
    ASSUME KeysTyped, NEW s \in Submissions, NEW new \in Sendings,
           new.page = sent[s].page, new.form = sent[s].form, new.key = sent[s].key,
           sent' = [sent EXCEPT ![s] = new]
    PROVE  sent' \in Seq(Sendings) /\ SameSubmissions(s) /\ sent'[s] = new
<1>1. sent \in Seq(Sendings) /\ s \in 1 .. Len(sent)
  BY DEF KeysTyped, Submissions
<1>2. /\ sent' \in Seq(Sendings) /\ Len(sent') = Len(sent) /\ sent'[s] = new
      /\ \A i \in 1 .. Len(sent) : i # s => sent'[i] = sent[i]
  <2>1. /\ [sent EXCEPT ![s] = new] \in Seq(Sendings) /\ Len([sent EXCEPT ![s] = new]) = Len(sent)
        /\ [sent EXCEPT ![s] = new][s] = new
        /\ \A i \in 1 .. Len(sent) : i # s => [sent EXCEPT ![s] = new][i] = sent[i]
    BY ONLY new \in Sendings, <1>1, ReplaceEntry
  <2> QED BY <2>1
<1> QED BY <1>2 DEF SameSubmissions, Submissions

\* A step of the server leaves the keys and the forms as they were.
LEMMA ServerKeepsForms ==
    ASSUME KeysInv, NEW s, SameSubmissions(s), UNCHANGED slot
    PROVE  SlotIsLast' /\ KeysFollowForms'
<1>1. \A r \in Submissions : r \in Nat /\ \A i \in r .. Len(sent) : i \in Submissions
  BY DEF Submissions
<1>2. SlotIsLast'
  <2> SUFFICES ASSUME NEW r \in Submissions
               PROVE  /\ \E i \in r .. Len(sent) :
                             /\ sent'[i].page = sent'[r].page
                             /\ sent'[i].form = slot[sent'[r].page].form
                      /\ slot[sent'[r].page].key = sent'[r].key
                            <=> \A i \in r .. Len(sent) :
                                   sent'[i].page = sent'[r].page
                                       => sent'[i].form = slot[sent'[r].page].form
    BY DEF SlotIsLast, SameSubmissions
  <2>1. \A i \in r .. Len(sent) : sent'[i].page = sent[i].page /\ sent'[i].form = sent[i].form
    BY <1>1 DEF SameSubmissions
  <2>2. sent'[r].page = sent[r].page /\ sent'[r].key = sent[r].key
    BY DEF SameSubmissions
  <2>3. PICK j \in r .. Len(sent) :
            sent[j].page = sent[r].page /\ sent[j].form = slot[sent[r].page].form
    BY DEF KeysInv, SlotIsLast
  <2>4. slot[sent[r].page].key = sent[r].key
          <=> \A i \in r .. Len(sent) :
                 sent[i].page = sent[r].page => sent[i].form = slot[sent[r].page].form
    BY DEF KeysInv, SlotIsLast
  <2> QED BY <2>1, <2>2, <2>3, <2>4
<1>3. KeysFollowForms'
  <2> SUFFICES ASSUME NEW r \in Submissions, NEW q \in Submissions, r < q, sent[r].page = sent[q].page
               PROVE  sent[r].key = sent[q].key <=> Unchanged(r, q)'
    BY DEF KeysFollowForms, SameSubmissions
  <2>1. \A i \in r .. q : i \in Submissions
    BY DEF Submissions
  <2>2. Unchanged(r, q)' <=> Unchanged(r, q)
    BY <2>1 DEF Unchanged, SameSubmissions
  <2> QED BY <2>2 DEF KeysInv, KeysFollowForms
<1> QED BY <1>2, <1>3

LEMMA ServerKeepsIssued ==
    ASSUME KeysInv, NEW s, SameSubmissions(s), sent'[s].at # "posted", UNCHANGED slot,
           \A a \in answered' : a.key \in Submissions, expired' \subseteq Submissions
    PROVE  KeysAreIssued'
BY DEF KeysInv, KeysAreIssued, SameSubmissions

\* A key with a race had it before, unless it is the race of this step.
LEMMA ServerKeepsRaces ==
    ASSUME NEW s \in Submissions, SameSubmissions(s), sent[s].raced => sent'[s].raced,
           expired \subseteq expired'
    PROVE  Spoilt \subseteq Spoilt'
BY DEF Spoilt, SameSubmissions

LEMMA LookUpKeepsKeys ==
    ASSUME KeysInv, NEW s \in Submissions, LookUpKey(s)
    PROVE  KeysInv'
<1>1. KeysTyped /\ sent[s].at = "posted" /\ UNCHANGED <<slot, answered, expired>>
  BY DEF LookUpKey, KeysInv
<1>2. sent[s] \in Sendings
  BY <1>1 DEF KeysTyped, Submissions
<1>3. CASE \E a \in answered : a.key = sent[s].key
               /\ sent' = [sent EXCEPT ![s].at = "accepted", ![s].job = a.job]
  <2>1. PICK a \in answered : a.key = sent[s].key
               /\ sent' = [sent EXCEPT ![s].at = "accepted", ![s].job = a.job]
    BY <1>3
  <2>2. a \in [key : Nat, job : Nat] /\ sent[s].raced \in BOOLEAN
    BY <1>1, <1>2 DEF KeysTyped, Sendings
  <2> DEFINE new == [[sent[s] EXCEPT !.at = "accepted"] EXCEPT !.job = a.job]
  <2>3. /\ new \in Sendings
        /\ new.page = sent[s].page /\ new.form = sent[s].form /\ new.key = sent[s].key
        /\ new.at = "accepted" /\ new.job = a.job /\ new.raced = sent[s].raced
    <3>1. a.job \in Nat /\ "accepted" \in Stages
      BY <2>2 DEF Stages
    <3> QED BY <1>2, <3>1 DEF Sendings
  <2>4. /\ sent' \in Seq(Sendings) /\ SameSubmissions(s)
        /\ sent'[s].at = "accepted" /\ sent'[s].job = a.job /\ sent'[s].raced = sent[s].raced
    <3>1. sent' = [sent EXCEPT ![s] = new]
      BY <2>1
    <3> HIDE DEF new
    <3>2. sent' \in Seq(Sendings) /\ SameSubmissions(s) /\ sent'[s] = new
      BY <1>1, <2>3, <3>1, ServerMoves
    <3> QED BY <2>3, <3>2
  <2>5. SlotIsLast' /\ KeysFollowForms'
    BY <1>1, <2>4, ServerKeepsForms
  <2>6. KeysAreIssued'
    <3>1. (\A b \in answered : b.key \in Submissions) /\ expired \subseteq Submissions
      BY DEF KeysInv, KeysAreIssued
    <3> QED BY <1>1, <2>4, <3>1, ServerKeepsIssued
  <2>7. JobsOfKeys'
    <3>1. \A i \in Submissions' : sent'[i].at = "accepted" =>
              sent'[i].job \in Submissions' /\ sent'[sent'[i].job].key = sent'[i].key
      <4>1. a.job \in Submissions /\ sent[a.job].key = sent[s].key
        BY <2>1 DEF KeysInv, JobsOfKeys
      <4> QED BY <4>1, <2>4 DEF KeysInv, JobsOfKeys, SameSubmissions
    <3>2. /\ \A b \in answered' : b.job \in Submissions' /\ sent'[b.job].key = b.key
          /\ \A b, c \in answered' : b.key = c.key => b = c
      BY <1>1, <2>4 DEF KeysInv, JobsOfKeys, SameSubmissions
    <3> QED BY <3>1, <3>2 DEF JobsOfKeys
  <2>8. Spoilt \subseteq Spoilt'
    BY <1>1, <2>4, ServerKeepsRaces
  <2>9. OneAnswer'
    <3>1. a = [key |-> sent[s].key, job |-> sent'[s].job]
      BY <2>1, <2>2, <2>4
    <3>2. [key |-> sent'[s].key, job |-> sent'[s].job] \in answered'
      BY <1>1, <2>1, <2>4, <3>1 DEF SameSubmissions
    <3>3. \A r \in Submissions : r # s =>
              sent'[r] = sent[r] /\ (sent'[r].key \notin Spoilt' => sent[r].key \notin Spoilt)
      BY <2>4, <2>8 DEF SameSubmissions
    <3>4. Submissions' = Submissions /\ answered' = answered
      BY <1>1, <2>4 DEF SameSubmissions
    <3>5. \A r, q \in Submissions :
              sent'[q].key = sent'[r].key /\ sent'[q].at \in {"missed", "marked"} =>
                  q # s /\ sent[q].key = sent'[r].key /\ sent[q].at \in {"missed", "marked"}
      BY <2>4 DEF SameSubmissions
    <3> QED BY <2>4, <3>2, <3>3, <3>4, <3>5 DEF KeysInv, OneAnswer
  <2> QED BY <1>1, <2>4, <2>5, <2>6, <2>7, <2>9 DEF KeysInv, KeysTyped
<1>4. CASE /\ \A a \in answered : a.key # sent[s].key
           /\ sent' = [sent EXCEPT ![s].at = "missed", ![s].raced = Racing(s)]
  <2> DEFINE new == [[sent[s] EXCEPT !.at = "missed"] EXCEPT !.raced = Racing(s)]
  <2>1. /\ new \in Sendings
        /\ new.page = sent[s].page /\ new.form = sent[s].form /\ new.key = sent[s].key
        /\ new.at = "missed" /\ new.raced = Racing(s)
    <3>1. "missed" \in Stages /\ Racing(s) \in BOOLEAN
      BY DEF Stages, Racing
    <3> QED BY <1>2, <3>1 DEF Sendings
  <2>3. /\ sent' \in Seq(Sendings) /\ SameSubmissions(s)
        /\ sent'[s].at = "missed" /\ sent'[s].raced = Racing(s)
    <3>1. sent' = [sent EXCEPT ![s] = new]
      BY <1>4
    <3> HIDE DEF new
    <3>2. sent' \in Seq(Sendings) /\ SameSubmissions(s) /\ sent'[s] = new
      BY <1>1, <2>1, <3>1, ServerMoves
    <3> QED BY <2>1, <3>2
  <2>4. SlotIsLast' /\ KeysFollowForms'
    BY <1>1, <2>3, ServerKeepsForms
  <2>5. KeysAreIssued'
    <3>1. (\A b \in answered : b.key \in Submissions) /\ expired \subseteq Submissions
      BY DEF KeysInv, KeysAreIssued
    <3> QED BY <1>1, <2>3, <3>1, ServerKeepsIssued
  <2>6. JobsOfKeys'
    BY <1>1, <2>3 DEF KeysInv, JobsOfKeys, SameSubmissions
  <2>8. Racing(s) => sent[s].key \in Spoilt'
    BY <2>3 DEF Spoilt, SameSubmissions
  <2>9. ~sent[s].raced
    BY <1>1 DEF KeysInv, KeysAreIssued
  <2>10. Spoilt \subseteq Spoilt'
    BY <1>1, <2>3, <2>9, ServerKeepsRaces
  <2>11. \A r \in Submissions : r # s => sent'[r] = sent[r]
    BY <2>3 DEF SameSubmissions
  <2>12. Submissions' = Submissions /\ answered' = answered /\ sent'[s].key = sent[s].key
    BY <1>1, <2>3 DEF SameSubmissions
  <2>13. ASSUME NEW r \in Submissions, sent[s].key \notin Spoilt', r # s, sent[r].key = sent[s].key
         PROVE  sent[r].at \notin {"missed", "marked"}
    BY <2>8, <2>13 DEF Racing
  <2>14. OneAnswer'
    <3> SUFFICES ASSUME NEW i \in Submissions, sent'[i].key \notin Spoilt'
                 PROVE  /\ sent'[i].at \in {"missed", "marked"} =>
                              /\ \A r \in Submissions :
                                   sent'[r].key = sent'[i].key /\ sent'[r].at \in {"missed", "marked"} => r = i
                              /\ \A a \in answered : a.key # sent'[i].key
                        /\ sent'[i].at = "stored" => [key |-> sent'[i].key, job |-> i] \in answered
                        /\ sent'[i].at = "accepted" => [key |-> sent'[i].key, job |-> sent'[i].job] \in answered
      BY <2>12 DEF OneAnswer
    <3>1. CASE i = s
      BY <3>1, <1>4, <2>3, <2>11, <2>12, <2>13
    <3>2. CASE i # s
      <4>1. sent'[i] = sent[i] /\ sent[i].key \notin Spoilt
        BY <3>2, <2>10, <2>11
      <4>2. sent[i].at \in {"missed", "marked"} => sent[i].key # sent[s].key
        BY <3>2, <4>1, <2>12, <2>13
      <4> QED BY <3>2, <4>1, <4>2, <2>11, <2>12 DEF KeysInv, OneAnswer
    <3> QED BY <3>1, <3>2
  <2> QED BY <1>1, <2>3, <2>4, <2>5, <2>6, <2>14 DEF KeysInv, KeysTyped
<1> QED BY <1>3, <1>4 DEF LookUpKey

LEMMA GoesTo ==
    ASSUME KeysTyped, NEW s \in Submissions, NEW at \in Stages, sent' = [sent EXCEPT ![s].at = at]
    PROVE  /\ sent' \in Seq(Sendings)
           /\ SameSubmissions(s)
           /\ sent'[s].at = at /\ sent'[s].job = sent[s].job /\ sent'[s].raced = sent[s].raced
<1> DEFINE new == [sent[s] EXCEPT !.at = at]
<1>1. sent[s] \in Sendings
  BY DEF KeysTyped, Submissions
<1>2. /\ new \in Sendings /\ new.at = at /\ new.job = sent[s].job /\ new.raced = sent[s].raced
      /\ new.page = sent[s].page /\ new.form = sent[s].form /\ new.key = sent[s].key
  BY <1>1 DEF Sendings
<1>3. sent' = [sent EXCEPT ![s] = new]
  OBVIOUS
<1> HIDE DEF new
<1>4. sent' \in Seq(Sendings) /\ SameSubmissions(s) /\ sent'[s] = new
  BY <1>2, <1>3, ServerMoves
<1> QED BY <1>2, <1>4

LEMMA MarkKeepsKeys ==
    ASSUME KeysInv, NEW s \in Submissions, MarkBusy(s)
    PROVE  KeysInv'
<1>1. PICK at \in {"marked", "error"} :
          sent[s].at = "missed" /\ sent' = [sent EXCEPT ![s].at = at]
  BY DEF MarkBusy, SentGoesTo
<1>2. KeysTyped /\ UNCHANGED <<slot, answered, expired>> /\ at \in Stages
  BY <1>1 DEF MarkBusy, KeysInv, Stages
<1>3. /\ sent' \in Seq(Sendings) /\ SameSubmissions(s)
      /\ sent'[s].at = at /\ sent'[s].job = sent[s].job /\ sent'[s].raced = sent[s].raced
  BY <1>1, <1>2, GoesTo
<1>4. SlotIsLast' /\ KeysFollowForms'
  BY <1>2, <1>3, ServerKeepsForms
<1>5. KeysAreIssued'
  <2>1. (\A b \in answered : b.key \in Submissions) /\ expired \subseteq Submissions
    BY DEF KeysInv, KeysAreIssued
  <2> QED BY <1>1, <1>2, <1>3, <2>1, ServerKeepsIssued
<1>6. JobsOfKeys'
  BY <1>1, <1>2, <1>3 DEF KeysInv, JobsOfKeys, SameSubmissions
<1>7. OneAnswer'
  <2>1. Spoilt \subseteq Spoilt'
    BY <1>2, <1>3, ServerKeepsRaces
  <2>2. \A i \in Submissions :
            sent'[i].at \in {"missed", "marked"} => sent[i].at \in {"missed", "marked"}
    BY <1>1, <1>3 DEF SameSubmissions
  <2>3. \A i \in Submissions : sent'[i].at \in {"stored", "accepted"} => i # s
    BY <1>1, <1>3
  <2> QED BY <1>2, <1>3, <2>1, <2>2, <2>3 DEF KeysInv, OneAnswer, SameSubmissions
<1> QED BY <1>2, <1>3, <1>4, <1>5, <1>6, <1>7 DEF KeysInv, KeysTyped

LEMMA StoreKeepsKeys ==
    ASSUME KeysInv, NEW s \in Submissions, StoreAnswer(s), sent'[s].at # "error"
    PROVE  KeysInv'
<1> DEFINE key == sent[s].key
           rest == {a \in answered : a.key # key}
           new == [key |-> key, job |-> s]
<1>1. /\ sent[s].at = "marked" /\ sent' = [sent EXCEPT ![s].at = "stored"]
      /\ answered' = rest \cup {new} /\ UNCHANGED <<slot, expired>>
  <2>1. ASSUME NEW job, sent' = [sent EXCEPT ![s].at = "error", ![s].job = job]
        PROVE  sent'[s].at = "error"
    BY <2>1 DEF KeysInv, KeysTyped, Submissions, Sendings
  <2> QED BY <2>1 DEF StoreAnswer, SentGoesTo
<1>2. KeysTyped /\ "stored" \in Stages
  BY DEF KeysInv, Stages
<1>3. /\ sent' \in Seq(Sendings) /\ SameSubmissions(s)
      /\ sent'[s].at = "stored" /\ sent'[s].raced = sent[s].raced
  BY <1>1, <1>2, GoesTo
<1>4. SlotIsLast' /\ KeysFollowForms'
  BY <1>1, <1>3, ServerKeepsForms
<1>5. key \in Submissions /\ key \in Nat /\ s \in Nat
  BY DEF KeysInv, KeysAreIssued, Submissions
<1>6. new.key = key /\ new.job = s /\ new \in [key : Nat, job : Nat]
  BY <1>5
<1> HIDE DEF new, key
<1>7. KeysAreIssued'
  <2>1. (\A b \in answered : b.key \in Submissions) /\ expired' \subseteq Submissions
    BY <1>1 DEF KeysInv, KeysAreIssued
  <2>2. \A b \in answered' : b.key \in Submissions
    BY <1>1, <1>5, <1>6, <2>1
  <2> QED BY <1>1, <1>3, <2>1, <2>2, ServerKeepsIssued
<1>8. JobsOfKeys'
  <2>1. \A i \in Submissions' : sent'[i].at = "accepted" =>
            sent'[i].job \in Submissions' /\ sent'[sent'[i].job].key = sent'[i].key
    BY <1>3 DEF KeysInv, JobsOfKeys, SameSubmissions
  <2>2. \A b \in answered' : b.job \in Submissions' /\ sent'[b.job].key = b.key
    BY <1>1, <1>3, <1>6 DEF KeysInv, JobsOfKeys, SameSubmissions, key
  <2>3. \A b, c \in answered' : b.key = c.key => b = c
    BY <1>1, <1>6 DEF KeysInv, JobsOfKeys
  <2> QED BY <2>1, <2>2, <2>3 DEF JobsOfKeys
<1>9. OneAnswer'
  <2>1. Spoilt \subseteq Spoilt'
    BY <1>1, <1>3, ServerKeepsRaces
  <2>2. key \notin Spoilt => /\ \A r \in Submissions :
                                   sent[r].key = key /\ sent[r].at \in {"missed", "marked"} => r = s
                             /\ \A a \in answered : a.key # key
    BY <1>1 DEF KeysInv, OneAnswer, key
  <2> SUFFICES ASSUME NEW i \in Submissions, sent'[i].key \notin Spoilt'
               PROVE  /\ sent'[i].at \in {"missed", "marked"} =>
                            /\ \A r \in Submissions :
                                 sent'[r].key = sent'[i].key /\ sent'[r].at \in {"missed", "marked"} => r = i
                            /\ \A a \in answered' : a.key # sent'[i].key
                      /\ sent'[i].at = "stored" => [key |-> sent'[i].key, job |-> i] \in answered'
                      /\ sent'[i].at = "accepted" => [key |-> sent'[i].key, job |-> sent'[i].job] \in answered'
    BY <1>3 DEF OneAnswer, SameSubmissions
  <2>3. sent'[i].key = sent[i].key /\ sent[i].key \notin Spoilt /\ sent'[s].key = key
    BY <1>3, <2>1 DEF SameSubmissions, key
  <2>4. CASE i = s
    BY <2>3, <2>4, <1>1, <1>3 DEF new
  <2>5. CASE i # s /\ sent[i].key = key
    <3>1. sent'[i] = sent[i] /\ sent[i].at \notin {"missed", "marked"}
      BY <1>3, <2>2, <2>3, <2>5 DEF SameSubmissions
    <3>2. [key |-> key, job |-> i] \notin answered /\ [key |-> key, job |-> sent[i].job] \notin answered
      BY <2>2, <2>3, <2>5
    <3>3. sent[i].at \notin {"stored", "accepted"}
      BY <2>3, <2>5, <3>2 DEF KeysInv, OneAnswer
    <3> QED BY <3>1, <3>3
  <2>6. CASE i # s /\ sent[i].key # key
    <3>1. sent'[i] = sent[i]
      BY <1>3, <2>6 DEF SameSubmissions
    <3>2. \A job : [key |-> sent[i].key, job |-> job] \in answered
                      => [key |-> sent[i].key, job |-> job] \in answered'
      BY <1>1, <2>6
    <3>3. \A r \in Submissions :
              sent'[r].key = sent[i].key => r # s /\ sent'[r] = sent[r]
      BY <1>3, <2>6 DEF SameSubmissions, key
    <3>4. \A a \in answered' : a.key = sent[i].key => a \in answered
      BY <1>1, <1>6, <2>6
    <3> QED BY <2>3, <3>1, <3>2, <3>3, <3>4 DEF KeysInv, OneAnswer
  <2> QED BY <2>4, <2>5, <2>6
<1>10. answered' \subseteq [key : Nat, job : Nat]
  BY <1>1, <1>2, <1>6 DEF KeysTyped
<1> QED BY <1>1, <1>2, <1>3, <1>4, <1>7, <1>8, <1>9, <1>10 DEF KeysInv, KeysTyped

\* The answer is lost: the key stays free for the next submission.
LEMMA StoreFailsKeepsKeys ==
    ASSUME KeysInv, NEW s \in Submissions, StoreAnswer(s), sent'[s].at = "error"
    PROVE  KeysInv'
<1>1. KeysTyped /\ sent[s] \in Sendings /\ s \in Nat /\ NoSubmission \in Nat /\ "error" \in Stages
  BY DEF KeysInv, KeysTyped, Submissions, NoSubmission, Stages
<1>2. ~SentGoesTo(s, "marked", "stored")
  <2> SUFFICES ASSUME sent' = [sent EXCEPT ![s].at = "stored"] PROVE FALSE
    BY DEF SentGoesTo
  <2>1. "stored" \in Stages
    BY DEF Stages
  <2>2. sent'[s].at = "stored"
    BY <1>1, <2>1, GoesTo
  <2> QED BY <2>2
<1>3. PICK job \in {s, NoSubmission} :
          /\ sent[s].at = "marked" /\ sent' = [sent EXCEPT ![s].at = "error", ![s].job = job]
          /\ UNCHANGED <<slot, answered, expired>>
  BY <1>2 DEF StoreAnswer
<1>4. sent' \in Seq(Sendings) /\ SameSubmissions(s) /\ sent'[s].raced = sent[s].raced
  <2> DEFINE new == [[sent[s] EXCEPT !.at = "error"] EXCEPT !.job = job]
  <2>1. /\ new \in Sendings /\ new.raced = sent[s].raced
        /\ new.page = sent[s].page /\ new.form = sent[s].form /\ new.key = sent[s].key
    BY <1>1, <1>3 DEF Sendings
  <2>2. sent' = [sent EXCEPT ![s] = new]
    BY <1>3
  <2> HIDE DEF new
  <2>3. sent' \in Seq(Sendings) /\ SameSubmissions(s) /\ sent'[s] = new
    BY <1>1, <2>1, <2>2, ServerMoves
  <2> QED BY <2>1, <2>3
<1>5. SlotIsLast' /\ KeysFollowForms'
  BY <1>3, <1>4, ServerKeepsForms
<1>6. KeysAreIssued'
  <2>1. (\A b \in answered : b.key \in Submissions) /\ expired \subseteq Submissions
    BY DEF KeysInv, KeysAreIssued
  <2> QED BY <1>3, <1>4, <2>1, ServerKeepsIssued
<1>7. JobsOfKeys'
  <2>1. /\ Submissions' = Submissions /\ answered' = answered
        /\ \A i \in Submissions : i # s => sent'[i] = sent[i]
        /\ \A i \in Submissions : sent'[i].key = sent[i].key
    BY <1>3, <1>4 DEF SameSubmissions
  <2>2. \A i \in Submissions : sent'[i].at = "accepted" => i # s
    BY <1>3
  <2> QED BY <2>1, <2>2 DEF KeysInv, JobsOfKeys
<1>8. OneAnswer'
  <2>1. Spoilt \subseteq Spoilt'
    BY <1>3, <1>4, ServerKeepsRaces
  <2>2. \A i \in Submissions :
            sent'[i].at \in {"missed", "marked", "stored", "accepted"} => i # s
    BY <1>3, <1>4
  <2>3. /\ Submissions' = Submissions /\ answered' = answered
        /\ \A i \in Submissions : i # s => sent'[i] = sent[i]
        /\ \A i \in Submissions : sent'[i].key = sent[i].key
    BY <1>3, <1>4 DEF SameSubmissions
  <2> QED BY <2>1, <2>2, <2>3 DEF KeysInv, OneAnswer
<1> QED BY <1>1, <1>3, <1>4, <1>5, <1>6, <1>7, <1>8 DEF KeysInv, KeysTyped

LEMMA PushKeepsKeys ==
    ASSUME KeysInv, NEW s \in Submissions, PushJob(s)
    PROVE  KeysInv'
<1>1. /\ KeysTyped /\ sent[s].at = "stored" /\ UNCHANGED <<slot, answered, expired>>
      /\ sent[s] \in Sendings
  BY DEF PushJob, KeysInv, KeysTyped, Submissions
<1>2. /\ sent' \in Seq(Sendings) /\ SameSubmissions(s) /\ sent'[s].raced = sent[s].raced
      /\ sent'[s].at \in {"accepted", "error"}
      /\ sent'[s].at = "accepted" => sent'[s].job = s
  <2>1. CASE sent' = [sent EXCEPT ![s].at = "accepted", ![s].job = s]
    <3> DEFINE new == [[sent[s] EXCEPT !.at = "accepted"] EXCEPT !.job = s]
    <3>1. s \in Nat /\ "accepted" \in Stages
      BY DEF Submissions, Stages
    <3>2. /\ new \in Sendings
          /\ new.page = sent[s].page /\ new.form = sent[s].form /\ new.key = sent[s].key
          /\ new.at = "accepted" /\ new.job = s /\ new.raced = sent[s].raced
      BY <1>1, <3>1 DEF Sendings
    <3>3. sent' = [sent EXCEPT ![s] = new]
      BY <2>1
    <3> HIDE DEF new
    <3>4. sent' \in Seq(Sendings) /\ SameSubmissions(s) /\ sent'[s] = new
      BY <1>1, <3>2, <3>3, ServerMoves
    <3> QED BY <3>2, <3>4
  <2>2. CASE sent' = [sent EXCEPT ![s].at = "error"]
    <3>1. "error" \in Stages
      BY DEF Stages
    <3>2. /\ sent' \in Seq(Sendings) /\ SameSubmissions(s)
          /\ sent'[s].at = "error" /\ sent'[s].raced = sent[s].raced
      BY <1>1, <2>2, <3>1, GoesTo
    <3> QED BY <3>2
  <2> QED BY <2>1, <2>2 DEF PushJob
<1>3. SlotIsLast' /\ KeysFollowForms'
  BY <1>1, <1>2, ServerKeepsForms
<1>4. KeysAreIssued'
  <2>1. (\A b \in answered : b.key \in Submissions) /\ expired \subseteq Submissions
    BY DEF KeysInv, KeysAreIssued
  <2> QED BY <1>1, <1>2, <2>1, ServerKeepsIssued
<1>5. JobsOfKeys'
  BY <1>1, <1>2 DEF KeysInv, JobsOfKeys, SameSubmissions
<1>6. OneAnswer'
  <2>1. Spoilt \subseteq Spoilt'
    BY <1>1, <1>2, ServerKeepsRaces
  <2>2. \A i \in Submissions :
            sent'[i].at \in {"missed", "marked", "stored"} => i # s /\ sent'[i] = sent[i]
    BY <1>2 DEF SameSubmissions
  <2>3. \A i \in Submissions : i # s => sent'[i] = sent[i]
    BY <1>2 DEF SameSubmissions
  <2>4. /\ Submissions' = Submissions /\ answered' = answered
        /\ \A i \in Submissions : sent'[i].key = sent[i].key
    BY <1>1, <1>2 DEF SameSubmissions
  <2>5. sent[s].key \notin Spoilt => [key |-> sent[s].key, job |-> s] \in answered
    BY <1>1 DEF KeysInv, OneAnswer
  <2> SUFFICES ASSUME NEW i \in Submissions, sent'[i].key \notin Spoilt'
               PROVE  /\ sent'[i].at \in {"missed", "marked"} =>
                            /\ \A r \in Submissions :
                                 sent'[r].key = sent'[i].key /\ sent'[r].at \in {"missed", "marked"} => r = i
                            /\ \A a \in answered : a.key # sent'[i].key
                      /\ sent'[i].at = "stored" => [key |-> sent'[i].key, job |-> i] \in answered
                      /\ sent'[i].at = "accepted" => [key |-> sent'[i].key, job |-> sent'[i].job] \in answered
    BY <2>4 DEF OneAnswer
  <2>6. CASE i = s
    BY <2>6, <2>1, <2>4, <2>5, <1>2
  <2>7. CASE i # s
    BY <2>7, <2>1, <2>2, <2>3, <2>4 DEF KeysInv, OneAnswer
  <2> QED BY <2>6, <2>7
<1> QED BY <1>1, <1>2, <1>3, <1>4, <1>5, <1>6 DEF KeysInv, KeysTyped

LEMMA ExpiryKeepsKeys ==
    ASSUME KeysInv, NEW a \in answered, AnswerExpires(a)
    PROVE  KeysInv'
<1>1. answered' = answered \ {a} /\ expired' = expired \cup {a.key} /\ UNCHANGED <<slot, sent>>
  BY DEF AnswerExpires
<1>2. Submissions' = Submissions
  BY <1>1 DEF Submissions
<1>3. KeysTyped' /\ KeysAreIssued'
  BY <1>1, <1>2 DEF KeysInv, KeysTyped, KeysAreIssued
<1>4. SlotIsLast' /\ KeysFollowForms'
  <2>1. SlotIsLast'
    BY <1>1, <1>2 DEF KeysInv, SlotIsLast
  <2>2. KeysFollowForms'
    BY <1>1, <1>2 DEF KeysInv, KeysFollowForms, Unchanged
  <2> QED BY <2>1, <2>2
<1>5. JobsOfKeys'
  BY <1>1, <1>2 DEF KeysInv, JobsOfKeys
<1>6. OneAnswer'
  <2>1. Spoilt' = Spoilt \cup {a.key}
    BY <1>1, <1>2 DEF Spoilt
  <2>2. \A key, job : key # a.key /\ [key |-> key, job |-> job] \in answered
            => [key |-> key, job |-> job] \in answered'
    BY <1>1
  <2> QED BY <1>1, <1>2, <2>1, <2>2 DEF KeysInv, OneAnswer
<1> QED BY <1>3, <1>4, <1>5, <1>6 DEF KeysInv

LEMMA IdleKeepsKeys ==
    ASSUME KeysInv, UNCHANGED <<slot, sent, answered, expired>>
    PROVE  KeysInv'
<1>1. Submissions' = Submissions /\ Spoilt' = Spoilt
  BY DEF Submissions, Spoilt
<1>2. KeysTyped' /\ KeysAreIssued' /\ JobsOfKeys' /\ OneAnswer'
  BY <1>1 DEF KeysInv, KeysTyped, KeysAreIssued, JobsOfKeys, OneAnswer
<1>3. SlotIsLast' /\ KeysFollowForms'
  BY <1>1 DEF KeysInv, SlotIsLast, KeysFollowForms, Unchanged
<1> QED BY <1>2, <1>3 DEF KeysInv

LEMMA StepKeys == KeysInv /\ [KeysNext]_keyVars => KeysInv'
<1> SUFFICES ASSUME KeysInv, [KeysNext]_keyVars PROVE KeysInv'
  OBVIOUS
<1>1. ASSUME NEW p \in Pages, NEW form \in Forms, SubmitForm(p, form) PROVE KeysInv'
  BY <1>1, SubmitKeepsKeys
<1>2. ASSUME NEW p \in Pages, PostOver(p) PROVE KeysInv'
  BY <1>2, IdleKeepsKeys DEF PostOver
<1>3. ASSUME NEW s \in Submissions, LookUpKey(s) PROVE KeysInv'
  BY <1>3, LookUpKeepsKeys
<1>4. ASSUME NEW s \in Submissions, MarkBusy(s) PROVE KeysInv'
  BY <1>4, MarkKeepsKeys
<1>5. ASSUME NEW s \in Submissions, StoreAnswer(s) PROVE KeysInv'
  BY <1>5, StoreKeepsKeys, StoreFailsKeepsKeys
<1>6. ASSUME NEW s \in Submissions, PushJob(s) PROVE KeysInv'
  BY <1>6, PushKeepsKeys
<1>7. ASSUME NEW a \in answered, AnswerExpires(a) PROVE KeysInv'
  BY <1>7, ExpiryKeepsKeys
<1>8. CASE UNCHANGED keyVars
  BY <1>8, IdleKeepsKeys DEF keyVars
<1> QED BY <1>1, <1>2, <1>3, <1>4, <1>5, <1>6, <1>7, <1>8 DEF KeysNext

LEMMA KeysInvImplies == KeysInv => JobsFollowForms
<1> SUFFICES ASSUME KeysInv, NEW r \in Submissions, NEW s \in Submissions,
                    r < s, sent[r].page = sent[s].page,
                    sent[r].at = "accepted", sent[s].at = "accepted"
             PROVE  IF Unchanged(r, s)
                    THEN sent[r].job = sent[s].job \/ Raced(sent[s].key) \/ sent[s].key \in expired
                    ELSE sent[r].job # sent[s].job
  BY DEF JobsFollowForms
<1>1. sent[r].key = sent[s].key <=> Unchanged(r, s)
  BY DEF KeysInv, KeysFollowForms
<1>2. CASE ~Unchanged(r, s)
  BY <1>1, <1>2 DEF KeysInv, JobsOfKeys
<1>3. CASE Unchanged(r, s)
  <2>1. sent[s].key \in Spoilt => Raced(sent[s].key) \/ sent[s].key \in expired
    BY DEF Spoilt, Raced
  <2>2. CASE sent[s].key \notin Spoilt
    <3> DEFINE a == [key |-> sent[r].key, job |-> sent[r].job]
               b == [key |-> sent[s].key, job |-> sent[s].job]
    <3>1. a \in answered /\ b \in answered
      BY <1>1, <1>3, <2>2 DEF KeysInv, OneAnswer
    <3>2. a = b
      BY <1>1, <1>3, <3>1 DEF KeysInv, JobsOfKeys
    <3> QED BY <3>2, <1>3
  <2> QED BY <2>1, <2>2, <1>3
<1> QED BY <1>2, <1>3

\* Two submissions of an unchanged form get one job and those of two forms two, for
\* every number of pages, forms and submissions, unless their requests raced or the
\* answer of the first one expired.
THEOREM KeysFollowTheForm == KeysSpec => []JobsFollowForms
<1>1. KeysSpec => []KeysInv
  BY InitKeys, StepKeys, PTL DEF KeysSpec
<1> QED BY <1>1, KeysInvImplies, PTL
=============================================================================
