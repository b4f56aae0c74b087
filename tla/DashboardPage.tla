---------------------------- MODULE DashboardPage ---------------------------
(***************************************************************************)
(* The operator's page of the local edition (assets/dashboard.js,          *)
(* dashboard-mail.js, dashboard-api.js, dashboard-state.js): its mirror of *)
(* the inventory, the poll that renews it, the requests of the operator,   *)
(* the remark she is typing and the messages it keeps for a minute.        *)
(*                                                                         *)
(* Requests are served and answered in any order.  A row is its remark;    *)
(* the rest of it changes without a guard of the page reading it.  Every   *)
(* answer renders the list anew, and may move rows to another tab or page. *)
(* Removing the focused input fires no blur event.                         *)
(***************************************************************************)
EXTENDS Naturals, FiniteSets

CONSTANTS
    Rows,           \* inventory rows
    Remarks,        \* texts of a remark
    Gone,           \* what a row is that does not exist
    MaxActs,        \* bound on what operator and others do, and on failures
    MaxInFlight     \* bound on the requests under way

ASSUME PageAssumption == Gone \notin Remarks /\ MaxActs \in Nat /\ MaxInFlight \in Nat

VARIABLES
    rows,           \* the server's inventory
    mirror,         \* state.accounts
    requests,       \* requests under way
    refreshing,     \* refreshingBackground
    draft,          \* editingRemarkId, editingRemarkDraft
    input,          \* the input on the screen, with its text
    cache,          \* messageCache
    unsaved,        \* history: the text typed last, unless committed or cancelled
    acts            \* history: how much has been done

pageVars == <<rows, mirror, requests, refreshing, draft, input, cache, unsaved, acts>>

Inventories == [Rows -> Remarks \cup {Gone}]
Edits == [row : Rows, text : Remarks]
NoEdit == [row |-> Gone, text |-> Gone]
WholeList == {"status", "poll", "load", "batch", "sync", "generate", "persist", "release"}
OneRow == {"patch", "check", "purge"}
PollKinds == {"status", "poll"}
OtherKinds == (WholeList \cup OneRow) \ PollKinds

(* A copy is "old" that the server took before the page last discarded all. *)
Copies == {"none", "kept", "expired", "old"}

Requests == [kind : WholeList \cup OneRow, row : Rows \cup {Gone},
             remark : Remarks \cup {Gone}, served : BOOLEAN, old : BOOLEAN,
             answer : Inventories]

PageTypeOK ==
    /\ rows \in Inventories /\ mirror \in Inventories
    /\ requests \subseteq Requests
    /\ refreshing \in BOOLEAN
    /\ draft \in Edits \cup {NoEdit} /\ input \in Edits \cup {NoEdit}
    /\ unsaved \in Edits \cup {NoEdit}
    /\ cache \in [Rows -> Copies]
    /\ acts \in 0..MaxActs

Nothing == [r \in Rows |-> Gone]

PageInit ==
    /\ \E t \in Remarks : rows = [r \in Rows |-> t] /\ mirror = rows
    /\ requests = {} /\ refreshing = FALSE
    /\ draft = NoEdit /\ input = NoEdit /\ unsaved = NoEdit
    /\ cache = [r \in Rows |-> "none"]
    /\ acts = 0

Acts == acts < MaxActs /\ acts' = acts + 1

Request(kind, row, remark) == [kind |-> kind, row |-> row, remark |-> remark,
                               served |-> FALSE, old |-> FALSE, answer |-> Nothing]
Ask(kind) == Request(kind, Gone, Gone)

UnderWay(kinds) == \E q \in requests : q.kind \in kinds
Room == Cardinality(requests) < MaxInFlight

-----------------------------------------------------------------------------
(* The list and its remark.                                                 *)

(* captureRemarkDraft: what the input holds when it is about to go.         *)
Captured == IF draft # NoEdit /\ input # NoEdit /\ input.row = draft.row THEN input ELSE draft

buildRow_Stored(edit, list) == [edit EXCEPT !.text = list[edit.row]]      \* mutant

(* The input of a row under edit is built with the draft.                   *)
buildRow(edit, list) == edit

(* render: the edited row may be on another tab or page now.                *)
InView(edit, list) ==
    {NoEdit} \cup IF edit = NoEdit \/ list[edit.row] = Gone THEN {} ELSE {buildRow(edit, list)}

rendered(edit, list) == draft' = edit /\ input' \in InView(edit, list)

beginRemarkEditing ==
    /\ Acts
    /\ input = NoEdit
    /\ \E r \in Rows :
        /\ mirror[r] # Gone
        /\ unsaved' = [row |-> r, text |-> mirror[r]]
        /\ rendered([row |-> r, text |-> mirror[r]], mirror)
    /\ UNCHANGED <<rows, mirror, requests, refreshing, cache>>

(* A keystroke: rememberRemarkDraft.  An input whose text is being saved is *)
(* still there to type in.                                                  *)
Type ==
    /\ input # NoEdit
    /\ \E t \in Remarks :
        /\ input' = [input EXCEPT !.text = t]
        /\ unsaved' = input'
        /\ draft' = IF draft = NoEdit THEN NoEdit ELSE input'
    /\ UNCHANGED <<rows, mirror, requests, refreshing, cache, acts>>

(* Escape.                                                                  *)
endRemarkEditing ==
    /\ input # NoEdit
    /\ unsaved' = NoEdit
    /\ rendered(NoEdit, mirror)
    /\ UNCHANGED <<rows, mirror, requests, refreshing, cache, acts>>

(* Leaving the input, or Enter, commits a changed remark; the input stays   *)
(* until the answer renders the list.                                       *)
Blur ==
    /\ input # NoEdit
    /\ unsaved' = NoEdit
    /\ IF mirror[input.row] \in {Gone, input.text}
       THEN rendered(NoEdit, mirror) /\ UNCHANGED <<requests, acts>>
       ELSE /\ Acts /\ Room
            /\ requests' = requests \cup {Request("patch", input.row, input.text)}
            /\ draft' = NoEdit /\ UNCHANGED input
    /\ UNCHANGED <<rows, mirror, refreshing, cache>>

-----------------------------------------------------------------------------
(* What the operator asks for.                                              *)

Send(q) == Acts /\ Room /\ requests' = requests \cup {q}

(* Move, restore, mark as read, delete; all of the unread rows at once.     *)
patchInventoryItem ==
    /\ \E r \in Rows : mirror[r] # Gone /\ Send(Request("patch", r, Gone))
    /\ UNCHANGED <<rows, mirror, refreshing, draft, input, cache, unsaved>>

(* Receive, or read without a copy; one at a time for a row.                *)
checkInventoryMail ==
    /\ \E r \in Rows :
        /\ mirror[r] # Gone
        /\ \A q \in requests : ~(q.kind = "check" /\ q.row = r)
        /\ Send(Request("check", r, Gone))
    /\ UNCHANGED <<rows, mirror, refreshing, draft, input, cache, unsaved>>

(* Read with a copy: it is shown, and the row marked as read.               *)
cachedMessage ==
    /\ \E r \in Rows :
        /\ mirror[r] # Gone /\ cache[r] \in {"kept", "old"}
        /\ Send(Request("patch", r, Gone))
    /\ UNCHANGED <<rows, mirror, refreshing, draft, input, cache, unsaved>>

(* A minute after it was kept.                                              *)
Expire ==
    /\ \E r \in Rows :
        /\ cache[r] \in {"kept", "old"}
        /\ cache' = [cache EXCEPT ![r] = "expired"]
    /\ UNCHANGED <<rows, mirror, requests, refreshing, draft, input, unsaved, acts>>

purgeAccount ==
    /\ \E r \in Rows :
        /\ mirror[r] # Gone
        /\ cache' = [cache EXCEPT ![r] = "none"]
        /\ Send(Request("purge", r, Gone))
    /\ UNCHANGED <<rows, mirror, refreshing, draft, input, unsaved>>

runMailBatch ==
    /\ ~UnderWay({"batch"})
    /\ Send(Ask("batch"))
    /\ UNCHANGED <<rows, mirror, refreshing, draft, input, cache, unsaved>>

createIcloudAddress ==
    /\ ~UnderWay({"generate", "persist"})
    /\ Send(Ask("generate"))
    /\ UNCHANGED <<rows, mirror, refreshing, draft, input, cache, unsaved>>

syncIcloudAccountsFromApple ==
    /\ Send(Ask("sync"))
    /\ UNCHANGED <<rows, mirror, refreshing, draft, input, cache, unsaved>>

releaseClaim ==
    /\ Send(Ask("release"))
    /\ UNCHANGED <<rows, mirror, refreshing, draft, input, cache, unsaved>>

(* Every thirty seconds, and when the page becomes visible.                 *)
refreshBackgroundStatus ==
    /\ ~refreshing
    /\ refreshing' = TRUE
    /\ requests' = requests \cup {Ask("status")}
    /\ UNCHANGED <<rows, mirror, draft, input, cache, unsaved, acts>>

-----------------------------------------------------------------------------
(* The server.                                                              *)

(* Jobs and other pages.                                                    *)
OthersChange ==
    /\ Acts
    /\ \E r \in Rows, t \in Remarks \cup {Gone} : rows' = [rows EXCEPT ![r] = t]
    /\ UNCHANGED <<mirror, requests, refreshing, draft, input, cache, unsaved>>

Handles(q) ==
    CASE q.kind = "patch" /\ rows[q.row] # Gone /\ q.remark # Gone ->
            rows' = [rows EXCEPT ![q.row] = q.remark]
      [] q.kind = "purge" -> rows' = [rows EXCEPT ![q.row] = Gone]
      [] q.kind \in {"sync", "persist"} ->
            \E new \in SUBSET {r \in Rows : rows[r] = Gone}, t \in Remarks :
                rows' = [r \in Rows |-> IF r \in new THEN t ELSE rows[r]]
      [] OTHER -> UNCHANGED rows

Serve(kinds) ==
    /\ \E q \in requests :
        /\ q.kind \in kinds /\ ~q.served
        /\ Handles(q)
        /\ requests' = (requests \ {q}) \cup {[q EXCEPT !.served = TRUE, !.answer = rows']}
    /\ UNCHANGED <<mirror, refreshing, draft, input, cache, unsaved, acts>>

-----------------------------------------------------------------------------
(* The answers.                                                             *)

(* invalidateMessageCache: what checks under way have read is old, too.     *)
Discarded(others) ==
    /\ cache' = [r \in Rows |-> "none"]
    /\ requests' = {[p EXCEPT !.old = p.served /\ p.kind = "check"] : p \in others}

(* The answer of the status, or of a generation, may start another request. *)
Polls(others) ==
    IF refreshing THEN requests' = others /\ UNCHANGED refreshing
    ELSE requests' = others \cup {Ask("status")} /\ refreshing' = TRUE

LoadsInventory == draft = NoEdit /\ ~UnderWay({"batch", "generate", "persist"})

StatusAnswered(q) ==
    /\ q.kind = "status"
    /\ IF LoadsInventory
       THEN requests' = (requests \ {q}) \cup {Ask("poll")} /\ UNCHANGED refreshing
       ELSE requests' = requests \ {q} /\ refreshing' = FALSE
    /\ UNCHANGED <<mirror, draft, input, cache>>

(* loadServerInventory and the answers that hold the whole list.            *)
ListAnswered(q) ==
    /\ q.kind \in {"poll", "load", "batch", "sync"}
    /\ mirror' = q.answer
    /\ Discarded(requests \ {q})
    /\ refreshing' = (refreshing /\ q.kind # "poll")
    /\ rendered(Captured, q.answer)

GenerateAnswered(q) ==
    /\ q.kind = "generate"
    /\ requests' = (requests \ {q}) \cup {Ask("persist")}
    /\ UNCHANGED <<mirror, refreshing, draft, input, cache>>

(* persistGeneratedAddresses, and the poll after it.                        *)
PersistAnswered(q) ==
    /\ q.kind = "persist"
    /\ mirror' = q.answer
    /\ cache' = [r \in Rows |-> "none"]
    /\ Polls({[p EXCEPT !.old = p.served /\ p.kind = "check"] : p \in requests \ {q}})
    /\ rendered(Captured, q.answer)

PurgeAnswered(q) ==
    /\ q.kind = "purge"
    /\ mirror' = q.answer
    /\ requests' = requests \ {q}
    /\ rendered(Captured, q.answer)
    /\ UNCHANGED <<refreshing, cache>>

ReleaseAnswered(q) ==
    /\ q.kind = "release"
    /\ Discarded((requests \ {q}) \cup {Ask("load")})
    /\ UNCHANGED <<mirror, refreshing, draft, input>>

(* replaceInventoryItem, unless the row is gone on either side; a check     *)
(* that finds it gone removes it (removeInventoryItem).                     *)
Replaced(q) ==
    IF mirror[q.row] # Gone /\ (q.answer[q.row] # Gone \/ q.kind = "check")
    THEN [mirror EXCEPT ![q.row] = q.answer[q.row]] ELSE mirror

RowAnswered(q) ==
    /\ q.kind \in {"patch", "check"}
    /\ mirror' = Replaced(q)
    /\ requests' = requests \ {q}
    /\ \/ q.kind = "check" /\ q.answer[q.row] # Gone
          /\ cache' = [r \in Rows |->      \* cacheMessage drops what has expired
                IF r = q.row THEN (IF q.old THEN "old" ELSE "kept")
                ELSE IF cache[r] = "expired" THEN "none" ELSE cache[r]]
       \/ q.kind = "check" /\ cache' = [cache EXCEPT ![q.row] = "none"]
       \/ q.kind = "patch" /\ UNCHANGED cache
    /\ rendered(Captured, Replaced(q))
    /\ UNCHANGED refreshing

Handled(q) ==
    \/ StatusAnswered(q) \/ ListAnswered(q) \/ GenerateAnswered(q)
    \/ PersistAnswered(q) \/ PurgeAnswered(q) \/ ReleaseAnswered(q) \/ RowAnswered(q)

Answer(kinds) ==
    /\ \E q \in requests : q.kind \in kinds /\ q.served /\ Handled(q)
    /\ UNCHANGED <<rows, unsaved, acts>>

FailedPoll_Stuck(q) == UNCHANGED refreshing         \* mutant

(* The poll gives up and leaves the next one free to start.                 *)
FailedPoll(q) == refreshing' = (refreshing /\ q.kind \notin {"status", "poll"})

(* A request is refused, or its answer lost.                                *)
Fail ==
    /\ Acts
    /\ \E q \in requests :
        /\ IF q.kind \in {"generate", "persist"} THEN Polls(requests \ {q})
           ELSE requests' = requests \ {q} /\ FailedPoll(q)
        /\ IF q.kind \in {"patch", "check"} THEN rendered(Captured, mirror)
           ELSE UNCHANGED <<draft, input>>
    /\ UNCHANGED <<rows, mirror, cache, unsaved>>

Operator ==
    \/ beginRemarkEditing \/ Type \/ endRemarkEditing \/ Blur
    \/ patchInventoryItem \/ checkInventoryMail \/ cachedMessage \/ purgeAccount
    \/ runMailBatch \/ createIcloudAddress \/ syncIcloudAccountsFromApple \/ releaseClaim

PageNext ==
    \/ Operator \/ Expire \/ refreshBackgroundStatus
    \/ OthersChange \/ Fail
    \/ \E kinds \in {PollKinds, OtherKinds} : Serve(kinds) \/ Answer(kinds)

PageSpec == PageInit /\ [][PageNext]_pageVars

(* The timer of the poll fires, and requests end.                           *)
PageFairness ==
    /\ WF_pageVars(refreshBackgroundStatus)
    /\ \A kinds \in {PollKinds, OtherKinds} :
        WF_pageVars(Serve(kinds)) /\ WF_pageVars(Answer(kinds))

-----------------------------------------------------------------------------
(* "Remark editing survives a re-render": while an edit is open, its draft  *)
(* and the input on the screen hold what was typed last, whatever answers   *)
(* render the list, move the row out of sight or back meanwhile             *)
(* (captureRemarkDraft, buildRow, renderList).                              *)
RemarkSurvives ==
    draft # NoEdit => draft = unsaved /\ input \in {draft, NoEdit}

(* Whatever answers overtook one another or failed, once nothing changes    *)
(* any more and no edit is left open the page comes to show what the server *)
(* has (refreshBackgroundStatus, loadServerInventory).                      *)
PageCatchesUp == <>[](draft = NoEdit) => <>[](mirror = rows)

(* The comment above captureRemarkDraft in full: typed text is on the       *)
(* screen, in the draft, on its way to the server or cancelled, and never   *)
(* "disappears with no error".                                              *)
TypedTextIsKept == unsaved # NoEdit => unsaved \in {draft, input}

(* The comment in releaseClaim: after a release or a reload, no copy is     *)
(* kept of what the server read before (invalidateMessageCache).            *)
NoOldCopies == \A r \in Rows : cache[r] # "old"

=============================================================================
