---------------------------- MODULE TrackingScreen ----------------------------
(***************************************************************************)
(* The page of the tracking lists: rows that are loaded once and then      *)
(* edited in place with what each answer says, one panel with the members  *)
(* of a list, and two confirm dialogs.  Clicks, the server's work and the  *)
(* arrival of the answers interleave; answers arrive in any order.  The    *)
(* server is what Tracking promises, for one owner.                        *)
(***************************************************************************)
EXTENDS Integers, FiniteSets

CONSTANTS
  Lists, Names, Keys,
  Existing,      \* the lists that are there at the start, with all Keys as members
  NoList, NoName,
  ListLimit,
  PageFaults,    \* subset of {"error", "offline"}: the server's 5xx, a fetch that rejects
  MaxRequests    \* requests of the page and changes made elsewhere

ASSUME ScreenAssumption ==
  /\ Existing \subseteq Lists /\ Lists # {} /\ Names # {} /\ Keys # {}
  /\ NoList \notin Lists /\ NoName \notin Names /\ MaxRequests \in Nat \ {0}

VARIABLES
  server,        \* per list, its status, name and members
  listRows, loading, failed,                            \* useTrackingLists
  renaming, selected, members, membersLoading, detailFailed, deleting, removing, error,   \* the view
  requests, sent,
  filledBy,      \* the list whose answer filled the panel
  raced,         \* a load of the lists and a change of one were ever under way together
  overtaken,     \* so were two requests about members
  altered        \* lists changed elsewhere, or by a request whose answer was lost

listVars     == <<listRows, loading, failed>>
panelVars    == <<selected, members, membersLoading, detailFailed, filledBy>>
dialogVars   == <<renaming, deleting, removing>>
ghostVars    == <<raced, overtaken, altered>>
trackingVars == <<server, listVars, panelVars, dialogVars, error, requests, sent, ghostVars>>

Guarded   == {"create", "rename", "delete", "remove"}     \* useInFlightGuard
OfLists   == {"create", "rename", "delete"}
OfMembers == {"detail", "remove"}
Prompts   == {"none", "NOT_FOUND", "CAP_REACHED", "NAME_TAKEN", "GENERIC"}
NoTarget  == [list |-> NoList]
Refusal(status, limit) == [status |-> status, limit |-> limit, rows |-> {}, members |-> {}]
Waiting   == Refusal(0, FALSE)

\* A row on the page, and the request whose answer put it there: a list may be there twice.
ListRow    == [list : Lists, name : Names, from : 1..MaxRequests]
ListState  == [status : {"unborn", "live", "gone"}, name : Names \cup {NoName}, members : SUBSET Keys]
PageAnswer == [status : {0, 200, 201, 404, 409, 500}, limit : BOOLEAN, rows : SUBSET ListRow, members : SUBSET Keys]
PageRequest == [id : 1..MaxRequests, op : Guarded \cup {"lists", "detail"}, list : Lists, name : Names, key : Keys,
                open : Lists \cup {NoList}, answer : PageAnswer]

NewRequest(id, op, l, n, k) == [id |-> id, op |-> op, list |-> l, name |-> n, key |-> k, open |-> NoList, answer |-> Waiting]
AnyOf(S)  == CHOOSE x \in S : TRUE

ServerLists == {l \in Lists : server[l].status = "live"}
Shown       == {row.list : row \in listRows}
Busy(op)    == \E r \in requests : r.op = op

ScreenTypeOK ==
  /\ server \in [Lists -> ListState] /\ \A l \in Lists : server[l].status = "live" => server[l].name \in Names
  /\ requests \subseteq PageRequest /\ listRows \subseteq ListRow
  /\ loading \in BOOLEAN /\ failed \in BOOLEAN /\ membersLoading \in BOOLEAN /\ detailFailed \in BOOLEAN
  /\ renaming \in Lists \cup {NoList} /\ selected \in Lists \cup {NoList} /\ deleting \in Lists \cup {NoList}
  /\ filledBy \in Lists \cup {NoList} /\ members \subseteq Keys /\ raced \in BOOLEAN /\ overtaken \in BOOLEAN
  /\ removing \in {NoTarget} \cup [list : Lists, key : Keys, of : Lists \cup {NoList}]
  /\ error \in Prompts /\ altered \subseteq Lists /\ sent \in 1..MaxRequests
  \* A trigger that was clicked twice has one request under way.
  /\ \A r, s \in requests : r.id = s.id \/ (r.op = s.op /\ r.op \in Guarded) => r = s

ScreenInit ==
  /\ \E name \in [Existing -> Names] :
       /\ \A l, m \in Existing : l # m => name[l] # name[m]
       /\ server = [l \in Lists |-> IF l \in Existing THEN [status |-> "live", name |-> name[l], members |-> Keys]
                                    ELSE [status |-> "unborn", name |-> NoName, members |-> {}]]
  /\ listRows = {} /\ loading = TRUE /\ failed = FALSE
  /\ renaming = NoList /\ selected = NoList /\ members = {} /\ membersLoading = FALSE /\ detailFailed = FALSE
  /\ deleting = NoList /\ removing = NoTarget /\ error = "none"
  /\ requests = {NewRequest(1, "lists", AnyOf(Lists), AnyOf(Names), AnyOf(Keys))} /\ sent = 1
  /\ filledBy = NoList /\ raced = FALSE /\ overtaken = FALSE /\ altered = {}

-----------------------------------------------------------------------------
(* Clicks.  A dialog covers the page. *)

NoDialog == deleting = NoList /\ removing = NoTarget

\* The handler runs up to its await, unless the trigger's last request is still under way.
SendUnguarded(op, l, n, k) ==
  /\ sent < MaxRequests
  /\ sent' = sent + 1
  /\ requests' = requests \cup {[NewRequest(sent + 1, op, l, n, k) EXCEPT !.open = IF op = "delete" THEN selected ELSE NoList]}
  /\ raced' = (raced \/ (op = "lists" /\ \E q \in OfLists : Busy(q)) \/ (op \in OfLists /\ Busy("lists")))
  /\ overtaken' = (overtaken \/ (op \in OfMembers /\ \E q \in OfMembers : Busy(q)))
  /\ error' = IF op = "lists" THEN error ELSE "none"
  /\ UNCHANGED <<server, altered>>
Send(op, l, n, k) ==
  /\ op \in Guarded => ~Busy(op)
  /\ SendUnguarded(op, l, n, k)

Reload ==
  /\ NoDialog /\ failed
  /\ Send("lists", AnyOf(Lists), AnyOf(Names), AnyOf(Keys))
  /\ loading' = TRUE /\ failed' = FALSE
  /\ UNCHANGED <<listRows, panelVars, dialogVars>>

HandleCreate ==
  /\ NoDialog
  /\ \E n \in Names : Send("create", AnyOf(Lists), n, AnyOf(Keys))
  /\ UNCHANGED <<listVars, panelVars, dialogVars>>

\* The buttons of a row give way to the input while it is renamed.
StartRename(l) ==
  /\ NoDialog /\ l \in Shown /\ renaming # l
  /\ renaming' = l /\ error' = "none"
  /\ UNCHANGED <<server, listVars, panelVars, deleting, removing, requests, sent, ghostVars>>

CancelRename ==
  /\ NoDialog /\ renaming \in Shown
  /\ renaming' = NoList
  /\ UNCHANGED <<server, listVars, panelVars, deleting, removing, error, requests, sent, ghostVars>>

HandleRename ==
  /\ NoDialog /\ renaming \in Shown
  /\ \E n \in Names : Send("rename", renaming, n, AnyOf(Keys))
  /\ UNCHANGED <<listVars, panelVars, dialogVars>>

AskDelete(l) ==
  /\ NoDialog /\ l \in Shown /\ renaming # l
  /\ deleting' = l
  /\ UNCHANGED <<server, listVars, panelVars, renaming, removing, error, requests, sent, ghostVars>>

HandleDeleteList ==
  /\ deleting # NoList
  /\ Send("delete", deleting, AnyOf(Names), AnyOf(Keys))
  /\ UNCHANGED <<listVars, panelVars, dialogVars>>

\* By the row, or by the retry of a panel whose load failed.
SelectList(l) ==
  /\ NoDialog /\ l \in Shown /\ (renaming # l \/ (selected = l /\ detailFailed))
  /\ Send("detail", l, AnyOf(Names), AnyOf(Keys))
  /\ selected' = l /\ members' = {} /\ filledBy' = NoList /\ membersLoading' = TRUE /\ detailFailed' = FALSE
  /\ UNCHANGED <<listVars, dialogVars>>

AskRemove(k) ==
  /\ NoDialog /\ selected \in Shown /\ k \in members
  /\ removing' = [list |-> selected, key |-> k, of |-> filledBy]
  /\ UNCHANGED <<server, listVars, panelVars, renaming, deleting, error, requests, sent, ghostVars>>

HandleRemoveMember ==
  /\ removing # NoTarget
  /\ Send("remove", removing.list, AnyOf(Names), removing.key)
  /\ UNCHANGED <<listVars, panelVars, dialogVars>>

CancelDialog ==
  /\ ~NoDialog
  /\ deleting' = NoList /\ removing' = NoTarget
  /\ UNCHANGED <<server, listVars, panelVars, renaming, error, requests, sent, ghostVars>>

-----------------------------------------------------------------------------
(* The server and the network. *)

Agreed(status) == Refusal(status, FALSE)
Succeeded(r)   == r.answer.status \in {200, 201}

Taken(l, n) == \E m \in ServerLists \ {l} : server[m].name = n
Gone        == [status |-> "gone", name |-> NoName, members |-> {}]

Answered(r, answer) == requests' = (requests \ {r}) \cup {[r EXCEPT !.answer = answer]}

\* What each request reads and writes.
ServeLists(r) ==
  /\ r.op = "lists"
  /\ UNCHANGED server
  /\ Answered(r, [Agreed(200) EXCEPT !.rows = {[list |-> m, name |-> server[m].name, from |-> r.id] : m \in ServerLists}])

ServeCreate(r) ==
  /\ r.op = "create"
  /\ IF Cardinality(ServerLists) >= ListLimit THEN UNCHANGED server /\ Answered(r, Refusal(409, TRUE))
     ELSE IF Taken(NoList, r.name) THEN UNCHANGED server /\ Answered(r, Refusal(409, FALSE))
     ELSE \E m \in Lists :
            /\ server[m].status = "unborn"
            /\ server' = [server EXCEPT ![m] = [status |-> "live", name |-> r.name, members |-> {}]]
            /\ requests' = (requests \ {r}) \cup {[r EXCEPT !.list = m, !.answer = Agreed(201)]}

ServeRename(r) ==
  /\ r.op = "rename"
  /\ IF r.list \notin ServerLists THEN UNCHANGED server /\ Answered(r, Refusal(404, FALSE))
     ELSE IF Taken(r.list, r.name) THEN UNCHANGED server /\ Answered(r, Refusal(409, FALSE))
     ELSE server' = [server EXCEPT ![r.list].name = r.name] /\ Answered(r, Agreed(200))

ServeDelete(r) ==
  /\ r.op = "delete"
  /\ IF r.list \notin ServerLists THEN UNCHANGED server /\ Answered(r, Refusal(404, FALSE))
     ELSE server' = [server EXCEPT ![r.list] = Gone] /\ Answered(r, Agreed(200))

ServeDetail(r) ==
  /\ r.op = "detail"
  /\ UNCHANGED server
  /\ Answered(r, IF r.list \notin ServerLists THEN Refusal(404, FALSE)
                 ELSE [Agreed(200) EXCEPT !.members = server[r.list].members])

ServeRemove(r) ==
  /\ r.op = "remove"
  /\ IF r.list \notin ServerLists \/ r.key \notin server[r.list].members
     THEN UNCHANGED server /\ Answered(r, Refusal(404, FALSE))
     ELSE server' = [server EXCEPT ![r.list].members = @ \ {r.key}] /\ Answered(r, Agreed(200))

Serve(r) ==
  /\ r.answer = Waiting
  /\ ServeLists(r) \/ ServeCreate(r) \/ ServeRename(r) \/ ServeDelete(r) \/ ServeDetail(r) \/ ServeRemove(r)
  /\ UNCHANGED <<listVars, panelVars, dialogVars, error, sent, ghostVars>>

Breaks(r) ==
  /\ "error" \in PageFaults /\ r.answer = Waiting
  /\ Answered(r, Refusal(500, FALSE))
  /\ UNCHANGED <<server, listVars, panelVars, dialogVars, error, sent, ghostVars>>

\* fetch rejects, before or after the server did its work: only the guard's finally runs.
Rejects(r) ==
  /\ "offline" \in PageFaults
  /\ requests' = requests \ {r}
  /\ altered' = IF Succeeded(r) THEN altered \cup {r.list} ELSE altered
  /\ UNCHANGED <<server, listVars, panelVars, dialogVars, error, sent, raced, overtaken>>

\* The same owner on another page, or the job of another one.
Elsewhere(l) ==
  /\ sent < MaxRequests /\ sent' = sent + 1
  /\ l \in ServerLists
  /\ \/ server' = [server EXCEPT ![l] = Gone]
     \/ \E k \in server[l].members : server' = [server EXCEPT ![l].members = @ \ {k}]
  /\ altered' = altered \cup {l}
  /\ UNCHANGED <<listVars, panelVars, dialogVars, error, requests, raced, overtaken>>

-----------------------------------------------------------------------------
(* The rest of each handler, when its answer arrives. *)

Arrived(r) ==
  /\ r.answer # Waiting
  /\ requests' = requests \ {r}
  /\ UNCHANGED <<server, sent, ghostVars>>

TrackingListErrorMessage(status, limit) ==
  CASE status = 404 -> "NOT_FOUND"
    [] status = 409 -> IF limit THEN "CAP_REACHED" ELSE "NAME_TAKEN"
    [] OTHER        -> "GENERIC"
Tell(r) == error' = IF Succeeded(r) THEN error ELSE TrackingListErrorMessage(r.answer.status, r.answer.limit)

ListsArrive(r) ==
  /\ r.op = "lists" /\ Arrived(r)
  /\ loading' = FALSE
  /\ IF Succeeded(r) THEN listRows' = r.answer.rows /\ UNCHANGED failed ELSE failed' = TRUE /\ UNCHANGED listRows
  /\ UNCHANGED <<panelVars, dialogVars, error>>

CreateArrives(r) ==
  /\ r.op = "create" /\ Arrived(r) /\ Tell(r)
  /\ listRows' = IF Succeeded(r) THEN listRows \cup {[list |-> r.list, name |-> r.name, from |-> r.id]} ELSE listRows
  /\ UNCHANGED <<loading, failed, panelVars, dialogVars>>

\* Mutant: the row that is renamed now, and not the one of the request.
RowNow(r)     == renaming
RenamedRow(r) == r.list
Renamed(r)    == {IF row.list = RenamedRow(r) THEN [row EXCEPT !.name = r.name] ELSE row : row \in listRows}

RenameArrives(r) ==
  /\ r.op = "rename" /\ Arrived(r) /\ Tell(r)
  /\ IF Succeeded(r) THEN listRows' = Renamed(r) /\ renaming' = NoList ELSE UNCHANGED <<listRows, renaming>>
  /\ UNCHANGED <<loading, failed, panelVars, deleting, removing>>

\* The handler knows the panel that was open when the delete was confirmed.
DeleteArrives(r) ==
  /\ r.op = "delete" /\ Arrived(r) /\ Tell(r)
  /\ deleting' = NoList
  /\ listRows' = IF Succeeded(r) THEN {row \in listRows : row.list # r.list} ELSE listRows
  /\ IF Succeeded(r) /\ r.open = r.list THEN selected' = NoList /\ members' = {} /\ filledBy' = NoList
     ELSE UNCHANGED <<selected, members, filledBy>>
  /\ UNCHANGED <<loading, failed, membersLoading, detailFailed, renaming, removing>>

\* Whatever list the panel shows by now.
DetailArrives(r) ==
  /\ r.op = "detail" /\ Arrived(r)
  /\ membersLoading' = FALSE
  /\ IF Succeeded(r) THEN members' = r.answer.members /\ filledBy' = r.list /\ UNCHANGED detailFailed
     ELSE detailFailed' = TRUE /\ UNCHANGED <<members, filledBy>>
  /\ UNCHANGED <<listVars, dialogVars, selected, error>>

RemoveArrives(r) ==
  /\ r.op = "remove" /\ Arrived(r) /\ Tell(r)
  /\ removing' = NoTarget
  /\ members' = IF Succeeded(r) THEN members \ {r.key} ELSE members
  /\ UNCHANGED <<listVars, selected, membersLoading, detailFailed, filledBy, renaming, deleting>>

Click ==
  \/ Reload \/ HandleCreate \/ CancelRename \/ HandleRename \/ HandleDeleteList \/ HandleRemoveMember \/ CancelDialog
  \/ \E l \in Lists : StartRename(l) \/ AskDelete(l) \/ SelectList(l)
  \/ \E k \in Keys : AskRemove(k)
Network == \E r \in requests : Serve(r) \/ Breaks(r) \/ Rejects(r)
Arrival ==
  \E r \in requests : ListsArrive(r) \/ CreateArrives(r) \/ RenameArrives(r) \/ DeleteArrives(r) \/ DetailArrives(r) \/ RemoveArrives(r)

ScreenNext == Click \/ Network \/ Arrival \/ \E l \in Lists : Elsewhere(l)
ScreenSpec == ScreenInit /\ [][ScreenNext]_trackingVars

-----------------------------------------------------------------------------
(* Properties *)

\* When nothing is under way each list is shown once, with the name it has.
RowsTellTheServer ==
  requests = {} /\ ~loading /\ ~failed /\ ~raced =>
    /\ \A row, other \in listRows : row.list = other.list => row = other
    /\ Shown \ altered = ServerLists \ altered
    /\ \A row \in listRows : row.list \notin altered => row.name = server[row.list].name

\* The panel under a row shows the members that list has.
PanelTellsTheServer ==
  requests = {} /\ ~overtaken /\ ~membersLoading /\ ~detailFailed /\ selected \in Shown \ altered =>
    members = server[selected].members

(* Editing the rows and the panel in place, without loading them again,      *)
(* keeps them true, however creates, renames, deletes and removals were      *)
(* refused, answered out of order or started while others ran: unless a load *)
(* of the lists met a change of one, or requests about members overtook each *)
(* other, which the page does not guard.                                     *)
PageTellsTheServer == RowsTellTheServer /\ PanelTellsTheServer

(* The member a dialog asks about belongs to the list it will be removed     *)
(* from (TrackingListsView.tsx:300).                                         *)
TargetIsOfItsList == removing # NoTarget => removing.of = removing.list
=============================================================================
