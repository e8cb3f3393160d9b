------------------------------ MODULE UserPages ------------------------------
(***************************************************************************)
(* Accounts: their list (ui/src/pages/users.tsx), one with the routes it   *)
(* may call (user_id.tsx), and who answers for a line                      *)
(* (line_responsibles.tsx).  A route is a sequence of path segments.       *)
(***************************************************************************)
EXTENDS Backend, SequencesExt

CONSTANTS None, Person, Line,
          Route            \* the permissions there are

VARIABLE ui

(***************************************************************************)
(* The sections in which the permissions are shown                         *)
(***************************************************************************)
Group(under, just) == [under |-> under, just |-> just]

PERMISSION_GROUPS ==
    <<Group({<<"user">>}, {}),
      Group({<<"serial">>}, {}),
      Group({<<"lab">>}, {}),
      Group({<<"tech", "models">>, <<"tech", "gscode">>}, {}),
      Group({<<"tech", "printers">>, <<"tech", "label-templates">>, <<"tech", "brands">>,
             <<"tech", "brand-logos">>}, {<<"tech", "lines", "add_gp_component">>}),
      Group({<<"production", "components">>, <<"production", "line_responsibles">>,
             <<"production", "consumption-norm">>}, {}),
      Group({<<"production", "plan">>, <<"production", "shifts">>},
            {<<"production", "info">>, <<"production", "report", "xlsx">>}),
      Group({<<"lines">>}, {}),
      Group({<<"ware">>}, {}),
      Group({<<"writeoff">>}, {})>>

Match(g, route) == route \in g.just \/ \E p \in g.under : IsPrefix(p, route)

(* The sections that are not empty, and one for the routes of none.        *)
groupPermissions(items) ==
    LET matched == [k \in DOMAIN PERMISSION_GROUPS |-> {r \in items : Match(PERMISSION_GROUPS[k], r)}]
        other   == items \ UNION ToSet(matched)
    IN SelectSeq(matched \o <<other>>, LAMBDA group : group # {})

(***************************************************************************)
(* The pages                                                               *)
(***************************************************************************)
FreshUsers == [which |-> "users", users |-> {}, open |-> FALSE]
FreshUser  == [which |-> "user", loaded |-> FALSE, granted |-> {}, permissionFilter |-> "all",
               passwords |-> FALSE, passwordOpen |-> FALSE, deleteOpen |-> FALSE,
               saving |-> FALSE, togglingRouteId |-> None]
FreshResponsibles == [which |-> "responsibles", items |-> {}, lines |-> {}, users |-> {},
                      dialogOpen |-> FALSE, selectedUserId |-> None, selectedLineIds |-> {},
                      saving |-> FALSE]

On(p) == ui.which = p

PermissionFilter == {"all", "granted", "denied"}

TypeOK ==
    \/ On("users") /\ ui.users \subseteq Person /\ ui.open \in BOOLEAN
    \/ /\ On("user") /\ ui.granted \subseteq Route /\ ui.permissionFilter \in PermissionFilter
       /\ ui.togglingRouteId = None \/ ui.togglingRouteId \in Route
       /\ {ui.loaded, ui.passwords, ui.passwordOpen, ui.deleteOpen, ui.saving} \subseteq BOOLEAN
    \/ /\ On("responsibles") /\ ui.items \subseteq Person \X Line
       /\ ui.lines \subseteq Line /\ ui.selectedLineIds \subseteq Line
       /\ ui.users \subseteq Person /\ ui.selectedUserId \in Person \cup {None}
       /\ {ui.dialogOpen, ui.saving} \subseteq BOOLEAN

(***************************************************************************)
(* The accounts                                                            *)
(***************************************************************************)
MountUsers == ui' = FreshUsers /\ net' = <<Call("users", None)>>

fetchUsers(i) ==
    /\ On("users") /\ Ends(i, "users")
    /\ \E us \in SUBSET Person : ui' \in {ui, [ui EXCEPT !.users = us]}

setOpen == ui' = [ui EXCEPT !.open = ~@] /\ UNCHANGED net

(* Nothing keeps the button from being pressed again: what is typed stays  *)
(* in the inputs until the dialog is closed.                               *)
addUser == ui.open /\ Post("create", None) /\ UNCHANGED ui

UserAdded(i) ==
    \/ Ends(i, "create") /\ UNCHANGED ui
    \/ Answered(i, "create", <<Call("users", None)>>) /\ ui' = [ui EXCEPT !.open = FALSE]

(***************************************************************************)
(* One account                                                             *)
(***************************************************************************)
getUser == <<Call("user", None)>>

MountUser == ui' = FreshUser /\ net' = getUser

(* The answer replaces the names that are typed and the permissions.       *)
getUserData(i) ==
    /\ Ends(i, "user")
    /\ \E granted \in SUBSET Route :
          ui' \in {ui, [ui EXCEPT !.loaded = TRUE, !.granted = granted]}

Dialog == ui.passwordOpen \/ ui.deleteOpen

saveChanges ==
    /\ ~ui.saving
    /\ Post("save", None) /\ ui' = [ui EXCEPT !.saving = TRUE]

Saved(i) ==
    /\ On("user")
    /\ Ends(i, "save") \/ Answered(i, "save", getUser)
    /\ ui' = [ui EXCEPT !.saving = FALSE]

(* Two passwords that are equal and long enough, or not; they stay typed   *)
(* when the dialog is closed.                                              *)
PasswordDialog ==
    /\ ui.passwordOpen /\ UNCHANGED net
    /\ \/ \E agree \in BOOLEAN : ui' = [ui EXCEPT !.passwords = agree]
       \/ ui' = [ui EXCEPT !.passwordOpen = FALSE]

changePassword ==
    /\ ui.passwordOpen /\ ui.passwords
    /\ Post("password", None) /\ UNCHANGED ui

PasswordChanged(i) ==
    /\ Ends(i, "password")
    /\ ui' \in {ui, [ui EXCEPT !.passwords = FALSE, !.passwordOpen = FALSE]}

DeleteDialog ==
    /\ ui.deleteOpen
    /\ ui' = [ui EXCEPT !.deleteOpen = FALSE] /\ UNCHANGED net

(* Once it is deleted the page goes to the list.                           *)
deleteUser == ui.deleteOpen /\ Post("delete", None) /\ UNCHANGED ui
UserDeleted(i) == Ends(i, "delete") /\ UNCHANGED ui

AccountPanel ==
    \/ saveChanges
    \/ /\ ui' \in {[ui EXCEPT !.passwordOpen = TRUE], [ui EXCEPT !.deleteOpen = TRUE]}
       /\ UNCHANGED net

permissions == IF ui.loaded THEN Route ELSE {}

(* What any search leaves of the permissions is a part of these.           *)
filteredPermissions ==
    CASE ui.permissionFilter = "granted" -> permissions \cap ui.granted
      [] ui.permissionFilter = "denied"  -> permissions \ ui.granted
      [] OTHER                           -> permissions

setPermissionFilter ==
    \E f \in PermissionFilter : ui' = [ui EXCEPT !.permissionFilter = f] /\ UNCHANGED net

(* The row that was pressed last is the one that cannot be pressed.        *)
changePermission(r) ==
    /\ r \in filteredPermissions /\ ui.togglingRouteId # r
    /\ Post("permission", [route |-> r, status |-> r \notin ui.granted])
    /\ ui' = [ui EXCEPT !.togglingRouteId = r]

PermissionChanged(i) ==
    /\ Ends(i, "permission")
    /\ LET s == [ui EXCEPT !.togglingRouteId = None]
           r == net[i].arg.route
       IN ui' \in {s, [s EXCEPT !.granted = IF net[i].arg.status THEN @ \cup {r} ELSE @ \ {r}]}

PermissionList ==
    \E k \in DOMAIN groupPermissions(filteredPermissions) :
       \E r \in groupPermissions(filteredPermissions)[k] : changePermission(r)

(***************************************************************************)
(* Who answers for a line                                                  *)
(***************************************************************************)
MountResponsibles ==
    ui' = FreshResponsibles /\ net' = <<Call("items", None), Call("lines", None), Call("users", None)>>

OnResponsibles == On("responsibles")

loadItems(i) ==
    /\ Ends(i, "items")
    /\ \E pairs \in SUBSET (Person \X Line) : ui' \in {ui, [ui EXCEPT !.items = pairs]}

loadLines(i) == Ends(i, "lines") /\ \E ls \in {ui.lines, Line} : ui' = [ui EXCEPT !.lines = ls]

loadUsers(i) ==
    /\ OnResponsibles /\ Ends(i, "users")
    /\ \E us \in {ui.users, Person} : ui' = [ui EXCEPT !.users = us]

openDialog ==
    /\ ui' = [ui EXCEPT !.selectedUserId = None, !.selectedLineIds = {}, !.dialogOpen = TRUE]
    /\ UNCHANGED net

(* The lines that were ticked stay ticked for another user.                *)
selectUser ==
    \E u \in ui.users : ui' = [ui EXCEPT !.selectedUserId = u] /\ UNCHANGED net

toggleLine ==
    /\ ui.selectedUserId # None /\ UNCHANGED net
    /\ \E l \in ui.lines :
          /\ <<ui.selectedUserId, l>> \notin ui.items
          /\ ui' = [ui EXCEPT !.selectedLineIds = SymDiff(@, {l})]

saveAssignment ==
    /\ ~ui.saving /\ ui.selectedUserId # None /\ ui.selectedLineIds # {}
    /\ Post("assign", ui.selectedLineIds) /\ ui' = [ui EXCEPT !.saving = TRUE]

Assigned(i) ==
    \/ Ends(i, "assign") /\ ui' = [ui EXCEPT !.saving = FALSE]
    \/ /\ Answered(i, "assign", <<Call("items", None)>>)
       /\ ui' = [ui EXCEPT !.saving = FALSE, !.dialogOpen = FALSE]

deleteItem == \E p \in ui.items : Post("remove", p) /\ UNCHANGED ui
ItemDeleted(i) ==
    /\ Ends(i, "remove") \/ Answered(i, "remove", <<Call("items", None)>>)
    /\ UNCHANGED ui

AssignmentDialog ==
    \/ selectUser \/ toggleLine \/ saveAssignment
    \/ ui' = [ui EXCEPT !.dialogOpen = FALSE] /\ UNCHANGED net

Next ==
    \/ On("users") /\ (setOpen \/ addUser)
    \/ On("user") /\ ~Dialog /\ (AccountPanel \/ setPermissionFilter \/ PermissionList)
    \/ On("user") /\ (PasswordDialog \/ changePassword \/ DeleteDialog \/ deleteUser)
    \/ OnResponsibles /\ ui.dialogOpen /\ AssignmentDialog
    \/ OnResponsibles /\ ~ui.dialogOpen /\ (openDialog \/ deleteItem)
    \/ \E i \in DOMAIN net :
          \/ fetchUsers(i) \/ UserAdded(i) \/ getUserData(i) \/ Saved(i) \/ PasswordChanged(i)
          \/ UserDeleted(i) \/ PermissionChanged(i) \/ loadItems(i) \/ loadLines(i)
          \/ loadUsers(i) \/ Assigned(i) \/ ItemDeleted(i)

SpinnersEnd ==
    /\ ~On("users") /\ ui.saving => OnTheWay("save") \/ OnTheWay("assign")
    /\ On("user") /\ ui.togglingRouteId # None =>
          \E i \in DOMAIN net : net[i].op = "permission" /\ net[i].arg.route = ui.togglingRouteId

OneCallPerButton == AtMostOne({"save", "assign"})

(* The sections show every permission the filter leaves, each in one of    *)
(* them, whatever routes the server has.                                   *)
SummaryAddsUp ==
    On("user") =>
       LET groups == groupPermissions(filteredPermissions)
       IN /\ UNION ToSet(groups) = filteredPermissions
          /\ \A j, k \in DOMAIN groups : j # k => groups[j] \cap groups[k] = {}
=============================================================================
