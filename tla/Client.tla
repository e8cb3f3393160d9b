------------------------------- MODULE Client -------------------------------
(***************************************************************************)
(* The browser client: the router shows one page at a time (ui/src/App.tsx)*)
(* and a page has no state but its own, made when it is mounted and gone   *)
(* when it is left.  A page is an instance over the same variables: ui is  *)
(* the state it keeps, net the calls it has on the way, world what its     *)
(* operator does outside the screen.  The answers to the calls of a page   *)
(* that was left change nothing on screen.                                 *)
(***************************************************************************)
EXTENDS Naturals, Sequences

CONSTANTS
    User,          \* accounts that can log in at this terminal
    AgentOwner,    \* the accounts the server lets into the agent pages
    Admin,         \* the accounts whose role is admin
    Nobody,
    MaxAccess,     \* bound on the access calls on the way
    MaxCalls, None,
    Model, Printer, Serial, Line, Product,
    Component, Note, Item, Quantity,
    PlanItem, Day,
    AuxLine,       \* the lines whose write-offs name a component
    MaxRows,       \* bound on the rows of a table
    MaxRequests,   \* bound on the numbered requests of a visit
    MaxElements,   \* bound on the elements made on a label
    LabelWidth, LabelHeight, MinSize, ScaleUp, ScaleDown,   \* of a label
    MaxMove,       \* how far the pointer goes
    TableRowsMax, TableColsMax, TableWidths, MaxTableWidth,   \* of a table
    PageSizes,
    Route,         \* the permissions an account may have
    MaxTasks,      \* bound on the tasks of the agent
    MaxJobs,       \* bound on the approvals and deploys that overlap
    MaxOverlap,    \* MaxCalls of the pages with much state
    Operator       \* the account for which the pages are explored

ASSUME ClientAssumption ==
    /\ AgentOwner \subseteq User /\ Admin \subseteq User /\ Nobody \notin User
    /\ Operator \in User /\ None \notin User \cup Line
    /\ MaxAccess \in Nat \ {0}
    /\ Quantity \subseteq Nat \ {0} /\ PageSizes \subseteq Nat \ {0} /\ PageSizes # {}
    /\ {LabelWidth, LabelHeight, MinSize, ScaleUp, ScaleDown} \subseteq Nat \ {0}
    /\ MinSize <= LabelHeight /\ LabelHeight <= LabelWidth
    /\ {TableRowsMax, TableColsMax} \subseteq Nat \ {0}
    /\ TableWidths \in Seq(Nat \ {0}) /\ Len(TableWidths) = 3

VARIABLES
    page,          \* the route that is shown
    stored,        \* local storage: user and agentAllowed
    login,         \* the login form: idle, or the user whose answer is awaited
    access,        \* /api/agent/access calls on the way, and whose they are
    leaving,       \* a reload was asked for: the route it goes to
    ui, net, world \* of the page

svars == <<page, stored, login, access, leaving>>
vars  == <<page, stored, login, access, leaving, ui, net, world>>

(***************************************************************************)
(* The session: who is logged in, in the browser tab and in its local      *)
(* storage (ui/src/config/config.tsx, pages/login.tsx, components/layout/  *)
(* app-top-nav.tsx, App.tsx).  Logging in and out reload the page, which   *)
(* ends every call on the way; until the reload comes the code goes on.    *)
(***************************************************************************)
SessionTypeOK ==
    /\ stored \in [user: User \cup {Nobody}, agentAllowed: BOOLEAN]
    /\ login \in User \cup {Nobody}
    /\ access \in [by: User \cup {Nobody}, calls: 0 .. MaxAccess]
    /\ leaving \in {"", "login", "home"}

SessionInit ==
    /\ page = "login"
    /\ stored = [user |-> Nobody, agentAllowed |-> FALSE]
    /\ login = Nobody /\ leaving = ""
    /\ access = [by |-> Nobody, calls |-> 0]

isAuth == stored.user # Nobody

(* The layout asks for the agent's access each time it is mounted, which   *)
(* is on a reload and on the way back from the dashboard.                  *)
Layout(p) == p \notin {"login", "dashboard"}

handleLogin ==
    /\ page = "login" /\ login = Nobody /\ leaving = ""
    /\ login' \in User
    /\ UNCHANGED <<page, stored, access, leaving>>

(* setUserData writes every field but agentAllowed.                        *)
LoginAnswered ==
    /\ login # Nobody
    /\ login' = Nobody
    /\ \/ UNCHANGED <<stored, leaving>>
       \/ stored' = [stored EXCEPT !.user = login] /\ leaving' = "home"
    /\ UNCHANGED <<page, access>>

(* The answer is about the account that asked, and is stored even when     *)
(* that account is just logging out.                                       *)
AccessAnswered ==
    /\ access.calls > 0
    /\ access' = [access EXCEPT !.calls = @ - 1]
    /\ \E allowed \in BOOLEAN :
          /\ allowed => access.by \in AgentOwner
          /\ stored' = [stored EXCEPT !.agentAllowed = allowed]
    /\ UNCHANGED <<page, login, leaving>>

(* Mutant: the flag is forgotten with the account.                         *)
clearUserDataNoFlag == [user |-> Nobody]

clearUserData == [user |-> Nobody, agentAllowed |-> FALSE]

handleLogout ==
    /\ Layout(page) /\ leaving = ""
    /\ stored' = clearUserData
    /\ leaving' = "login"
    /\ UNCHANGED <<page, login, access>>

(* The reload: App reads the storage and lets nobody past the login route  *)
(* who is not logged in.                                                   *)
Reload ==
    /\ leaving # ""
    /\ page' = IF isAuth THEN "home" ELSE "login"
    /\ access' = [by |-> stored.user, calls |-> IF isAuth THEN 1 ELSE 0]
    /\ leaving' = ""
    /\ UNCHANGED <<stored, login>>

(* The dashboard is shown without the layout.                              *)
ToDashboard ==
    /\ page = "home" /\ leaving = ""
    /\ page' = "dashboard"
    /\ UNCHANGED <<stored, login, access, leaving>>

FromDashboard ==
    /\ page = "dashboard" /\ access.calls < MaxAccess
    /\ page' = "home"
    /\ access' = [access EXCEPT !.calls = @ + 1]
    /\ UNCHANGED <<stored, login, leaving>>

SessionNext ==
    \/ handleLogin \/ LoginAnswered \/ AccessAnswered
    \/ handleLogout \/ Reload \/ ToDashboard \/ FromDashboard

AgentMenu == Layout(page) /\ stored.agentAllowed
AdminMenu == Layout(page) /\ stored.user \in Admin

(***************************************************************************)
(* The pages                                                               *)
(***************************************************************************)
Station         == INSTANCE StationPages
Qadoqlash       == INSTANCE QadoqlashPage WITH hand <- world
WareRequest     == INSTANCE WareRequestPage WITH MaxCalls <- MaxOverlap
WareOutcome     == INSTANCE WareOutcomePage WITH MaxCalls <- MaxOverlap
WareIncome      == INSTANCE WareIncomePage
WareReport      == INSTANCE WareReportPages WITH MaxCalls <- MaxOverlap
WriteoffId      == INSTANCE WriteoffIdPage WITH MaxCalls <- MaxOverlap
Writeoffs       == INSTANCE WriteoffPages
Balance         == INSTANCE BalancePages
Plan            == INSTANCE PlanPage WITH MaxCalls <- MaxOverlap
PlanOther       == INSTANCE PlanOtherPages
LabelEditor     == INSTANCE LabelEditorPage WITH MaxCalls <- MaxOverlap
Labels          == INSTANCE LabelTemplatePages WITH
                       Template <- Note, Brand <- Component, MaxVersion <- MaxRequests, ZoomLevels <- MaxRequests
LabelCanvas     == INSTANCE LabelCanvasPage
LabelTable      == INSTANCE LabelTablePage
Components      == INSTANCE ProductionComponentsPage WITH MaxCalls <- MaxOverlap
Models          == INSTANCE ModelPages WITH
                       MaxCalls <- MaxOverlap, Code <- Component, MaxParts <- MaxElements
Users           == INSTANCE UserPages WITH MaxCalls <- MaxOverlap, Person <- Note
GsCode          == INSTANCE GsCodePages
Norm            == INSTANCE ConsumptionNormPage WITH
                       MaxCalls <- MaxOverlap, Line <- AuxLine, MaxItems <- MaxElements, MaxLevel <- MaxRows
Agent           == INSTANCE AgentPage WITH MaxCalls <- MaxOverlap, tasks <- world

NoPage == ui = "none" /\ net = <<>> /\ world = None

Init == SessionInit /\ NoPage

(* A link of the menu or of another page, once the menu has settled: the   *)
(* pages do not look at the session, so one account explores them.         *)
Open(p) ==
    /\ page = "home" /\ leaving = "" /\ access.calls = 0
    /\ stored = [user |-> Operator, agentAllowed |-> FALSE]
    /\ page' = p
    /\ UNCHANGED <<stored, login, access, leaving>>

Still == UNCHANGED world

OpenPage ==
    \/ Open("station")          /\ Station!MountYigish /\ Still
    \/ Open("station")          /\ Station!MountEshik /\ Still
    \/ Open("station")          /\ Station!MountRePrint /\ Still
    \/ Open("qadoqlash")        /\ Qadoqlash!Mount
    \/ Open("warerequest")      /\ WareRequest!Mount /\ Still
    \/ Open("wareoutcome")      /\ WareOutcome!Mount /\ Still
    \/ Open("wareincome")       /\ WareIncome!Mount /\ Still
    \/ Open("warereport")       /\ WareReport!MountIncome /\ Still
    \/ Open("warereport")       /\ WareReport!MountDetail /\ Still
    \/ Open("warereport")       /\ WareReport!MountSnapshot /\ Still
    \/ Open("warereport")       /\ WareReport!MountOutcome /\ Still
    \/ Open("warereport")       /\ WareReport!MountHistory /\ Still
    \/ Open("writeoff")         /\ WriteoffId!Mount /\ Still
    \/ Open("writeoffs")        /\ Writeoffs!MountApprove /\ Still
    \/ Open("writeoffs")        /\ Writeoffs!MountDocuments /\ Still
    \/ Open("writeoffs")        /\ Writeoffs!MountRecords /\ Still
    \/ Open("writeoffs")        /\ Writeoffs!MountResponsibles /\ Still
    \/ Open("balance")          /\ Balance!MountLine /\ Still
    \/ Open("balance")          /\ Balance!MountProduct /\ Still
    \/ Open("balance")          /\ Balance!MountReport /\ Still
    \/ Open("transactions")     /\ Balance!MountTransactions /\ Still
    \/ Open("plan")             /\ Plan!Mount /\ Still
    \/ Open("planother")        /\ PlanOther!MountHead /\ Still
    \/ Open("planother")        /\ PlanOther!MountReport /\ Still
    \/ Open("planother")        /\ PlanOther!MountDashboard /\ Still
    \/ Open("planother")        /\ PlanOther!MountShifts /\ Still
    \/ Open("planother")        /\ PlanOther!MountReja /\ Still
    \/ Open("labeleditor")      /\ LabelEditor!Mount /\ Still
    \/ Open("labels")           /\ Labels!MountList /\ Still
    \/ Open("labels")           /\ Labels!MountPreview /\ Still
    \/ Open("labels")           /\ Labels!MountLogos /\ Still
    \/ Open("labels")           /\ Labels!MountCanvas /\ Still
    \/ Open("labelcanvas")      /\ LabelCanvas!Mount /\ Still
    \/ Open("labeltable")       /\ LabelTable!Mount /\ Still
    \/ Open("components")       /\ Components!Mount /\ Still
    \/ Open("models")           /\ Models!MountModels /\ Still
    \/ Open("models")           /\ Models!MountModel /\ Still
    \/ Open("users")            /\ Users!MountUsers /\ Still
    \/ Open("users")            /\ Users!MountUser /\ Still
    \/ Open("users")            /\ Users!MountResponsibles /\ Still
    \/ Open("gscode")           /\ GsCode!MountCodes /\ Still
    \/ Open("gscode")           /\ GsCode!MountReport /\ Still
    \/ Open("norm")             /\ Norm!MountTree /\ Still
    \/ Open("norm")             /\ Norm!MountPicker /\ Still
    \/ Open("norm")             /\ Norm!MountRows /\ Still
    \/ Open("norm")             /\ Norm!MountFiles /\ Still
    \/ Open("agent")            /\ Agent!Mount

PageNext ==
    \/ page = "station"         /\ Station!Next /\ Still
    \/ page = "qadoqlash"       /\ Qadoqlash!Next
    \/ page = "warerequest"     /\ WareRequest!Next /\ Still
    \/ page = "wareoutcome"     /\ WareOutcome!Next /\ Still
    \/ page = "wareincome"      /\ WareIncome!Next /\ Still
    \/ page = "warereport"      /\ WareReport!Next /\ Still
    \/ page = "writeoff"        /\ WriteoffId!Next /\ Still
    \/ page = "writeoffs"       /\ Writeoffs!Next /\ Still
    \/ page = "balance"         /\ Balance!Next /\ Still
    \/ page = "transactions"    /\ Balance!TransactionsNext /\ Still
    \/ page = "plan"            /\ Plan!Next /\ Still
    \/ page = "planother"       /\ PlanOther!Next /\ Still
    \/ page = "labeleditor"     /\ LabelEditor!Next /\ Still
    \/ page = "labels"          /\ Labels!Next /\ Still
    \/ page = "labelcanvas"     /\ LabelCanvas!Next /\ Still
    \/ page = "labeltable"      /\ LabelTable!Next /\ Still
    \/ page = "components"      /\ Components!Next /\ Still
    \/ page = "models"          /\ Models!Next /\ Still
    \/ page = "users"           /\ Users!Next /\ Still
    \/ page = "gscode"          /\ GsCode!Next /\ Still
    \/ page = "norm"            /\ Norm!Next /\ Still
    \/ page = "agent"           /\ Agent!Next

Pages == {
    "station", "qadoqlash", "warerequest", "wareoutcome",
    "wareincome", "warereport", "writeoff", "writeoffs", "balance", "transactions", "plan",
    "planother", "labeleditor", "labels", "labelcanvas", "labeltable",
    "components", "models", "users", "gscode", "norm", "agent"}

LeavePage ==
    /\ page \in Pages
    /\ page' = "home" /\ ui' = "none" /\ net' = <<>> /\ world' = None
    /\ UNCHANGED <<stored, login, access, leaving>>

Next ==
    \/ page \notin Pages /\ SessionNext /\ UNCHANGED <<ui, net, world>>
    \/ OpenPage
    \/ LeavePage
    \/ PageNext /\ UNCHANGED svars

Spec == Init /\ [][Next]_vars

(* Whoever used the terminal before: once its own calls are answered, the  *)
(* menu offers the agent pages to no account the server keeps out of them, *)
(* and what a call said of one account is never taken for another's.       *)
AgentMenuSettles ==
    Layout(page) /\ leaving = "" /\ access.calls = 0 /\ AgentMenu
        => stored.user \in AgentOwner

(* What the browser and the page that is shown hold.                      *)
TypeOK ==
    /\ SessionTypeOK
    /\ page = "station" => Station!TypeOK
    /\ page = "qadoqlash" => Qadoqlash!TypeOK
    /\ page = "warerequest" => WareRequest!TypeOK
    /\ page = "wareoutcome" => WareOutcome!TypeOK
    /\ page = "wareincome" => WareIncome!TypeOK
    /\ page = "warereport" => WareReport!TypeOK
    /\ page = "writeoff" => WriteoffId!TypeOK
    /\ page = "writeoffs" => Writeoffs!TypeOK
    /\ page = "balance" => Balance!TypeOK
    /\ page = "transactions" => Balance!TransactionsTypeOK
    /\ page = "plan" => Plan!TypeOK
    /\ page = "planother" => PlanOther!TypeOK
    /\ page = "labeleditor" => LabelEditor!TypeOK
    /\ page = "labels" => Labels!TypeOK
    /\ page = "labelcanvas" => LabelCanvas!TypeOK
    /\ page = "labeltable" => LabelTable!TypeOK
    /\ page = "components" => Components!TypeOK
    /\ page = "models" => Models!TypeOK
    /\ page = "users" => Users!TypeOK
    /\ page = "gscode" => GsCode!TypeOK
    /\ page = "norm" => Norm!TypeOK
    /\ page = "agent" => Agent!TypeOK

(* A screen that says it is waiting has its request on the way: no answer, *)
(* however late or wrong, leaves a page loading, saving or printing for    *)
(* good.  Three spinners do stay, each where nobody catches an error: the  *)
(* imports of a write-off and of a plan when their request throws          *)
(* ("thrown"), and the upload of incomes when its file cannot be read      *)
(* ("unreadable").                                                         *)
SpinnersEnd ==
    /\ page = "station" => Station!SpinnersEnd
    /\ page = "qadoqlash" => Qadoqlash!SpinnersEnd
    /\ page = "warerequest" => WareRequest!SpinnersEnd
    /\ page = "wareoutcome" => WareOutcome!SpinnersEnd
    /\ page = "wareincome" => WareIncome!SpinnersEnd
    /\ page = "warereport" => WareReport!SpinnersEnd
    /\ page = "writeoff" => WriteoffId!SpinnersEnd
    /\ page = "writeoffs" => Writeoffs!SpinnersEnd
    /\ page = "balance" => Balance!SpinnersEnd
    /\ page = "transactions" => Balance!TransactionsSpinnersEnd
    /\ page = "plan" => Plan!SpinnersEnd
    /\ page = "planother" => PlanOther!SpinnersEnd
    /\ page = "labeleditor" => LabelEditor!SpinnersEnd
    /\ page = "labels" => Labels!SpinnersEnd
    /\ page = "components" => Components!SpinnersEnd
    /\ page = "models" => Models!SpinnersEnd
    /\ page = "users" => Users!SpinnersEnd
    /\ page = "gscode" => GsCode!SpinnersEnd
    /\ page = "norm" => Norm!SpinnersEnd
    /\ page = "agent" => Agent!SpinnersEnd

(* A button that has a flag of its own has one call on the way at most,    *)
(* also when it posts two in turn, or when a dialog or a key is another    *)
(* way to press it.  It is a promise of the button, not of the request:    *)
(* two buttons may post the same one, and the pages name their buttons     *)
(* that have no flag, or share one between the lines of a table.           *)
OneCallPerButton ==
    /\ page = "warerequest" => WareRequest!OneCallPerButton
    /\ page = "wareoutcome" => WareOutcome!OneCallPerButton
    /\ page = "wareincome" => WareIncome!OneCallPerButton
    /\ page = "writeoff" => WriteoffId!OneCallPerButton
    /\ page = "writeoffs" => Writeoffs!OneCallPerButton
    /\ page = "planother" => PlanOther!OneCallPerButton
    /\ page = "labeleditor" => LabelEditor!OneCallPerButton
    /\ page = "labels" => Labels!OneCallPerButton
    /\ page = "components" => Components!OneCallPerButton
    /\ page = "models" => Models!OneCallPerButton
    /\ page = "users" => Users!OneCallPerButton
    /\ page = "gscode" => GsCode!OneCallPerButton
    /\ page = "norm" => Norm!OneCallPerButton
    /\ page = "agent" => Agent!OneCallPerButton

(* What the screen shows belongs to what is selected on it, whatever is    *)
(* still on its way: rows that are not marked as loading, the balance of a *)
(* line beside a row of an order, an amount typed for a component, what    *)
(* was chosen for the line of a write-off row, the printer among those the *)
(* list offers, a page of a table that exists; and what is typed into a    *)
(* form is not replaced by what the server still sends.                    *)
ShownBelongs ==
    /\ page = "balance" => Balance!LatestShown
    /\ page = "warerequest" => WareRequest!LineQuantityOfLine
    /\ page = "wareincome" => WareIncome!QuantityOfSelected
    /\ page = "writeoff" => WriteoffId!RowOfItsLine
    /\ page = "station" => Station!PrinterListed
    /\ page = "qadoqlash" => Qadoqlash!PrinterListed
    /\ page = "warereport" => WareReport!PageShown
    /\ page = "transactions" => Balance!PageShown
    /\ page = "planother" => PlanOther!InputKept

(* What is sent is what the operator means: one reprint at a time; the     *)
(* parts of one product; the cells that turn the plan the server had into  *)
(* the one on the screen, on the days that may be edited, unless the plan  *)
(* is compared with another line's; the accessory serials that were typed, *)
(* each once, in order and at least one.                                   *)
SentExact ==
    /\ page = "station" => Station!OneReprint
    /\ page = "qadoqlash" => Qadoqlash!PartsOfOneProduct
    /\ page = "plan" => Plan!CellsExact
    /\ page = "models" => Models!SerialsClean

(* Nothing drops out of a list that is regrouped or folded: the incomes by *)
(* component add up to the incomes, and no row of a norm is hidden but     *)
(* below a closed row that can be opened.                                  *)
ListsComplete ==
    /\ page = "warereport" => WareReport!SummaryAddsUp
    /\ page = "transactions" => Balance!SummaryAddsUp
    /\ page = "users" => Users!SummaryAddsUp
    /\ page = "gscode" => GsCode!SummaryAddsUp
    /\ page = "norm" => Norm!RowsReachable

(* A failed or late request does not stick: the agent's menu follows the   *)
(* account, a catalogue that could not be loaded is asked for again when   *)
(* needed, and a plan is compared with the rows of its own line once the   *)
(* answers are in.                                                         *)
LoadsSettle ==
    /\ AgentMenuSettles
    /\ page = "writeoff" => WriteoffId!CatalogRetried
    /\ page = "plan" => Plan!GridSettles

(* No late answer undoes a deletion: a deleted line of a delivery note     *)
(* does not come back, whatever was asked of it, or of all lines, before.  *)
LateAnswersHarmless == [][
    page = "wareoutcome" /\ page' = page => WareOutcome!DeletedStaysGone
    ]_vars

(* What is selected on a label is whole groups of elements that are there, *)
(* save for what the late answer of an image upload selects.               *)
SelectionWhole == [][
    page = "labeleditor" /\ page' = page => LabelEditor!SelectionWhole
    ]_vars

(* No step of the canvas pushes an element off the label, but a resize     *)
(* from a corner down to the least size.                                   *)
BoxesOnLabel == [][
    page = "labelcanvas" /\ page' = page => LabelCanvas!BoxesOnLabel
    ]_vars

(* A label keeps its shape: elements that are dragged together keep their  *)
(* places to each other, what is across from the handle stays when an      *)
(* element is resized, and a table has a cell for every place and columns  *)
(* that make up its width.                                                 *)
LabelConsistent ==
    /\ page = "labelcanvas" => LabelCanvas!DragKeepsShape
    /\ page = "labelcanvas" => LabelCanvas!ResizeAnchored
    /\ page = "labeltable" => LabelTable!TableConsistent

(* Rows and columns that come or go leave the other cells as they are.     *)
CellsKept == [][
    page = "labeltable" /\ page' = page => LabelTable!CellsKept
    ]_vars

(* Whatever the owner approves, rejects and approves again, and whatever   *)
(* stops meanwhile, no task of the agent is in production, or on its way   *)
(* there, for which the script of the deploy for test never succeeded.     *)
PromotedWasBuilt ==
    page = "agent" => Agent!PromotedWasBuilt
=============================================================================
