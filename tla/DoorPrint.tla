----------------------------- MODULE DoorPrint -----------------------------
(***************************************************************************)
(* The door (Eshik) line.  One print request makes a pair of doors, freeze *)
(* then ref: it draws the part's number of the day, stores a print         *)
(* session, and in a transaction adds one to the line's balance and        *)
(* records the door under its serial.  When a door fails, what the request *)
(* has done is rolled back door by door; when both are recorded, their     *)
(* labels are printed.                                                     *)
(*                                                                         *)
(* A request changes the balance of the line as every operation of a line  *)
(* does, so the module extends StockFlow and takes its requests from       *)
(* LineOps.  The model is for one model of doors, one shift and one day.   *)
(***************************************************************************)
EXTENDS StockFlow, TLC

CONSTANTS
    EshikLine, Freeze, Ref,
    DoorRequests,  \* print requests that may overlap
    Nobody,        \* owns the sessions no request holds
    Letters,       \* the random last letter of a serial
    SameSeries,    \* both parts have one seriya_raqami: no check forbids it
    Planned,       \* planned_qty of the shift, its plan locked
    MaxNumber,     \* bound on the numbers of a day
    MaxSessions,   \* bound on the sessions
    Crews          \* the actors at work together in an instance, see CrewSpec

ASSUME DoorPrintAssumption ==
    /\ EshikLine \in Lines /\ {Freeze, Ref} \subseteq Components /\ Freeze # Ref
    /\ DoorRequests \subseteq LineOps /\ IsFiniteSet(DoorRequests) /\ DoorRequests # {}
    /\ Nobody \notin DoorRequests
    /\ SameSeries \in BOOLEAN /\ MaxQuantity >= 1
    /\ Planned \in Nat /\ MaxNumber \in Nat /\ MaxSessions \in Nat

VARIABLES
    counter,    \* production.eshik_daily_serial
    sessions,   \* production.eshik_print_sessions with their lines.auxiliary_products
    labels,     \* how many first labels came out for a serial
    door        \* where each request is

doorVars == <<counter, sessions, labels, door>>

Parts   == {Freeze, Ref}
Numbers == 0 .. MaxNumber      \* of a day, 0 before the first
Serials == Parts \X Numbers \X Letters

(* A session with the request that knows its id; door when it has its row  *)
(* of auxiliary_products.  Both are written and deleted in one transaction.*)
SessionRows == [owner: DoorRequests \cup {Nobody}, part: Parts, number: Numbers,
                serial: Serials, door: BOOLEAN]

Positions ==
    [pc: {"resting", "number", "session", "balance", "write",
          "rollback", "rolling", "undo", "print"},
     at: Parts, number: Numbers]

Resting == [pc |-> "resting", at |-> Freeze, number |-> 0]

DoorRowsOK ==
    /\ counter \in [Parts -> Numbers]
    /\ sessions \subseteq SessionRows
    /\ labels \in [Serials -> Nat]
    /\ door \in [DoorRequests -> Positions]

DoorTypeOK == TypeOK /\ DoorRowsOK

DoorInit ==
    /\ Init
    /\ counter = [p \in Parts |-> 0]
    /\ sessions = {}
    /\ labels = [s \in Serials |-> 0]
    /\ door = [r \in DoorRequests |-> Resting]

-----------------------------------------------------------------------------
Serial(p, n, l) == <<IF SameSeries THEN Freeze ELSE p, n, l>>
DoorKey(p)      == <<EshikLine, p>>
Doors           == {s \in sessions : s.door}
Own(r)          == {s \in sessions : s.owner = r /\ s.part = door[r].at}

NotEvenUnique(r) == TRUE                                                 \* mutant

(* auxiliaryProductDuplicateCheck, and the constraint                      *)
(* auxiliary_products_line_serial_un behind it.                            *)
SerialFree(r) == \A s \in Own(r) : \A d \in Doors : d.serial # s.serial

BelowPlan(n) == n <= Planned                                             \* mutant

PlanAllows(n) == n + 1 <= Planned

Goto(r, pc) == door' = [door EXCEPT ![r].pc = pc]

(* The request is answered, or gone: nobody knows its sessions any more.   *)
Rest(r) ==
    /\ door' = [door EXCEPT ![r] = Resting]
    /\ sessions' = {[s EXCEPT !.owner = IF @ = r THEN Nobody ELSE @] : s \in sessions}

(* A failed ref door leads to the freeze door of the pair.                 *)
Back(r) ==
    IF door[r].at = Ref
    THEN /\ door' = [door EXCEPT ![r].at = Freeze, ![r].pc = "rollback"]
         /\ UNCHANGED sessions
    ELSE Rest(r)

-----------------------------------------------------------------------------
(* The plan of the shift is compared once for the pair, with the freeze    *)
(* doors recorded so far.                                                  *)
LinesEshikV2Print(r) ==
    /\ door[r].pc = "resting"
    /\ PlanAllows(Cardinality({s \in Doors : s.part = Freeze}))
    /\ Goto(r, "number")
    /\ UNCHANGED <<vars, counter, sessions, labels>>

EshikNextDailyCounter(r) ==
    /\ door[r].pc = "number"
    /\ LET p == door[r].at
       IN  /\ counter[p] < MaxNumber
           /\ counter' = [counter EXCEPT ![p] = @ + 1]
           /\ door' = [door EXCEPT ![r].number = counter[p] + 1, ![r].pc = "session"]
    /\ UNCHANGED <<vars, sessions, labels>>

EshikPrintSessionCreate(r, l) ==
    /\ door[r].pc = "session"
    /\ Cardinality(sessions) < MaxSessions
    /\ sessions' = sessions \cup
          {[owner |-> r, part |-> door[r].at, number |-> door[r].number,
            serial |-> Serial(door[r].at, door[r].number, l), door |-> FALSE]}
    /\ Goto(r, "balance")
    /\ UNCHANGED <<vars, counter, labels>>

(* The look-up of the serial, then the transaction: the read of            *)
(* linesBalanceApplyChangeTx ...                                           *)
EshikChiqishBalanceApply(r) ==
    /\ door[r].pc = "balance"
    /\ SerialFree(r)
    /\ LinesBalanceRead(r, DoorKey(door[r].at), 1)
    /\ Goto(r, "write")
    /\ UNCHANGED <<counter, sessions, labels>>

(* ... its write, the row of the door, and the commit.  The next door      *)
(* follows, or the labels.                                                 *)
EshikChiqishBalanceCommit(r) ==
    /\ door[r].pc = "write"
    /\ SerialFree(r)
    /\ LinesBalanceApplyChange(r)
    /\ sessions' = (sessions \ Own(r)) \cup {[s EXCEPT !.door = TRUE] : s \in Own(r)}
    /\ door' = IF door[r].at = Freeze
               THEN [door EXCEPT ![r].at = Ref, ![r].pc = "number"]
               ELSE [door EXCEPT ![r].at = Freeze, ![r].pc = "print"]
    /\ UNCHANGED <<counter, labels>>

-----------------------------------------------------------------------------
(* A statement of the request fails.  A number that is drawn is given      *)
(* back, a session that is stored is rolled back.                          *)

NumberFails(r) ==
    /\ door[r].pc = "number"
    /\ Back(r)
    /\ UNCHANGED <<vars, counter, labels>>

SessionFails(r) ==
    /\ door[r].pc = "session"
    /\ Goto(r, "undo")
    /\ UNCHANGED <<vars, counter, sessions, labels>>

(* The serial is taken, or any statement of the transaction fails.         *)
BalanceFails(r) ==
    /\ door[r].pc = "balance"
    /\ Goto(r, "rollback")
    /\ UNCHANGED <<vars, counter, sessions, labels>>

WriteFails(r) ==
    /\ door[r].pc = "write"
    /\ Fail(r)
    /\ Goto(r, "rollback")
    /\ UNCHANGED <<counter, sessions, labels>>

RollbackUnchecked(r) ==                                                  \* mutant
    /\ door[r].pc = "rollback"
    /\ LET k == DoorKey(door[r].at)
       IN  Begin(r, [pc |-> "line", key |-> k, change |-> -1, after |-> balance[k] - 1])
    /\ Goto(r, "rolling")
    /\ UNCHANGED <<ware, lines, item, counter, sessions, labels>>

(* The roll-back takes one from the balance, also of a door that never     *)
(* added one.                                                              *)
EshikPrintRollback(r) ==
    /\ door[r].pc = "rollback"
    /\ LinesBalanceRead(r, DoorKey(door[r].at), -1)
    /\ Goto(r, "rolling")
    /\ UNCHANGED <<counter, sessions, labels>>

SameSerial(r) ==                                                         \* mutant
    {s \in sessions : \E o \in Own(r) : o.serial = s.serial}

RolledBack(r) == Own(r)

EshikPrintRollbackCommit(r) ==
    /\ door[r].pc = "rolling"
    /\ LinesBalanceApplyChange(r)
    /\ sessions' = sessions \ RolledBack(r)
    /\ Goto(r, "undo")
    /\ UNCHANGED <<counter, labels>>

(* The balance is used up, or a statement fails: the session stays.        *)
RollbackFails(r) ==
    /\ \/ door[r].pc = "rollback" /\ UNCHANGED vars
       \/ door[r].pc = "rolling" /\ Fail(r)
    /\ Back(r)
    /\ UNCHANGED <<counter, labels>>

UndoneTwice(n) == IF n > 2 THEN n - 2 ELSE 0                                 \* mutant

Undone(n) == IF n > 0 THEN n - 1 ELSE 0

(* Its error is ignored.                                                   *)
EshikDailyCounterUndo(r) ==
    /\ door[r].pc = "undo"
    /\ \/ counter' = [counter EXCEPT ![door[r].at] = Undone(@)]
       \/ UNCHANGED counter
    /\ Back(r)
    /\ UNCHANGED <<vars, labels>>

-----------------------------------------------------------------------------
(* A label comes out or the printer fails; the doors stay either way.      *)
eshikSendPrintV2(r) ==
    /\ door[r].pc = "print"
    /\ \/ labels' = [s \in Serials |-> IF \E o \in Own(r) : o.serial = s
                                       THEN labels[s] + 1 ELSE labels[s]]
       \/ UNCHANGED labels
    /\ IF door[r].at = Freeze
       THEN door' = [door EXCEPT ![r].at = Ref] /\ UNCHANGED sessions
       ELSE Rest(r)
    /\ UNCHANGED <<vars, counter>>

(* The server stops under the request: its transaction is rolled back.     *)
Stop(r) ==
    /\ door[r].pc # "resting"
    /\ Rest(r)
    /\ IF op[r] = Idle THEN UNCHANGED vars ELSE Fail(r)
    /\ UNCHANGED <<counter, labels>>

-----------------------------------------------------------------------------
DoorStep(r) ==
    \/ LinesEshikV2Print(r)
    \/ EshikNextDailyCounter(r)
    \/ \E l \in Letters : EshikPrintSessionCreate(r, l)
    \/ EshikChiqishBalanceApply(r)
    \/ EshikChiqishBalanceCommit(r)
    \/ NumberFails(r) \/ SessionFails(r) \/ BalanceFails(r) \/ WriteFails(r)
    \/ EshikPrintRollback(r)
    \/ EshikPrintRollbackCommit(r)
    \/ RollbackFails(r)
    \/ EshikDailyCounterUndo(r)
    \/ eshikSendPrintV2(r)
    \/ Stop(r)

Actors == Requests \cup Notes

(* The steps of the actors A: doors, and everything else that moves        *)
(* components.                                                             *)
Step(A) ==
    \/ \E r \in A \cap DoorRequests : DoorStep(r)
    \/ /\ \/ \E r \in A \cap Incomes : IncomeStep(r)
          \/ \E r \in A \cap Receivers : ReceiverStep(r)
          \/ \E r \in A \cap (LineOps \ DoorRequests) : LineStep(r)
          \/ \E n \in A \cap Notes : NoteStep(n)
          \/ \E i \in Items : NoteOf(i) \in A /\ ItemStep(i)
       /\ UNCHANGED doorVars

DoorNext == Step(Actors)

DoorSpec == DoorInit /\ [][DoorNext]_<<vars, doorVars>>

-----------------------------------------------------------------------------
(* Several small instances for TLC: a behaviour has one crew of actors at  *)
(* work from its start to its end.                                         *)
ASSUME CrewsAssumption == Crews \subseteq SUBSET Actors

VARIABLE crew

CrewInit == DoorInit /\ crew \in Crews

CrewNext == Step(crew) /\ UNCHANGED crew

CrewSpec == CrewInit /\ [][CrewNext]_<<vars, doorVars, crew>>

CrewSymmetry == Permutations(DoorRequests) \cup Permutations(Receivers) \cup Permutations(Letters)

-----------------------------------------------------------------------------
(* Properties.                                                             *)

(* A serial comes out of a first print once, and its door stays recorded:  *)
(* no roll-back of another request, whose number may be the same, takes    *)
(* the door from under its label.                                          *)
FirstLabelKept ==
    \A s \in Serials : labels[s] > 0 =>
        labels[s] = 1 /\ \E d \in Doors : d.serial = s

(* The plan is compared before the doors are made.  Requests that overlap  *)
(* exceed it by as many pairs as there are others, and no more.            *)
OverplanBounded ==
    Cardinality({s \in Doors : s.part = Freeze}) <= Planned + Cardinality(DoorRequests) - 1

(* Numbers that were given back while others went on are drawn again: the  *)
(* counter falls behind the doors by at most the other requests.           *)
CounterLag ==
    \A d \in Doors : d.number <= counter[d.part] + Cardinality(DoorRequests) - 1
=============================================================================
