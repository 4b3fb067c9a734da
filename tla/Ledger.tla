------------------------------- MODULE Ledger -------------------------------
(***************************************************************************)
(* What the gateway promises about its books (store.js, the request and    *)
(* attempt rows of a public request): a row is opened once and closed at   *)
(* most once, attempts follow one another and never overlap, and an        *)
(* attempt is charged at most once, while it runs or as its row is closed. *)
(* Nothing is said of accounts, health or the network; Dispatch implements *)
(* this module.                                                            *)
(***************************************************************************)
EXTENDS Naturals

CONSTANT Booked        \* requests that have a row

VARIABLE book

Rows == [status : {"absent", "open", "closed"}, attempt : Nat,
         phase : {"resting", "running"}, charges : Nat]

Entry(status, attempt, phase, charges) ==
    [status |-> status, attempt |-> attempt, phase |-> phase, charges |-> charges]

Blank == Entry("absent", 0, "resting", 0)

Is(r, status, phase) == book[r].status = status /\ book[r].phase = phase

Turn(r, status, attempt, phase, charges) ==
    book' = [book EXCEPT ![r] = Entry(status, attempt, phase, charges)]

-----------------------------------------------------------------------------

Open(r) ==
    /\ book[r] = Blank
    /\ Turn(r, "open", 0, "resting", 0)

\* A row may be opened and closed at once, when no account can be tried.
OpenAndClose(r) ==
    /\ book[r] = Blank
    /\ Turn(r, "closed", 0, "resting", 0)

Start(r) ==
    /\ Is(r, "open", "resting")
    /\ Turn(r, "open", book[r].attempt + 1, "running", 0)

Charge(r) ==
    /\ Is(r, "open", "running") /\ book[r].charges = 0
    /\ Turn(r, "open", book[r].attempt, "running", 1)

GiveUp(r) ==
    /\ Is(r, "open", "running")
    /\ \E charges \in {book[r].charges, 1} :
          Turn(r, "open", book[r].attempt, "resting", charges)

Close(r) ==
    /\ Is(r, "open", "resting")
    /\ Turn(r, "closed", book[r].attempt, "resting", book[r].charges)

\* The last attempt ends with its request.
Finish(r) ==
    /\ Is(r, "open", "running")
    /\ \E charges \in {book[r].charges, 1} :
          Turn(r, "closed", book[r].attempt, "resting", charges)

-----------------------------------------------------------------------------

Init == book = [r \in Booked |-> Blank]

Next == \E r \in Booked :
    Open(r) \/ OpenAndClose(r) \/ Start(r) \/ Charge(r) \/ GiveUp(r)
        \/ Close(r) \/ Finish(r)

Spec == Init /\ [][Next]_book

=============================================================================
