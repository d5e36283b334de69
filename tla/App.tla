-------------------------------- MODULE App --------------------------------
(***************************************************************************)
(* The UI application (struct App of ui/vh22top.cpp): its screens, the     *)
(* list of pools and which of them is chosen, the payout address, and what *)
(* the handlers of the keys do with the connection, the miners and the     *)
(* settings file.  A handler is one step; module Engine takes apart what   *)
(* it does to threads.                                                     *)
(*                                                                         *)
(* The program may end at any time and be launched again: then only the    *)
(* file is left.  The form a key finishes was typed before it: the draft   *)
(* is chosen when the form is accepted.  A pool is its endpoint.           *)
(***************************************************************************)
EXTENDS Integers, SequencesExt

CONSTANTS
    Endpoints,      \* the endpoints a user may type
    NoEndpoint,     \* that of a row without a host
    Addresses,      \* the payout addresses a user may type
    NoAddress,
    Presets,        \* the list a first run starts with
    MaxPools,       \* bound of the model: rows of the list
    MaxLost         \* bound of the model: saves that do not reach the file

ASSUME EndpointAssumption == NoEndpoint \notin Endpoints
ASSUME AddressAssumption == NoAddress \notin Addresses
ASSUME PresetAssumption == Presets \in Seq(Endpoints) /\ Presets # <<>>
ASSUME AppBoundAssumption == MaxPools \in Nat /\ MaxLost \in Nat

VARIABLES
    screen,         \* "off": the program does not run
    helpFrom,       \* where Help goes back to
    focus, cursor,  \* the control on the dashboard, the row of the list
    editingNew,     \* the row being edited is not in the list yet
    pending,        \* the row to choose once there is an address, or -1
    cfg,            \* the settings
    client,         \* the pool and user the client was started with
    mode, minesOn,  \* App.mode, and what the miners were started on
    file, lost      \* the settings file; saves that did not reach it

formVars == <<helpFrom, editingNew, pending>>
vars == <<screen, formVars, focus, cursor, cfg, client, mode, minesOn, file, lost>>

----------------------------------------------------------------------------
(* Types *)

F_MINE  == 3
F_POOLS == 4
F_BENCH == 2
F_COUNT == 5

Screens  == {"off", "Dashboard", "Pools", "EditPool", "Setup", "Help"}
Rows     == Endpoints \cup {NoEndpoint}
Users    == Addresses \cup {NoAddress}
Settings == [id : Users, pools : Seq(Rows), selected : Nat, chosen : BOOLEAN]
Clients  == [pool : Endpoints, user : Addresses]
NoClient == [pool |-> NoEndpoint, user |-> NoAddress]
NoFile   == [id |-> NoAddress, pools |-> <<>>, selected |-> 0, chosen |-> FALSE]

TypeOK ==
    /\ screen \in Screens /\ helpFrom \in {"Dashboard", "Pools"}
    /\ focus \in 0..(F_COUNT - 1) /\ cursor \in Nat
    /\ editingNew \in BOOLEAN /\ pending \in Nat \cup {-1}
    /\ cfg \in Settings /\ file \in Settings /\ lost \in Nat
    /\ client \in Clients \cup {NoClient} /\ minesOn \in Clients \cup {NoClient}
    /\ mode \in {"Idle", "Mining", "Benchmark"}

Init ==
    /\ screen = "off" /\ helpFrom = "Dashboard" /\ focus = 0 /\ cursor = 0
    /\ editingNew = FALSE /\ pending = -1
    /\ cfg = NoFile /\ file = NoFile /\ lost = 0
    /\ client = NoClient /\ mode = "Idle" /\ minesOn = NoClient

----------------------------------------------------------------------------
(* What the handlers call *)

(* Rows count from 0 in the code. *)
Row(c, i) == c.pools[i + 1]
IsRow(c, i) == i + 1 \in DOMAIN c.pools

(* Mutant: the list is looked at, the cursor is not. *)
CursorAnywhere(c, k) == k

(* clamp_pools: the selection, and the cursor.                               *)
Clamped(c) == IF c.pools = <<>> THEN [c EXCEPT !.selected = 0, !.chosen = FALSE]
              ELSE IF IsRow(c, c.selected) THEN c ELSE [c EXCEPT !.selected = 0]

CursorIn(c, k) == IF k < Len(c.pools) THEN k
                  ELSE IF c.pools = <<>> THEN 0 ELSE Len(c.pools) - 1

(* connect_selected, the connection before it being dropped.                 *)
Tested(c) ==
    IF c.chosen /\ c.id # NoAddress /\ Row(c, c.selected) # NoEndpoint
    THEN [pool |-> Row(c, c.selected), user |-> c.id]
    ELSE NoClient

ModeStopped == IF mode = "Mining" THEN "Idle" ELSE mode

(* stop_mining *)
StopMining == mode' = ModeStopped /\ UNCHANGED minesOn

(* Mutant: the connection is replaced under the miners. *)
RetestUnderMiners(condition, c) ==
    /\ IF condition THEN client' = Tested(c) ELSE UNCHANGED client
    /\ UNCHANGED <<mode, minesOn>>

(* stop_mining and connect_selected where the handler does so, else neither. *)
RetestIf(condition, c) ==
    IF condition THEN StopMining /\ client' = Tested(c)
    ELSE UNCHANGED <<mode, minesOn, client>>

(* save_settings, whose failure to open the file goes unnoticed. *)
Save(c) ==
    \/ file' = c /\ UNCHANGED lost
    \/ lost < MaxLost /\ lost' = lost + 1 /\ UNCHANGED file

(* What is in the file when a save is cut short: nothing, or, the head of the *)
(* file being written at once, that and some rows, of which the last may not  *)
(* have its host.                                                             *)
Torn(c) ==
    {NoFile} \cup
    {[c EXCEPT !.pools = SubSeq(@, 1, k)] : k \in 1..(Len(c.pools) - 1)} \cup
    {[c EXCEPT !.pools = Append(SubSeq(@, 1, k - 1), NoEndpoint)] : k \in DOMAIN c.pools}

(* load_settings, and what init makes of it. *)
Load(f) ==
    Clamped(IF f.pools = <<>> THEN [f EXCEPT !.pools = Presets, !.selected = 0] ELSE f)

----------------------------------------------------------------------------
(* Launch and end *)

Launch ==
    /\ screen = "off"
    /\ cfg' = Load(file)
    /\ client' = Tested(Load(file))
    /\ screen' = IF Load(file).id = NoAddress THEN "Setup" ELSE "Dashboard"
    /\ UNCHANGED <<formVars, focus, cursor, mode, minesOn, file, lost>>

(* The process ends, and with it all but the file. *)
Ends ==
    /\ screen' = "off"
    /\ helpFrom' = "Dashboard" /\ focus' = 0 /\ cursor' = 0
    /\ editingNew' = FALSE /\ pending' = -1
    /\ cfg' = NoFile /\ client' = NoClient /\ mode' = "Idle" /\ minesOn' = NoClient

(* q, or killed between two keys. *)
Quit == screen # "off" /\ Ends /\ UNCHANGED <<file, lost>>

----------------------------------------------------------------------------
(* Dashboard *)

(* Mutant: the focus stops on every control. *)
FocusableAlways(f) == TRUE

Focusable(f) == f # F_MINE \/ cfg.chosen

(* Mutant: the focus does not wrap. *)
StepFocusOff(dir) == focus + dir

(* step_focus: the nearest control in that direction that takes the focus.   *)
StepFocus(dir) ==
    LET at(i) == (focus + i * dir + F_COUNT * F_COUNT) % F_COUNT
        near == CHOOSE i \in 1..F_COUNT :
                    Focusable(at(i)) /\ \A j \in 1..(i - 1) : ~Focusable(at(j))
    IN  at(near)

MoveFocus ==
    /\ screen = "Dashboard"
    /\ \E dir \in {-1, 1} : focus' = StepFocus(dir)
    /\ UNCHANGED <<screen, formVars, cursor, cfg, client, mode, minesOn, file, lost>>

(* Enter on MINE: stop, or mine on the connection, which may be Ready. *)
MineStops ==
    /\ screen = "Dashboard" /\ focus = F_MINE
    /\ mode = "Mining" /\ StopMining
    /\ UNCHANGED <<screen, formVars, focus, cursor, cfg, client, file, lost>>

MineStarts ==
    /\ screen = "Dashboard" /\ focus = F_MINE
    /\ mode # "Mining" /\ client # NoClient
    /\ mode' = "Mining" /\ minesOn' = client
    /\ UNCHANGED <<screen, formVars, focus, cursor, cfg, client, file, lost>>

BenchKey ==
    /\ screen = "Dashboard" /\ focus = F_BENCH
    /\ mode' = IF mode = "Benchmark" THEN "Idle" ELSE "Benchmark"
    /\ UNCHANGED <<screen, formVars, focus, cursor, cfg, client, minesOn, file, lost>>

OpenPools ==
    /\ screen = "Dashboard" /\ focus = F_POOLS
    /\ cfg' = Clamped(cfg) /\ cursor' = CursorIn(cfg, cfg.selected)
    /\ screen' = "Pools"
    /\ UNCHANGED <<formVars, focus, client, mode, minesOn, file, lost>>

(* i, also in the list of pools. *)
OpenSetup ==
    /\ screen \in {"Dashboard", "Pools"}
    /\ screen' = "Setup"
    /\ UNCHANGED <<formVars, focus, cursor, cfg, client, mode, minesOn, file, lost>>

OpenHelp ==
    /\ screen \in {"Dashboard", "Pools"}
    /\ helpFrom' = screen /\ screen' = "Help"
    /\ UNCHANGED <<editingNew, pending, focus, cursor, cfg, client, mode, minesOn, file,
                   lost>>

CloseHelp ==
    /\ screen = "Help"
    /\ screen' = helpFrom
    /\ UNCHANGED <<formVars, focus, cursor, cfg, client, mode, minesOn, file, lost>>

----------------------------------------------------------------------------
(* Setup *)

(* The settings once the form is accepted, with the pool that was waited for. *)
WithAddress(a) ==
    Clamped(IF IsRow(cfg, pending)
            THEN [cfg EXCEPT !.id = a, !.selected = pending, !.chosen = TRUE]
            ELSE [cfg EXCEPT !.id = a])

SaveSetup(a) ==
    /\ screen = "Setup"
    /\ cfg' = WithAddress(a) /\ Save(WithAddress(a))
    /\ RetestIf(a # cfg.id /\ WithAddress(a).chosen, WithAddress(a))
    /\ pending' = -1 /\ cursor' = CursorIn(cfg, cursor)
    /\ screen' = "Dashboard"
    /\ UNCHANGED <<helpFrom, editingNew, focus>>

LeaveSetup ==
    /\ screen = "Setup"
    /\ pending' = -1
    /\ IF cfg.id = NoAddress
       THEN cfg' = [cfg EXCEPT !.chosen = FALSE] /\ client' = NoClient
       ELSE UNCHANGED <<cfg, client>>
    /\ screen' = "Dashboard"
    /\ UNCHANGED <<helpFrom, editingNew, focus, cursor, mode, minesOn, file, lost>>

----------------------------------------------------------------------------
(* Pools *)

MoveCursor ==
    /\ screen = "Pools"
    /\ \E k \in {cursor - 1, cursor + 1} : IsRow(cfg, k) /\ cursor' = k
    /\ UNCHANGED <<screen, formVars, focus, cfg, client, mode, minesOn, file, lost>>

(* Enter: without an address the choice waits for one, ... *)
AskAddress ==
    /\ screen = "Pools" /\ IsRow(cfg, cursor) /\ cfg.id = NoAddress
    /\ pending' = cursor
    /\ screen' = "Setup"
    /\ UNCHANGED <<helpFrom, editingNew, focus, cursor, cfg, client, mode, minesOn, file,
                   lost>>

WithChoice == [cfg EXCEPT !.selected = cursor, !.chosen = TRUE]

(* Mutant: the settings are saved before the choice is put into them. *)
ChooseAfterSaving ==
    /\ screen = "Pools" /\ IsRow(cfg, cursor) /\ cfg.id # NoAddress
    /\ Save(cfg) /\ cfg' = WithChoice
    /\ RetestIf(TRUE, WithChoice)
    /\ focus' = F_MINE /\ screen' = "Dashboard"
    /\ UNCHANGED <<formVars, cursor>>

(* ... and with one the pool is saved and tested. *)
Choose ==
    /\ screen = "Pools" /\ IsRow(cfg, cursor) /\ cfg.id # NoAddress
    /\ cfg' = WithChoice /\ Save(WithChoice)
    /\ RetestIf(TRUE, WithChoice)
    /\ focus' = F_MINE /\ screen' = "Dashboard"
    /\ UNCHANGED <<formVars, cursor>>

LeavePools ==
    /\ screen = "Pools"
    /\ screen' = "Dashboard"
    /\ UNCHANGED <<formVars, focus, cursor, cfg, client, mode, minesOn, file, lost>>

(* e, or n: the form of a row, or of one that is not there yet. *)
OpenEdit(new) ==
    /\ screen = "Pools" /\ (IsRow(cfg, cursor) \/ new)
    /\ new => Len(cfg.pools) < MaxPools
    /\ editingNew' = new
    /\ screen' = "EditPool"
    /\ UNCHANGED <<helpFrom, pending, focus, cursor, cfg, client, mode, minesOn, file,
                   lost>>

IsLive == cfg.chosen /\ cfg.selected = cursor

(* Mutant: the rows below the deleted one move up, the selection does not. *)
WithoutRowOnly ==
    LET rows == RemoveAt(cfg.pools, cursor + 1)
    IN  Clamped([cfg EXCEPT !.pools = rows, !.chosen = @ /\ ~IsLive])

(* d: the row is gone; the selection moves up with its row. *)
WithoutRow ==
    LET rows == RemoveAt(cfg.pools, cursor + 1)
    IN  Clamped(
        IF IsLive THEN [cfg EXCEPT !.pools = rows, !.chosen = FALSE]
        ELSE IF cfg.selected > cursor THEN [cfg EXCEPT !.pools = rows, !.selected = @ - 1]
        ELSE [cfg EXCEPT !.pools = rows])

Delete ==
    /\ screen = "Pools" /\ Len(cfg.pools) > 1
    /\ cfg' = WithoutRow /\ cursor' = CursorIn(WithoutRow, cursor) /\ Save(WithoutRow)
    /\ IF IsLive THEN StopMining /\ client' = NoClient
       ELSE UNCHANGED <<mode, minesOn, client>>
    /\ UNCHANGED <<screen, formVars, focus>>

----------------------------------------------------------------------------
(* EditPool *)

WithDraft(e) ==
    Clamped(IF editingNew THEN [cfg EXCEPT !.pools = Append(@, e)]
            ELSE IF IsRow(cfg, cursor) THEN [cfg EXCEPT !.pools[cursor + 1] = e]
            ELSE cfg)

SaveRow(e) ==
    /\ screen = "EditPool"
    /\ cfg' = WithDraft(e) /\ Save(WithDraft(e))
    /\ cursor' = CursorIn(WithDraft(e), IF editingNew THEN Len(cfg.pools) ELSE cursor)
    /\ RetestIf(IsLive /\ ~editingNew, WithDraft(e))
    /\ editingNew' = FALSE
    /\ screen' = "Pools"
    /\ UNCHANGED <<helpFrom, pending, focus>>

LeaveRow ==
    /\ screen = "EditPool"
    /\ editingNew' = FALSE
    /\ screen' = "Pools"
    /\ UNCHANGED <<helpFrom, pending, focus, cursor, cfg, client, mode, minesOn, file,
                   lost>>

----------------------------------------------------------------------------
(* The next-state relation *)

(* What a key would save on this screen. *)
Saving ==
    (IF screen = "Setup" THEN {WithAddress(a) : a \in Addresses} ELSE {}) \cup
    (IF screen = "EditPool" THEN {WithDraft(e) : e \in Endpoints} ELSE {}) \cup
    (IF screen = "Pools" /\ Len(cfg.pools) > 1 THEN {WithoutRow} ELSE {}) \cup
    (IF screen = "Pools" /\ IsRow(cfg, cursor) /\ cfg.id # NoAddress THEN {WithChoice}
     ELSE {})

(* Killed, or the power gone, in the middle of a save. *)
DiesSaving ==
    /\ lost < MaxLost /\ lost' = lost + 1
    /\ \E c \in Saving : file' \in Torn(c)
    /\ Ends

OnDashboard == MoveFocus \/ MineStops \/ MineStarts \/ BenchKey \/ OpenPools
OnPools == \/ MoveCursor \/ AskAddress \/ Choose \/ LeavePools \/ Delete
           \/ \E new \in BOOLEAN : OpenEdit(new)
OnForms == \/ LeaveSetup \/ LeaveRow
           \/ \E a \in Addresses : SaveSetup(a)
           \/ \E e \in Endpoints : SaveRow(e)

Next == \/ Launch \/ Quit \/ DiesSaving
        \/ OnDashboard \/ OnPools \/ OnForms
        \/ OpenSetup \/ OpenHelp \/ CloseHelp

Spec == Init /\ [][Next]_vars

----------------------------------------------------------------------------
(* Safety *)

Running == screen # "off"

(* connect_selected: "A chosen pool is tested, always".  The connection is to *)
(* the endpoint and for the address that the settings on the screen name, and *)
(* there is none without a pool chosen, whatever row was edited, added,       *)
(* deleted or moved, and whichever address was entered since.                 *)
ConnectedIsShown == Running => client = Tested(cfg)

(* A restart connects as the program is connected now: no handler leaves the  *)
(* settings it acts on out of the file, unless a save failed.                 *)
RestartResumes == Running /\ lost = 0 => Tested(Load(file)) = client

(* "The indices are used to subscript the vector on the very next frame": on  *)
(* every screen, whatever way led to it and whatever file was loaded.         *)
IndicesAreRows ==
    Running =>
        /\ IsRow(cfg, cfg.selected)
        /\ screen \in {"Pools", "EditPool"} => IsRow(cfg, cursor)
        /\ helpFrom = "Pools" /\ screen = "Help" => IsRow(cfg, cursor)
        /\ pending # -1 => screen = "Setup" /\ cfg.id = NoAddress /\ IsRow(cfg, pending)

(* The miners mine on the connection they were started on, and only while it  *)
(* is the one that is open.                                                   *)
MinesOnTheConnection == mode = "Mining" => client # NoClient /\ minesOn = client

(* step_focus: "MINE is not reachable until a pool has been chosen", also by  *)
(* a pool being deleted or an address refused with the focus on MINE.         *)
MineNeedsAChoice == screen = "Dashboard" /\ focus = F_MINE => cfg.chosen
=============================================================================
