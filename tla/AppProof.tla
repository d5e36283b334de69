------------------------------ MODULE AppProof ------------------------------
(***************************************************************************)
(* What module App promises, for every list of presets, every set of       *)
(* endpoints and addresses, and any number of rows, restarts and lost      *)
(* saves.                                                                  *)
(*                                                                         *)
(* The argument: the settings a program acts on are good (Good): they have *)
(* a list, a selection in it, and a pool is chosen only where there is an  *)
(* address.  Every handler makes good settings of good ones, and a file is *)
(* good but for its list (Sane), however a save was cut short.             *)
(***************************************************************************)
EXTENDS App, SequenceTheorems, TLAPS

----------------------------------------------------------------------------
(* The invariant *)

Sane(c) == c \in Settings /\ (c.chosen => c.id # NoAddress)

Good(c) == Sane(c) /\ c.pools # <<>> /\ IsRow(c, c.selected)

ListOpen == screen \in {"Pools", "EditPool"} \/ (screen = "Help" /\ helpFrom = "Pools")

(* What is at hand on each screen. *)
ScreenInv ==
    /\ Good(cfg)
    /\ ListOpen => IsRow(cfg, cursor) /\ focus = F_POOLS
    /\ pending # -1 => screen = "Setup" /\ cfg.id = NoAddress /\ IsRow(cfg, pending)
    /\ focus = F_MINE => cfg.chosen
    /\ client = Tested(cfg)
    /\ lost = 0 => cfg = Load(file)

IInv ==
    /\ TypeOK /\ Sane(file)
    /\ Running => ScreenInv
    /\ ~Running => focus = 0 /\ pending = -1 /\ mode = "Idle" /\ client = NoClient
    /\ MinesOnTheConnection

----------------------------------------------------------------------------
(* Rows and settings *)

LEMMA RowRemoved ==
    ASSUME NEW s \in Seq(Rows), NEW k \in 1..Len(s)
    PROVE  /\ RemoveAt(s, k) \in Seq(Rows)
           /\ Len(RemoveAt(s, k)) = Len(s) - 1
           /\ \A i \in 1..(Len(s) - 1) :
                  RemoveAt(s, k)[i] = IF i < k THEN s[i] ELSE s[i + 1]
  <1> DEFINE l == SubSeq(s, 1, k - 1)
             r == SubSeq(s, k + 1, Len(s))
  <1>1. l \in Seq(Rows) /\ Len(l) = k - 1 /\ \A i \in 1..(k - 1) : l[i] = s[i]
    OBVIOUS
  <1>2. r \in Seq(Rows) /\ Len(r) = Len(s) - k
        /\ \A i \in 1..(Len(s) - k) : r[i] = s[k + i]
    OBVIOUS
  <1>3. RemoveAt(s, k) = l \o r
    BY DEF RemoveAt
  <1> HIDE DEF l, r
  <1>c. /\ l \o r \in Seq(Rows) /\ Len(l \o r) = Len(l) + Len(r)
        /\ \A i \in 1..Len(l) + Len(r) :
               (l \o r)[i] = IF i <= Len(l) THEN l[i] ELSE r[i - Len(l)]
    BY <1>1, <1>2, ConcatProperties
  <1>4. l \o r \in Seq(Rows) /\ Len(l \o r) = Len(s) - 1
    BY <1>1, <1>2, <1>c
  <1>5. \A i \in 1..(Len(s) - 1) : (l \o r)[i] = IF i < k THEN s[i] ELSE s[i + 1]
    BY <1>1, <1>2, <1>c
  <1> QED BY <1>3, <1>4, <1>5

LEMMA ClampedIsGood ==
    ASSUME NEW c, Sane(c), c.pools # <<>>
    PROVE  /\ Good(Clamped(c))
           /\ Clamped(c).pools = c.pools /\ Clamped(c).id = c.id
           /\ Clamped(c).chosen = c.chosen
           /\ IsRow(c, c.selected) => Clamped(c) = c
  BY DEF Good, Sane, Clamped, IsRow, Settings

LEMMA TestedIsTyped ==
    ASSUME NEW c, Good(c)
    PROVE  Tested(c) \in Clients \cup {NoClient}
  BY DEF Good, Sane, Tested, IsRow, Row, Settings, Rows, Users, Clients

LEMMA CursorIsRow ==
    ASSUME NEW c, Good(c), NEW k \in Nat
    PROVE  /\ CursorIn(c, k) \in Nat /\ IsRow(c, CursorIn(c, k))
           /\ IsRow(c, k) => CursorIn(c, k) = k
  BY DEF Good, Sane, CursorIn, IsRow, Settings

LEMMA LoadedIsGood ==
    ASSUME NEW f, Sane(f)
    PROVE  Good(Load(f))
  <1> DEFINE c == IF f.pools = <<>> THEN [f EXCEPT !.pools = Presets, !.selected = 0]
                  ELSE f
  <1>1. Presets \in Seq(Rows)
    BY PresetAssumption DEF Rows
  <1>2. Sane(c) /\ c.pools # <<>>
    BY <1>1, PresetAssumption DEF Sane, Settings, Rows
  <1> QED BY <1>2, ClampedIsGood DEF Load

(* Good settings that are saved are loaded as they are. *)
LEMMA SavedIsLoaded ==
    ASSUME NEW f, Good(f)
    PROVE  Load(f) = f
  BY ClampedIsGood DEF Load, Good

LEMMA SaveIsSane ==
    ASSUME NEW c, Good(c), Sane(file), lost \in Nat, Save(c)
    PROVE  Sane(file') /\ lost' \in Nat /\ (lost' = 0 => Load(file') = c)
  BY SavedIsLoaded DEF Save, Good

LEMMA TornIsSane ==
    ASSUME NEW c, Good(c), NEW t \in Torn(c)
    PROVE  Sane(t)
  <1>1. Sane(NoFile)
    BY DEF Sane, NoFile, Settings, Users
  <1>2. ASSUME NEW k \in 1..(Len(c.pools) - 1), t = [c EXCEPT !.pools = SubSeq(@, 1, k)]
        PROVE  Sane(t)
    <2>1. SubSeq(c.pools, 1, k) \in Seq(Rows)
      BY DEF Good, Sane, Settings
    <2> QED BY <1>2, <2>1 DEF Good, Sane, Settings
  <1>3. ASSUME NEW k \in DOMAIN c.pools,
               t = [c EXCEPT !.pools = Append(SubSeq(@, 1, k - 1), NoEndpoint)]
        PROVE  Sane(t)
    <2>1. Append(SubSeq(c.pools, 1, k - 1), NoEndpoint) \in Seq(Rows)
      BY DEF Good, Sane, Settings, Rows
    <2> QED BY <1>3, <2>1 DEF Good, Sane, Settings
  <1> QED BY <1>1, <1>2, <1>3 DEF Torn

----------------------------------------------------------------------------
(* The handlers that leave the settings alone *)

LEMMA StepFocusStops ==
    ASSUME TypeOK, NEW dir \in {-1, 1}
    PROVE  StepFocus(dir) \in 0..4 /\ (StepFocus(dir) = F_MINE => cfg.chosen)
  <1> DEFINE at(i) == (focus + i * dir + F_COUNT * F_COUNT) % F_COUNT
             Near(i) == Focusable(at(i)) /\ \A j \in 1..(i - 1) : ~Focusable(at(j))
  <1>1. focus \in 0..4
    BY DEF TypeOK, F_COUNT
  <1>2. \A i \in 1..F_COUNT : at(i) \in 0..4
    BY <1>1 DEF F_COUNT
  <1>3. at(1) # F_MINE \/ at(2) # F_MINE
    BY <1>1 DEF F_COUNT, F_MINE
  <1>4. \E i \in 1..F_COUNT : Near(i)
    <2>1. CASE Focusable(at(1))
      <3>1. Near(1)
        BY <2>1
      <3> QED BY <3>1 DEF F_COUNT
    <2>2. CASE ~Focusable(at(1))
      <3>1. Focusable(at(2))
        BY <2>2, <1>3 DEF Focusable
      <3>2. Near(2)
        BY <3>1, <2>2
      <3> QED BY <3>2 DEF F_COUNT
    <2> QED BY <2>1, <2>2
  <1> DEFINE near == CHOOSE i \in 1..F_COUNT : Near(i)
  <1>5. near \in 1..F_COUNT /\ Near(near)
    BY <1>4
  <1>6. StepFocus(dir) = at(near)
    BY DEF StepFocus
  <1> HIDE DEF near
  <1> QED BY <1>2, <1>5, <1>6 DEF Focusable

LEMMA KeysAside ==
    ASSUME IInv,
           \/ MoveFocus \/ MineStops \/ MineStarts \/ BenchKey \/ OpenSetup \/ OpenHelp
           \/ CloseHelp \/ MoveCursor \/ AskAddress \/ LeavePools \/ LeaveRow
           \/ \E new \in BOOLEAN : OpenEdit(new)
    PROVE  IInv'
  <1> USE DEF IInv, TypeOK, ScreenInv, ListOpen, Running, MinesOnTheConnection, formVars,
              Screens, F_COUNT, F_MINE, F_POOLS
  <1>1. CASE MoveFocus
    BY <1>1, StepFocusStops DEF MoveFocus
  <1>2. CASE MineStops
    BY <1>2 DEF MineStops, StopMining, ModeStopped
  <1>3. CASE MineStarts
    BY <1>3 DEF MineStarts
  <1>4. CASE BenchKey
    BY <1>4 DEF BenchKey
  <1>5. CASE OpenSetup
    BY <1>5 DEF OpenSetup
  <1>6. CASE OpenHelp
    BY <1>6 DEF OpenHelp
  <1>7. CASE CloseHelp
    BY <1>7 DEF CloseHelp
  <1>8. CASE MoveCursor
    BY <1>8 DEF MoveCursor, IsRow, Good, Sane, Settings
  <1>9. CASE AskAddress
    BY <1>9 DEF AskAddress
  <1>10. CASE LeavePools
    BY <1>10 DEF LeavePools
  <1>11. CASE LeaveRow
    BY <1>11 DEF LeaveRow
  <1>12. ASSUME NEW new \in BOOLEAN, OpenEdit(new) PROVE IInv'
    BY <1>12 DEF OpenEdit
  <1> QED BY <1>1, <1>2, <1>3, <1>4, <1>5, <1>6, <1>7, <1>8, <1>9, <1>10, <1>11, <1>12

----------------------------------------------------------------------------
(* What the handlers make of the settings *)

LEMMA ChoiceIsGood ==
    ASSUME Good(cfg), IsRow(cfg, cursor), cursor \in Nat, cfg.id # NoAddress
    PROVE  Good(WithChoice) /\ WithChoice.chosen
  BY DEF Good, Sane, WithChoice, IsRow, Settings

LEMMA AddressIsGood ==
    ASSUME Good(cfg), NEW a \in Addresses, pending \in Nat \cup {-1},
           pending # -1 => cfg.id = NoAddress /\ IsRow(cfg, pending)
    PROVE  /\ Good(WithAddress(a)) /\ WithAddress(a).pools = cfg.pools
           /\ cfg.chosen => WithAddress(a).chosen
           /\ a = cfg.id \/ ~WithAddress(a).chosen => Tested(WithAddress(a)) = Tested(cfg)
  <1> DEFINE c == IF IsRow(cfg, pending)
                  THEN [cfg EXCEPT !.id = a, !.selected = pending, !.chosen = TRUE]
                  ELSE [cfg EXCEPT !.id = a]
  <1>1. Sane(c) /\ c.pools # <<>> /\ c.pools = cfg.pools /\ IsRow(c, c.selected)
    <2>1. CASE IsRow(cfg, pending)
      <3>1. pending \in Nat
        BY <2>1 DEF IsRow, Good, Sane, Settings
      <3>2. c = [id |-> a, pools |-> cfg.pools, selected |-> pending, chosen |-> TRUE]
        BY <2>1 DEF Good, Sane, Settings
      <3> HIDE DEF c
      <3> QED BY <2>1, <3>1, <3>2, AddressAssumption
             DEF Good, Sane, Settings, Users, IsRow
    <2>2. CASE ~IsRow(cfg, pending)
      <3>1. c = [id |-> a, pools |-> cfg.pools, selected |-> cfg.selected,
                 chosen |-> cfg.chosen]
        BY <2>2 DEF Good, Sane, Settings
      <3> HIDE DEF c
      <3> QED BY <3>1, AddressAssumption DEF Good, Sane, Settings, Users, IsRow
    <2> QED BY <2>1, <2>2
  <1>2. Good(c) /\ WithAddress(a) = c
    BY <1>1, ClampedIsGood DEF WithAddress, Good
  <1>3. cfg.chosen => c.chosen
    BY DEF Good, Sane, Settings
  <1>4. a = cfg.id => c = cfg
    <2> SUFFICES ASSUME a = cfg.id PROVE c = cfg
      OBVIOUS
    <2>1. pending = -1
      BY AddressAssumption
    <2>2. ~IsRow(cfg, pending)
      BY <2>1 DEF IsRow, Good, Sane, Settings
    <2> QED BY <2>2 DEF Good, Sane, Settings
  <1>5. ~c.chosen => Tested(c) = Tested(cfg)
    BY <1>3 DEF Tested
  <1> QED BY <1>1, <1>2, <1>3, <1>4, <1>5

LEMMA RemovalIsGood ==
    ASSUME Good(cfg), IsRow(cfg, cursor), cursor \in Nat, Len(cfg.pools) > 1
    PROVE  /\ Good(WithoutRow)
           /\ Tested(WithoutRow) = IF IsLive THEN NoClient ELSE Tested(cfg)
  <1> DEFINE rows == RemoveAt(cfg.pools, cursor + 1)
  <1>1. cfg.pools \in Seq(Rows) /\ cursor + 1 \in 1..Len(cfg.pools)
    BY DEF Good, Sane, Settings, IsRow
  <1>2. /\ rows \in Seq(Rows) /\ Len(rows) = Len(cfg.pools) - 1
        /\ \A i \in 1..(Len(cfg.pools) - 1) :
               rows[i] = IF i < cursor + 1 THEN cfg.pools[i] ELSE cfg.pools[i + 1]
    BY <1>1, RowRemoved
  <1> HIDE DEF rows
  <1>3. rows # <<>>
    BY <1>1, <1>2
  <1>4. CASE IsLive
    <2> DEFINE c == [cfg EXCEPT !.pools = rows, !.chosen = FALSE]
    <2>1. Sane(c) /\ c.pools # <<>> /\ ~c.chosen
      BY <1>2, <1>3 DEF Good, Sane, Settings
    <2>2. WithoutRow = Clamped(c)
      BY <1>4 DEF WithoutRow, rows
    <2>3. Good(Clamped(c)) /\ ~Clamped(c).chosen
      BY <2>1, ClampedIsGood
    <2> QED BY <2>2, <2>3, <1>4 DEF Tested
  <1>5. CASE ~IsLive
    <2> DEFINE to == IF cfg.selected > cursor THEN cfg.selected - 1 ELSE cfg.selected
               c == [cfg EXCEPT !.pools = rows, !.selected = to]
    <2>1. WithoutRow = Clamped(c)
      BY <1>5 DEF WithoutRow, rows, Good, Sane, Settings
    <2>t. to \in Nat
      BY DEF Good, Sane, Settings
    <2>c. /\ c \in Settings /\ c.pools = rows /\ c.selected = to
          /\ c.id = cfg.id /\ c.chosen = cfg.chosen
      <3>1. cfg \in Settings
        BY DEF Good, Sane
      <3>2. rows \in Seq(Rows)
        BY <1>2
      <3> HIDE DEF to
      <3> QED BY <3>1, <3>2, <2>t DEF Settings
    <2> HIDE DEF c
    <2>2. Sane(c) /\ c.pools = rows /\ c.selected = to /\ c.chosen = cfg.chosen
          /\ c.id = cfg.id
      <3> HIDE DEF to
      <3> QED BY <2>c DEF Good, Sane
    <2>3. Good(Clamped(c)) /\ Clamped(c).chosen = c.chosen
          /\ (IsRow(c, c.selected) => Clamped(c) = c)
      BY <2>2, <1>3, ClampedIsGood
    <2>4. CASE ~cfg.chosen
      BY <2>1, <2>2, <2>3, <2>4, <1>5 DEF Tested
    <2>5. CASE cfg.chosen
      <3>1. cfg.selected # cursor
        BY <2>5, <1>5 DEF IsLive
      <3>0. cfg.selected + 1 \in 1..Len(cfg.pools) /\ cfg.selected \in Nat
        BY DEF Good, Sane, Settings, IsRow
      <3>a. to + 1 \in 1..(Len(cfg.pools) - 1)
        BY <3>0, <3>1, <1>1
      <3>b. rows[to + 1] = cfg.pools[cfg.selected + 1]
        <4>1. CASE cfg.selected > cursor
          <5>1. to + 1 = cfg.selected /\ ~(to + 1 < cursor + 1)
            BY <4>1, <3>0, <1>1
          <5> QED BY <5>1, <3>a, <1>2
        <4>2. CASE ~(cfg.selected > cursor)
          <5>1. to + 1 = cfg.selected + 1 /\ to + 1 < cursor + 1
            BY <4>2, <3>0, <3>1, <1>1
          <5> QED BY <5>1, <3>a, <1>2
        <4> QED BY <4>1, <4>2
      <3>c. DOMAIN rows = 1..(Len(cfg.pools) - 1)
        BY <1>1, <1>2
      <3> HIDE DEF to
      <3>2. IsRow(c, c.selected) /\ Row(c, c.selected) = Row(cfg, cfg.selected)
        BY <3>a, <3>b, <3>c, <2>2 DEF IsRow, Row
      <3>3. WithoutRow = c
        BY <3>2, <2>3, <2>1
      <3> QED BY <3>2, <3>3, <2>1, <2>2, <2>3, <1>5 DEF Tested
    <2> QED BY <2>4, <2>5
  <1> QED BY <1>4, <1>5

LEMMA DraftIsGood ==
    ASSUME Good(cfg), IsRow(cfg, cursor), cursor \in Nat, editingNew \in BOOLEAN,
           NEW e \in Endpoints
    PROVE  /\ Good(WithDraft(e))
           /\ ~(IsLive /\ ~editingNew) => Tested(WithDraft(e)) = Tested(cfg)
  <1> DEFINE c == IF editingNew THEN [cfg EXCEPT !.pools = Append(@, e)]
                  ELSE [cfg EXCEPT !.pools[cursor + 1] = e]
  <1>1. cfg.pools \in Seq(Rows) /\ e \in Rows /\ cursor + 1 \in 1..Len(cfg.pools)
    BY DEF Good, Sane, Settings, IsRow, Rows
  <1>2. /\ c.pools \in Seq(Rows) /\ Len(c.pools) >= Len(cfg.pools)
        /\ \A i \in 1..Len(cfg.pools) :
               editingNew \/ i # cursor + 1 => c.pools[i] = cfg.pools[i]
    <2>1. CASE editingNew
      <3>1. c.pools = Append(cfg.pools, e)
        BY <2>1 DEF Good, Sane, Settings
      <3> QED BY <3>1, <2>1, <1>1
    <2>2. CASE ~editingNew
      <3>1. c.pools = [cfg.pools EXCEPT ![cursor + 1] = e]
        BY <2>2 DEF Good, Sane, Settings
      <3> QED BY <3>1, <2>2, <1>1
    <2> QED BY <2>1, <2>2
  <1>3. c \in [id : Users, pools : Seq(Rows), selected : Nat, chosen : BOOLEAN]
        /\ c.id = cfg.id /\ c.selected = cfg.selected /\ c.chosen = cfg.chosen
    BY <1>1, <1>2 DEF Good, Sane, Settings
  <1>4. WithDraft(e) = Clamped(c)
    BY DEF WithDraft
  <1> HIDE DEF c
  <1>5. IsRow(c, c.selected) /\ c.pools # <<>>
    BY <1>1, <1>2, <1>3 DEF Good, Sane, Settings, IsRow
  <1>6. Good(c) /\ WithDraft(e) = c
    BY <1>3, <1>4, <1>5, ClampedIsGood DEF Good, Sane, Settings
  <1>7. ASSUME ~(IsLive /\ ~editingNew) PROVE Tested(c) = Tested(cfg)
    <2>1. CASE ~cfg.chosen
      BY <2>1, <1>3 DEF Tested
    <2>2. CASE cfg.chosen
      <3>1. Row(c, c.selected) = Row(cfg, cfg.selected)
        BY <2>2, <1>2, <1>3, <1>7 DEF IsLive, Row, Good, Sane, Settings, IsRow
      <3> QED BY <3>1, <1>3 DEF Tested
    <2> QED BY <2>1, <2>2
  <1> QED BY <1>6, <1>7

----------------------------------------------------------------------------
(* The handlers that change the settings, launch and end *)

LEMMA InitInv == Init => IInv
  <1>1. Sane(NoFile) /\ NoFile \in Settings
    BY DEF Sane, NoFile, Settings, Users
  <1> SUFFICES ASSUME Init PROVE IInv
    OBVIOUS
  <1>2. TypeOK
    <2>1. editingNew \in BOOLEAN
      BY DEF Init
    <2>2. pending \in Nat \cup {-1} /\ focus \in 0..(F_COUNT - 1)
      BY DEF Init, F_COUNT
    <2> QED BY <1>1, <2>1, <2>2 DEF Init, TypeOK, Screens
  <1> QED BY <1>1, <1>2 DEF Init, IInv, Running, MinesOnTheConnection

LEMMA LaunchKeepsInv == IInv /\ Launch => IInv'
  <1> SUFFICES ASSUME IInv, Launch PROVE IInv'
    OBVIOUS
  <1>1. Good(Load(file)) /\ Tested(Load(file)) \in Clients \cup {NoClient}
    BY LoadedIsGood, TestedIsTyped DEF IInv
  <1>2. focus = 0 /\ pending = -1 /\ mode = "Idle"
    BY DEF IInv, Launch, Running
  <1>3. TypeOK'
    BY <1>1 DEF IInv, TypeOK, Launch, Good, Sane, Screens, formVars
  <1>4. ScreenInv'
    BY <1>1, <1>2 DEF Launch, ScreenInv, ListOpen, formVars, F_MINE
  <1> QED BY <1>2, <1>3, <1>4 DEF IInv, Launch, Running, MinesOnTheConnection

LEMMA EndKeepsInv == IInv /\ (Quit \/ DiesSaving) => IInv'
  <1> SUFFICES ASSUME IInv, Quit \/ DiesSaving PROVE IInv'
    OBVIOUS
  <1>1. Ends
    BY DEF Quit, DiesSaving
  <1>2. Sane(file') /\ lost' \in Nat
    <2>1. CASE Quit
      BY <2>1 DEF Quit, IInv, TypeOK
    <2>2. CASE DiesSaving
      <3>1. screen \in {"Setup", "EditPool", "Pools"}
        BY <2>2 DEF DiesSaving, Saving
      <3>2. ScreenInv /\ pending \in Nat \cup {-1} /\ cursor \in Nat
            /\ editingNew \in BOOLEAN
        BY <3>1 DEF IInv, Running, TypeOK
      <3>3. PICK c \in Saving : file' \in Torn(c)
        BY <2>2 DEF DiesSaving
      <3>4. CASE screen = "Setup"
        <4>1. PICK a \in Addresses : c = WithAddress(a)
          BY <3>3, <3>4 DEF Saving
        <4>2. Good(c)
          BY <4>1, <3>2, AddressIsGood DEF ScreenInv
        <4> QED BY <4>2, <3>3, TornIsSane, <2>2 DEF DiesSaving, IInv, TypeOK
      <3>5. CASE screen = "EditPool"
        <4>1. PICK e \in Endpoints : c = WithDraft(e)
          BY <3>3, <3>5 DEF Saving
        <4>2. Good(c)
          BY <4>1, <3>2, <3>5, DraftIsGood DEF ScreenInv, ListOpen
        <4> QED BY <4>2, <3>3, TornIsSane, <2>2 DEF DiesSaving, IInv, TypeOK
      <3>6. CASE screen = "Pools"
        <4>1. (Len(cfg.pools) > 1 /\ c = WithoutRow) \/ (cfg.id # NoAddress /\ c = WithChoice)
          BY <3>3, <3>6 DEF Saving
        <4>2. Good(c)
          BY <4>1, <3>2, <3>6, RemovalIsGood, ChoiceIsGood DEF ScreenInv, ListOpen
        <4> QED BY <4>2, <3>3, TornIsSane, <2>2 DEF DiesSaving, IInv, TypeOK
      <3> QED BY <3>1, <3>4, <3>5, <3>6
    <2> QED BY <2>1, <2>2
  <1>3. NoFile \in Settings
    BY DEF NoFile, Settings, Users
  <1>4. TypeOK'
    <2>1. file' \in Settings /\ lost' \in Nat
      BY <1>2 DEF Sane
    <2>2. editingNew' \in BOOLEAN
      BY <1>1 DEF Ends
    <2>3. pending' \in Nat \cup {-1} /\ focus' \in 0..(F_COUNT - 1)
      BY <1>1 DEF Ends, F_COUNT
    <2> QED BY <1>1, <1>3, <2>1, <2>2, <2>3 DEF Ends, TypeOK, Screens
  <1> QED BY <1>1, <1>2, <1>4 DEF Ends, IInv, Running, MinesOnTheConnection

LEMMA OpenPoolsKeepsInv == IInv /\ OpenPools => IInv'
  <1> SUFFICES ASSUME IInv, OpenPools PROVE IInv'
    OBVIOUS
  <1>1. ScreenInv
    BY DEF IInv, OpenPools, Running
  <1>2. cfg' = cfg
    BY <1>1, ClampedIsGood DEF OpenPools, ScreenInv, Good
  <1>3. cursor' \in Nat /\ IsRow(cfg, cursor')
    <2>1. cfg.selected \in Nat
      BY <1>1 DEF ScreenInv, Good, Sane, Settings
    <2> QED BY <2>1, <1>1, CursorIsRow DEF OpenPools, ScreenInv
  <1>4. TypeOK'
    BY <1>2, <1>3 DEF OpenPools, IInv, TypeOK, Screens, formVars
  <1>5. ScreenInv'
    BY <1>1, <1>2, <1>3 DEF OpenPools, ScreenInv, ListOpen, formVars, F_MINE, F_POOLS
  <1> QED BY <1>4, <1>5 DEF OpenPools, IInv, Running, MinesOnTheConnection

LEMMA LeaveSetupKeepsInv == IInv /\ LeaveSetup => IInv'
  <1> SUFFICES ASSUME IInv, LeaveSetup PROVE IInv'
    OBVIOUS
  <1>1. ScreenInv
    BY DEF IInv, LeaveSetup, Running
  <1>2. cfg' = cfg /\ client' = client
    <2>1. CASE cfg.id = NoAddress
      <3>1. ~cfg.chosen /\ client = NoClient
        BY <2>1, <1>1 DEF ScreenInv, Good, Sane, Tested
      <3> QED BY <2>1, <3>1, <1>1 DEF LeaveSetup, ScreenInv, Good, Sane, Settings
    <2>2. CASE cfg.id # NoAddress
      BY <2>2 DEF LeaveSetup
    <2> QED BY <2>1, <2>2
  <1>3. TypeOK'
    BY <1>2 DEF LeaveSetup, IInv, TypeOK, Screens
  <1>4. ScreenInv'
    BY <1>1, <1>2 DEF LeaveSetup, ScreenInv, ListOpen
  <1> QED BY <1>2, <1>3, <1>4 DEF LeaveSetup, IInv, Running, MinesOnTheConnection

(* What such a handler leaves behind where it puts good settings c into force *)
(* and saves them, and the connection is that of c.                           *)
LEMMA SavingKeepsInv ==
    ASSUME IInv, Running, NEW c, Good(c), cfg' = c, Save(c),
           client' = Tested(c), mode' \in {mode, ModeStopped},
           mode' = "Mining" => client' = client, minesOn' = minesOn,
           screen' \in {"Dashboard", "Pools"}, helpFrom' = helpFrom,
           focus' = F_MINE => c.chosen, focus' \in 0..4, cursor' \in Nat,
           screen' = "Pools" => focus' = F_POOLS /\ IsRow(c, cursor'),
           pending' = -1, editingNew' \in BOOLEAN
    PROVE  IInv'
  <1>1. Sane(file') /\ lost' \in Nat /\ (lost' = 0 => Load(file') = c)
    BY SaveIsSane DEF IInv, TypeOK
  <1>2. client' \in Clients \cup {NoClient}
    BY TestedIsTyped
  <1>3. mode' \in {"Idle", "Mining", "Benchmark"} /\ (mode' = "Mining" => mode = "Mining")
    BY DEF IInv, TypeOK, ModeStopped
  <1>4. c \in Settings /\ file' \in Settings
    BY <1>1 DEF Good, Sane
  <1>5. TypeOK'
    BY <1>1, <1>2, <1>3, <1>4 DEF IInv, TypeOK, Screens, F_COUNT
  <1>6. ScreenInv'
    BY <1>1 DEF ScreenInv, ListOpen
  <1>7. MinesOnTheConnection'
    BY <1>3 DEF IInv, MinesOnTheConnection
  <1> QED BY <1>1, <1>5, <1>6, <1>7 DEF IInv, Running

LEMMA SaveSetupKeepsInv ==
    ASSUME IInv, NEW a \in Addresses, SaveSetup(a)
    PROVE  IInv'
  <1> DEFINE c == WithAddress(a)
  <1>1. ScreenInv /\ TypeOK /\ Running
    BY DEF IInv, SaveSetup, Running
  <1>2. /\ Good(c) /\ c.pools = cfg.pools /\ (cfg.chosen => c.chosen)
        /\ a = cfg.id \/ ~c.chosen => Tested(c) = Tested(cfg)
    BY <1>1, AddressIsGood DEF ScreenInv, TypeOK
  <1>3. cfg' = c /\ Save(c) /\ RetestIf(a # cfg.id /\ c.chosen, c)
        /\ screen' = "Dashboard" /\ pending' = -1
        /\ helpFrom' = helpFrom /\ focus' = focus /\ editingNew' = editingNew
        /\ cursor' = CursorIn(cfg, cursor)
    BY DEF SaveSetup
  <1> HIDE DEF c
  <1>4. cursor' \in Nat
    BY <1>1, <1>3, CursorIsRow DEF ScreenInv, TypeOK
  <1>5. /\ client' = Tested(c) /\ minesOn' = minesOn
        /\ mode' \in {mode, ModeStopped} /\ (mode' = "Mining" => client' = client)
    BY <1>1, <1>2, <1>3 DEF RetestIf, StopMining, ModeStopped, ScreenInv
  <1>6. /\ focus' = F_MINE => c.chosen
        /\ focus' \in 0..4 /\ editingNew' \in BOOLEAN
    BY <1>1, <1>2, <1>3 DEF ScreenInv, TypeOK, F_COUNT
  <1> QED BY <1>1, <1>2, <1>3, <1>4, <1>5, <1>6, SavingKeepsInv

LEMMA ChooseKeepsInv == IInv /\ Choose => IInv'
  <1> SUFFICES ASSUME IInv, Choose PROVE IInv'
    OBVIOUS
  <1>1. ScreenInv /\ TypeOK /\ Running
    BY DEF IInv, Choose, Running
  <1>2. Good(WithChoice) /\ WithChoice.chosen
    BY <1>1, ChoiceIsGood DEF Choose, ScreenInv, TypeOK
  <1>3. pending' = -1
    BY <1>1 DEF Choose, ScreenInv, formVars
  <1>4. /\ client' = Tested(WithChoice) /\ minesOn' = minesOn
        /\ mode' = ModeStopped /\ mode' # "Mining"
    BY DEF Choose, RetestIf, StopMining, ModeStopped
  <1>5. /\ cfg' = WithChoice /\ Save(WithChoice) /\ screen' = "Dashboard"
        /\ focus' = F_MINE /\ cursor' = cursor
        /\ helpFrom' = helpFrom /\ editingNew' = editingNew
    BY DEF Choose, formVars
  <1>6. cursor' \in Nat /\ editingNew' \in BOOLEAN /\ focus' \in 0..4
    BY <1>1, <1>5 DEF TypeOK, F_MINE
  <1> QED BY <1>1, <1>2, <1>3, <1>4, <1>5, <1>6, SavingKeepsInv

LEMMA DeleteKeepsInv == IInv /\ Delete => IInv'
  <1> SUFFICES ASSUME IInv, Delete PROVE IInv'
    OBVIOUS
  <1>1. ScreenInv /\ TypeOK /\ Running /\ IsRow(cfg, cursor) /\ focus = F_POOLS
    BY DEF IInv, Delete, Running, ScreenInv, ListOpen
  <1>2. /\ Good(WithoutRow)
        /\ Tested(WithoutRow) = IF IsLive THEN NoClient ELSE Tested(cfg)
    BY <1>1, RemovalIsGood DEF Delete, ScreenInv, TypeOK
  <1>3. /\ cfg' = WithoutRow /\ Save(WithoutRow) /\ screen' = "Pools"
        /\ cursor' = CursorIn(WithoutRow, cursor) /\ focus' = focus
        /\ helpFrom' = helpFrom /\ pending' = pending /\ editingNew' = editingNew
    BY DEF Delete, formVars
  <1>4. cursor' \in Nat /\ IsRow(WithoutRow, cursor')
    BY <1>1, <1>2, <1>3, CursorIsRow DEF TypeOK
  <1>5. /\ client' = Tested(WithoutRow) /\ minesOn' = minesOn
        /\ mode' \in {mode, ModeStopped} /\ (mode' = "Mining" => client' = client)
    BY <1>1, <1>2 DEF Delete, StopMining, ModeStopped, ScreenInv
  <1>6. pending' = -1
    BY <1>1, <1>3 DEF Delete, ScreenInv
  <1>7. editingNew' \in BOOLEAN /\ focus' \in 0..4 /\ focus' # F_MINE
    BY <1>1, <1>3 DEF TypeOK, F_POOLS, F_MINE
  <1> QED BY <1>1, <1>2, <1>3, <1>4, <1>5, <1>6, <1>7, SavingKeepsInv

LEMMA SaveRowKeepsInv ==
    ASSUME IInv, NEW e \in Endpoints, SaveRow(e)
    PROVE  IInv'
  <1> DEFINE c == WithDraft(e)
             k == IF editingNew THEN Len(cfg.pools) ELSE cursor
  <1>1. ScreenInv /\ TypeOK /\ Running /\ IsRow(cfg, cursor) /\ focus = F_POOLS
    BY DEF IInv, SaveRow, Running, ScreenInv, ListOpen
  <1>2. /\ Good(c)
        /\ ~(IsLive /\ ~editingNew) => Tested(c) = Tested(cfg)
    BY <1>1, DraftIsGood DEF ScreenInv, TypeOK
  <1>k. k \in Nat
    BY <1>1 DEF ScreenInv, TypeOK, Good, Sane, Settings
  <1>3. /\ cfg' = c /\ Save(c) /\ RetestIf(IsLive /\ ~editingNew, c)
        /\ screen' = "Pools" /\ editingNew' = FALSE /\ cursor' = CursorIn(c, k)
        /\ helpFrom' = helpFrom /\ pending' = pending /\ focus' = focus
    BY DEF SaveRow
  <1> HIDE DEF c, k
  <1>4. cursor' \in Nat /\ IsRow(c, cursor')
    BY <1>2, <1>3, <1>k, CursorIsRow
  <1>5. /\ client' = Tested(c) /\ minesOn' = minesOn
        /\ mode' \in {mode, ModeStopped} /\ (mode' = "Mining" => client' = client)
    BY <1>1, <1>2, <1>3 DEF RetestIf, StopMining, ModeStopped, ScreenInv
  <1>6. pending' = -1
    BY <1>1, <1>3 DEF SaveRow, ScreenInv
  <1>7. focus' \in 0..4 /\ focus' # F_MINE /\ focus' = F_POOLS
    BY <1>1, <1>3 DEF F_POOLS, F_MINE
  <1> QED BY <1>1, <1>2, <1>3, <1>4, <1>5, <1>6, <1>7, SavingKeepsInv

----------------------------------------------------------------------------
(* The invariant, and what follows from it *)

LEMMA StepKeepsInv == IInv /\ [Next]_vars => IInv'
  <1> SUFFICES ASSUME IInv, [Next]_vars PROVE IInv'
    OBVIOUS
  <1>1. CASE Launch \/ Quit \/ DiesSaving
    BY <1>1, LaunchKeepsInv, EndKeepsInv
  <1>2. CASE OnDashboard
    BY <1>2, KeysAside, OpenPoolsKeepsInv DEF OnDashboard
  <1>3. CASE OnPools
    BY <1>3, KeysAside, ChooseKeepsInv, DeleteKeepsInv DEF OnPools
  <1>4. CASE OnForms
    BY <1>4, KeysAside, LeaveSetupKeepsInv, SaveSetupKeepsInv, SaveRowKeepsInv DEF OnForms
  <1>5. CASE OpenSetup \/ OpenHelp \/ CloseHelp
    BY <1>5, KeysAside
  <1>6. CASE UNCHANGED vars
    BY <1>6 DEF vars, formVars, IInv, TypeOK, Running, ScreenInv, ListOpen,
                MinesOnTheConnection
  <1> QED BY <1>1, <1>2, <1>3, <1>4, <1>5, <1>6 DEF Next

LEMMA Invariance == Spec => []IInv
  BY InitInv, StepKeepsInv, PTL DEF Spec

(* Every variable keeps its type, in all the restarts and torn files. *)
THEOREM AppTyped == Spec => []TypeOK
  <1>1. IInv => TypeOK
    BY DEF IInv
  <1> QED BY <1>1, Invariance, PTL

(* connect_selected: the connection is to what the settings name, after any   *)
(* number of edits, deletions, choices and addresses.                         *)
THEOREM ShownIsConnected == Spec => []ConnectedIsShown
  <1>1. IInv => ConnectedIsShown
    BY DEF IInv, ScreenInv, ConnectedIsShown
  <1> QED BY <1>1, Invariance, PTL

(* load_settings after save_settings: while no save failed, a restart connects *)
(* as the program is connected.                                                *)
THEOREM RestartFindsTheSame == Spec => []RestartResumes
  <1>1. IInv => RestartResumes
    BY DEF IInv, ScreenInv, RestartResumes
  <1> QED BY <1>1, Invariance, PTL

(* clamp_pools: no screen subscripts the list outside its rows, for a list of  *)
(* any length and whatever a cut save left of it.                              *)
THEOREM IndicesStayRows == Spec => []IndicesAreRows
  <1>1. IInv => IndicesAreRows
    BY DEF IInv, ScreenInv, ListOpen, Good, IndicesAreRows
  <1> QED BY <1>1, Invariance, PTL

(* The handlers that replace or drop the connection stop the miners first. *)
THEOREM MinersStayPut == Spec => []MinesOnTheConnection
  <1>1. IInv => MinesOnTheConnection
    BY DEF IInv
  <1> QED BY <1>1, Invariance, PTL

(* step_focus and the handlers that end a choice: the focus is on MINE only   *)
(* while a pool is chosen.                                                    *)
THEOREM MineWasChosen == Spec => []MineNeedsAChoice
  <1>1. IInv => MineNeedsAChoice
    BY DEF IInv, ScreenInv, Running, MineNeedsAChoice
  <1> QED BY <1>1, Invariance, PTL
=============================================================================
