---------------------------- MODULE IdentityStore ----------------------------
(***************************************************************************)
(* The Bluetooth identity and the simulated battery: the record in RAM, its   *)
(* keys in NVS, the advertising under that identity, and the restart that makes *)
(* a new identity the advertised one (typx_ble_identity.c,                     *)
(* typx_identity_service.c, typx_identity_http.c, typx_ble_hid.c).             *)
(*                                                                           *)
(* s_mutex is held over a whole operation, so one is in progress at a time,    *)
(* but a power cut or the reboot task may end it between two writes, and each  *)
(* write may fail: nvs_set_* and nvs_erase_key reach the flash one by one, and *)
(* nothing is rolled back.                                                    *)
(*                                                                           *)
(* name stands for the five texts that are always stored, and serial for the  *)
(* one that may be left to the board; minutes stand for the drop interval.     *)
(* restart_req is written and never read, and is left out.  A bond is told      *)
(* apart by the identity it was made under: the present one or an earlier one.   *)
(***************************************************************************)
EXTENDS Integers, Sequences

CONSTANTS
  Names, DefaultName,     \* a name, and what the board is called at first
  Serials, ChipSerial,    \* a serial, and the one derived from the chip
  NoText,                 \* an empty serial; also a key that NVS has not got
  MaxPercent,             \* 100
  DefaultLow, DefaultHigh,
  Interval,               \* active time for one percent
  MaxDelta,               \* bound: time between two reports
  Requests,               \* identities that are asked for, valid or not
  MaxChanges,             \* bound: saves and resets
  MaxBoots                \* bound: boots after the first

ASSUME TextAssumption ==
  /\ DefaultName \in Names /\ ChipSerial \in Serials
  /\ NoText \notin Names \union Serials \union Int
ASSUME PercentAssumption ==
  /\ MaxPercent \in Nat /\ DefaultLow \in 0 .. MaxPercent
  /\ DefaultHigh \in DefaultLow + 1 .. MaxPercent
ASSUME TimeAssumption == Interval \in Nat \ {0} /\ MaxDelta \in Nat
ASSUME BoundsAssumption == MaxChanges \in Nat /\ MaxBoots \in Nat

Config == [name : Names, serial : Serials, low : Int, high : Int, level : Int]

ASSUME RequestsAssumption ==
  Requests \subseteq [name : Names, serial : Serials \union {NoText},
                      low : Int, high : Int, level : Int]

VARIABLES
  config,           \* s_state.config
  restartRequired,  \* s_state.restart_required
  active, open,     \* battery_active_ms, activity_open
  nvs,              \* the keys of the namespace
  op,               \* the operation that holds s_mutex
  advertised,       \* s_identity: the identity of this boot
  shown,            \* the level the host sees; it sees none before START
  bonds,            \* hosts are bonded with this identity, with an old one
  restart,          \* where restart_handler and its reboot task stand
  ready,            \* s_adv_data_ready, s_scan_response_ready, s_hid_ready
  advertising,      \* the controller advertises
  link,             \* the link, which is lost before the firmware is told so
  changes, boots,
  torn,             \* history: NVS may hold a part of an operation
  unshown,          \* history: a new level was not passed on to the host
  muted,            \* history: advertising was refused, or stopped in vain
  late              \* history: a save or a pairing after the restart was answered

stateVars == <<config, restartRequired, active, open>>
hostVars == <<shown, unshown>>
linkVars == <<ready, advertising, link, muted>>
bootVars == <<advertised, bonds, restart, late>>
counters == <<changes, boots>>
vars == <<stateVars, nvs, op, hostVars, linkVars, bootVars, counters, torn>>

-----------------------------------------------------------------------------
(* typx_ble_identity.c *)

Keys == {"name", "serial", "low", "high", "level", "active"}

Valid(c) ==
  /\ c.low \in 0 .. MaxPercent - 1 /\ c.high \in 1 .. MaxPercent /\ c.low < c.high
  /\ c.level \in c.low .. c.high

Defaults == [name |-> DefaultName, serial |-> ChipSerial,
             low |-> DefaultLow, high |-> DefaultHigh, level |-> DefaultHigh]

Identity(c) == [name |-> c.name, serial |-> c.serial]

\* Each key overrides one default ...
Overridden(keys) ==
  [field \in DOMAIN Defaults |->
     IF keys[field] = NoText THEN Defaults[field] ELSE keys[field]]

\* Mutant: what is stored is taken as it is.
LoadedUnvalidated(keys) == Overridden(keys)

\* ... and a whole that is not valid overrides none.
Loaded(keys) == IF Valid(Overridden(keys)) THEN Overridden(keys) ELSE Defaults

LoadedActive(keys) ==
  IF ~Valid(Overridden(keys)) \/ keys["active"] = NoText THEN 0 ELSE keys["active"]

Effective(request) ==
  [request EXCEPT !.serial = IF @ = NoText THEN ChipSerial ELSE @]

\* Mutant: one percent below the minimum.
DropPastMinimum(c) == [c EXCEPT !.level = IF @ < c.low THEN c.high ELSE @ - 1]

\* At the minimum the battery starts over.
Drop(c) == [c EXCEPT !.level = IF @ <= c.low THEN c.high ELSE @ - 1]

AfterDrops(c, count) ==
  LET after[n \in 0 .. count] == IF n = 0 THEN c ELSE Drop(after[n - 1]) IN after[count]

\* What advertising waits for: the later of the two callbacks of the advertising
\* data and the scan response, and the START event.
Events == {"data", "hid"}

\* s_runtime.connected
Connected == link # "down"

-----------------------------------------------------------------------------
Value == Names \union Serials \union Int \union {NoText}

\* What holds s_mutex: the keys it still has to write, and what follows the last.
Operation == [kind : {"none", "save", "reset", "battery", "report", "end"},
              writes : Seq(Keys \X Value), config : Config,
              restart : BOOLEAN, show : BOOLEAN]

TypeOK ==
  /\ config \in Config
  /\ restartRequired \in BOOLEAN /\ open \in BOOLEAN
  /\ active \in 0 .. Interval - 1
  /\ nvs \in [Keys -> Value] /\ op \in Operation
  /\ advertised \in [name : Names, serial : Serials]
  /\ shown \in 0 .. MaxPercent
  /\ bonds \subseteq {"current", "old"}
  /\ restart \in {"none", "prepare", "clear", "answer", "reboot"}
  /\ ready \subseteq Events /\ advertising \in BOOLEAN
  /\ link \in {"down", "up", "lost"}
  /\ changes \in 0 .. MaxChanges /\ boots \in 0 .. MaxBoots
  /\ torn \in BOOLEAN /\ unshown \in BOOLEAN /\ muted \in BOOLEAN /\ late \in BOOLEAN

NoOp == [kind |-> "none", writes |-> <<>>, config |-> Defaults,
         restart |-> FALSE, show |-> FALSE]

Init ==
  /\ config = Defaults /\ restartRequired = FALSE /\ active = 0 /\ open = FALSE
  /\ nvs = [key \in Keys |-> NoText]
  /\ op = NoOp
  /\ advertised = Identity(Defaults) /\ shown = MaxPercent
  /\ bonds = {} /\ restart = "none" /\ late = FALSE
  /\ ready = {} /\ advertising = FALSE /\ link = "down" /\ muted = FALSE
  /\ changes = 0 /\ boots = 0
  /\ torn = FALSE /\ unshown = FALSE

\* The HTTP server serves one request at a time; the reboot task is not its own.
ServerFree == restart \in {"none", "reboot"}

Idle == op.kind = "none"

-----------------------------------------------------------------------------
(* Operations of typx_identity_service.c: the part before the first write *)

\* Mutant: a serial left to the board is not erased.
SaveWritesKeepSerial(request) ==
  <<<<"name", request.name>>>>
    \o (IF request.serial = NoText THEN <<>> ELSE <<<<"serial", request.serial>>>>)
    \o <<<<"low", request.low>>, <<"high", request.high>>, <<"level", request.level>>,
         <<"active", 0>>>>

\* save_config_locked: an empty serial is erased.
SaveWrites(request) ==
  <<<<"name", request.name>>, <<"serial", request.serial>>, <<"low", request.low>>,
    <<"high", request.high>>, <<"level", request.level>>, <<"active", 0>>>>

Save(request) ==
  /\ Idle /\ ServerFree
  /\ Valid(request)
  /\ changes < MaxChanges /\ changes' = changes + 1
  /\ LET effective == Effective(request) IN
       op' = [kind |-> "save", writes |-> SaveWrites(request), config |-> effective,
              restart |-> restartRequired \/ Identity(config) # Identity(effective),
              show |-> config.level # effective.level]
  /\ UNCHANGED <<stateVars, nvs, hostVars, linkVars, bootVars, boots, torn>>

\* Mutant: the battery keeps what it shows.
ResetShowsNothing ==
  /\ Idle /\ ServerFree
  /\ changes < MaxChanges /\ changes' = changes + 1
  /\ op' = [kind |-> "reset", config |-> Defaults,
            writes |-> <<<<"name", NoText>>, <<"serial", NoText>>, <<"low", NoText>>,
                         <<"high", NoText>>, <<"level", NoText>>, <<"active", NoText>>>>,
            restart |-> Identity(config) # Identity(Defaults), show |-> FALSE]
  /\ UNCHANGED <<stateVars, nvs, hostVars, linkVars, bootVars, boots, torn>>

Reset ==
  /\ Idle /\ ServerFree
  /\ changes < MaxChanges /\ changes' = changes + 1
  /\ op' = [kind |-> "reset", config |-> Defaults,
            writes |-> <<<<"name", NoText>>, <<"serial", NoText>>, <<"low", NoText>>,
                         <<"high", NoText>>, <<"level", NoText>>, <<"active", NoText>>>>,
            restart |-> Identity(config) # Identity(Defaults),
            show |-> config.level # Defaults.level]
  /\ UNCHANGED <<stateVars, nvs, hostVars, linkVars, bootVars, boots, torn>>

\* persist_activity_locked writes what the record says by now.
Persist(kind, level, time, show) ==
  op' = [NoOp EXCEPT !.kind = kind, !.show = show,
                     !.writes = <<<<"level", level>>, <<"active", time>>>>]

BatteryReset ==
  /\ Idle /\ ServerFree
  /\ config' = [config EXCEPT !.level = config.high]
  /\ active' = 0 /\ open' = FALSE
  /\ Persist("battery", config.high, 0, config.level # config.high)
  /\ UNCHANGED <<restartRequired, nvs, hostVars, linkVars, bootVars, torn, counters>>

\* A report that counts: sent in a run, with the simulation enabled.
Report(delta) ==
  /\ Idle /\ Connected
  /\ IF ~open
     THEN open' = TRUE /\ UNCHANGED <<config, active, op>>
     ELSE /\ UNCHANGED open
          /\ config' = AfterDrops(config, (active + delta) \div Interval)
          /\ active' = (active + delta) % Interval
          /\ IF active + delta >= Interval
             THEN Persist("report", config'.level, active', TRUE)
             ELSE UNCHANGED op
  /\ UNCHANGED <<restartRequired, nvs, hostVars, linkVars, bootVars, torn, counters>>

OtherReport ==
  /\ Idle /\ Connected /\ open
  /\ open' = FALSE
  /\ UNCHANGED <<config, restartRequired, active, nvs, op, hostVars, linkVars, bootVars,
                 torn, counters>>

EndActivity ==
  /\ Idle
  /\ open' = FALSE
  /\ Persist("end", config.level, active, FALSE)
  /\ UNCHANGED <<config, restartRequired, active, nvs, hostVars, linkVars, bootVars, torn,
                 counters>>

-----------------------------------------------------------------------------
(* The writes, and what follows the last of them *)

Write ==
  /\ op.writes # <<>>
  /\ LET key == Head(op.writes)[1] value == Head(op.writes)[2] IN
       nvs' = [nvs EXCEPT ![key] = value]
  /\ op' = [op EXCEPT !.writes = Tail(@)]
  /\ UNCHANGED <<stateVars, hostVars, linkVars, bootVars, torn, counters>>

\* esp_hidd_dev_battery_set, for a device that bind_hid has made known.
Show(level) ==
  IF "hid" \in ready THEN shown' = level /\ unshown' = FALSE ELSE UNCHANGED hostVars

\* A save and a reset change the record now, and the others have done so.
Commit ==
  /\ ~Idle /\ op.writes = <<>>
  /\ op' = NoOp
  /\ IF op.kind \in {"save", "reset"}
     THEN /\ config' = op.config /\ restartRequired' = op.restart
          /\ active' = 0 /\ open' = FALSE
          /\ torn' = FALSE
          /\ late' = (late \/ restart = "reboot")
     ELSE UNCHANGED <<stateVars, torn, late>>
  /\ IF op.show THEN Show(config'.level) ELSE UNCHANGED hostVars
  /\ UNCHANGED <<nvs, linkVars, advertised, bonds, restart, counters>>

\* nvs_open, a write or the commit fails: what was written stays.  A drop of the
\* battery is shown all the same, a reset of it is not.
Fail ==
  /\ ~Idle
  /\ op' = NoOp
  /\ torn' = TRUE
  /\ IF op.kind = "report" THEN Show(config.level)
     ELSE /\ unshown' = (unshown \/ (op.kind = "battery" /\ op.show))
          /\ UNCHANGED shown
  /\ UNCHANGED <<stateVars, nvs, linkVars, bootVars, counters>>

-----------------------------------------------------------------------------
(* Advertising and the link *)

\* start_advertising: the controller may refuse.
StartAdvertising(ok) == advertising' = ok /\ muted' = ~ok

NothingStored == UNCHANGED <<stateVars, nvs, op, torn, counters>>

\* gap_callback and the START event: whichever comes last starts
\* advertising.  START binds the device to the battery, under the service's mutex.
AdvertisingReady(event, ok) ==
  /\ event \notin ready /\ ready' = ready \union {event}
  /\ event = "hid" => Idle
  /\ IF ready' = Events /\ ~Connected
     THEN StartAdvertising(ok) ELSE UNCHANGED <<advertising, muted>>
  /\ IF event = "hid" THEN shown' = config.level /\ unshown' = FALSE ELSE UNCHANGED hostVars
  /\ NothingStored /\ UNCHANGED <<link, bootVars>>

\* A host connects, which ends advertising, and its CONNECT event is handled.
HostConnects ==
  /\ link = "down" /\ advertising
  /\ link' = "up" /\ advertising' = FALSE
  /\ NothingStored /\ UNCHANGED <<hostVars, ready, muted, bootVars>>

LinkGoes ==
  /\ link = "up" /\ link' = "lost"
  /\ NothingStored /\ UNCHANGED <<hostVars, ready, advertising, muted, bootVars>>

\* Mutant: only a host that goes while no restart is on its way is awaited again.
DisconnectEventUnlessRestart(ok) ==
  /\ link = "lost" /\ link' = "down"
  /\ IF restart = "none" THEN StartAdvertising(ok) ELSE UNCHANGED <<advertising, muted>>
  /\ NothingStored /\ UNCHANGED <<hostVars, ready, bootVars>>

\* The DISCONNECT event advertises again, whatever else goes on.
DisconnectEvent(ok) ==
  /\ link = "lost" /\ link' = "down"
  /\ StartAdvertising(ok)
  /\ NothingStored /\ UNCHANGED <<hostVars, ready, bootVars>>

Pair ==
  /\ link = "up" /\ "current" \notin bonds
  /\ bonds' = bonds \union {"current"}
  /\ late' = (late \/ restart \in {"answer", "reboot"})
  /\ NothingStored /\ UNCHANGED <<hostVars, linkVars, advertised, restart>>

\* clear-bonds at the console, while no host is connected.
ConsoleClearBonds ==
  /\ ~Connected /\ bonds # {}
  /\ bonds' \in SUBSET bonds \ {bonds}
  /\ NothingStored /\ UNCHANGED <<hostVars, linkVars, advertised, restart, late>>

-----------------------------------------------------------------------------
(* restart_handler and boot *)

RestartRequest ==
  /\ Idle /\ restart = "none"
  /\ restart' = "prepare"
  /\ NothingStored /\ UNCHANGED <<hostVars, linkVars, advertised, bonds, late>>

\* Mutant: every restart clears the bonds.
RestartPrepareAlways(ok) ==
  /\ restart = "prepare" /\ (~ok => Connected)
  /\ restart' = IF ~ok THEN "none" ELSE "clear"
  /\ advertising' = (advertising /\ ~ok)
  /\ NothingStored /\ UNCHANGED <<hostVars, ready, link, muted, advertised, bonds, late>>

\* typx_ble_hid_prepare_reboot: the keys a host has are released, or the restart
\* is refused; then advertising stops.
RestartPrepare(ok) ==
  /\ restart = "prepare" /\ (~ok => Connected)
  /\ restart' = IF ~ok THEN "none" ELSE IF restartRequired THEN "clear" ELSE "answer"
  /\ advertising' = (advertising /\ ~ok)
  /\ NothingStored /\ UNCHANGED <<hostVars, ready, link, muted, advertised, bonds, late>>

\* A restart refused from here on leaves advertising as it is by then.
Refuse ==
  /\ restart' = "none" /\ late' = FALSE
  /\ muted' = (link = "down" /\ ~advertising)

\* Some bonds may be gone when one is not removed.  A removal is a request to the stack,
\* whose result is only logged; here one that was accepted is done.
RestartClear(ok) ==
  /\ restart = "clear"
  /\ IF ok THEN restart' = "answer" /\ bonds' = {} /\ UNCHANGED <<muted, late>>
           ELSE Refuse /\ bonds' \in SUBSET bonds
  /\ NothingStored /\ UNCHANGED <<hostVars, ready, advertising, link, advertised>>

\* The reboot task is notified, or deleted if the answer cannot be sent.
RestartAnswer(ok) ==
  /\ restart = "answer"
  /\ IF ok THEN restart' = "reboot" /\ UNCHANGED <<muted, late>> ELSE Refuse
  /\ NothingStored /\ UNCHANGED <<hostVars, ready, advertising, link, advertised, bonds>>

\* The reboot task's delay ends, or the power is cut; then
\* typx_identity_service_init and typx_ble_hid_init.
Boot ==
  /\ config' = Loaded(nvs) /\ active' = LoadedActive(nvs)
  /\ restartRequired' = FALSE /\ open' = FALSE
  /\ op' = NoOp
  /\ advertised' = Identity(config')
  /\ bonds' = IF advertised' = advertised \/ bonds = {} THEN bonds ELSE {"old"}
  /\ restart' = "none" /\ late' = FALSE
  /\ ready' = {} /\ advertising' = FALSE /\ link' = "down" /\ muted' = FALSE
  /\ shown' = MaxPercent /\ unshown' = FALSE
  /\ torn' = ~Valid(Overridden(nvs))
  /\ boots < MaxBoots /\ boots' = boots + 1
  /\ UNCHANGED <<nvs, changes>>

RestartStep ==
  \/ RestartRequest
  \/ \E ok \in BOOLEAN : RestartPrepare(ok) \/ RestartClear(ok) \/ RestartAnswer(ok)

LinkStep ==
  \/ \E event \in Events, ok \in BOOLEAN : AdvertisingReady(event, ok)
  \/ HostConnects \/ LinkGoes
  \/ \E ok \in BOOLEAN : DisconnectEvent(ok)
  \/ Pair \/ ConsoleClearBonds

Next ==
  \/ \E request \in Requests : Save(request)
  \/ Reset \/ BatteryReset
  \/ \E delta \in 0 .. MaxDelta : Report(delta)
  \/ OtherReport \/ EndActivity
  \/ Write \/ Commit \/ Fail
  \/ RestartStep \/ LinkStep \/ Boot

Spec == Init /\ [][Next]_vars
-----------------------------------------------------------------------------
(* Properties *)

\* Whatever a save, a reset, a drop or a boot from half-written keys leaves in the
\* record, it is an identity the validator accepts.
ConfigValid == Valid(config)

\* What the record says is what the next boot will say, unless an operation broke
\* off and no save or reset has succeeded since.
RecordIsStored == Idle /\ ~torn => Loaded(nvs) = config

\* A host that reads the battery sees the level of the record, unless a battery reset
\* that could not be stored kept it from the host.
LevelIsShown == Idle /\ "hid" \in ready /\ ~unshown => shown = config.level

\* A restart takes from the hosts the bonds it has to take, and no others: until the
\* record holds a new identity it keeps each of them, and one that was answered for
\* a new identity leaves none to a later boot, unless a save or a pairing came in
\* between the answer and the reboot.
RestartBonds ==
  [][/\ restart' # restart /\ ~(bonds \subseteq bonds') /\ bonds' # {"old"}
          => restartRequired
     /\ restart = "reboot" /\ restartRequired /\ ~late /\ restart' = "none"
          => bonds' = {}]_vars

\* Whatever order boot events, links and refused restarts come in, a board that is
\* up and has no host is one a host can connect to, except while a restart is under
\* way, and after the controller refused to advertise or a restart was refused
\* after it had stopped advertising.
HostCanConnect ==
  link = "down" /\ ready = Events /\ restart \in {"none", "prepare"} /\ ~muted
    => advertising

-----------------------------------------------------------------------------
(* What the documentation says and the code does not do. *)

\* "Identity-triggered restart clears the board's old BLE bonds"
\* (TROUBLESHOOTING.md): while the board advertises another identity than the one
\* it will have after a restart, that restart is marked as one that clears them.
ChangeNeedsRestart == Identity(config) # advertised => restartRequired
=============================================================================
