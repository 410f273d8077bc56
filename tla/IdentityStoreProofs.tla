------------------------- MODULE IdentityStoreProofs -------------------------
(***************************************************************************)
(* Proofs about IdentityStore, for every name, serial, level and number of    *)
(* changes and boots: the record stays valid, it is what the keys say unless   *)
(* an operation broke off, the host is told of every level, a restart takes    *)
(* the bonds it must and no others, and a board that is up is advertised.       *)
(***************************************************************************)
EXTENDS IdentityStore, Induction, TLAPS

-----------------------------------------------------------------------------
(* The inductive invariant *)

\* What a key of the namespace may hold.
Fits(key, value) ==
  \/ value = NoText
  \/ key = "name" /\ value \in Names
  \/ key = "serial" /\ value \in Serials
  \/ key \in {"low", "high", "level"} /\ value \in Int
  \/ key = "active" /\ value \in 0 .. Interval - 1

\* Each key holds, and each write brings, what belongs there.
KeysFit ==
  /\ \A key \in Keys : Fits(key, nvs[key])
  /\ \A i \in DOMAIN op.writes : Fits(op.writes[i][1], op.writes[i][2])

\* What the key of a field says, where no value means the default.
Says(field, value) == IF value = NoText THEN Defaults[field] ELSE value

\* Once the writes still to come are through, the keys say c.
Promises(c) ==
  /\ \A i \in DOMAIN op.writes :
       op.writes[i][1] \in DOMAIN Defaults =>
         Says(op.writes[i][1], op.writes[i][2]) = c[op.writes[i][1]]
  /\ \A field \in DOMAIN Defaults :
       \/ Says(field, nvs[field]) = c[field]
       \/ \E i \in DOMAIN op.writes : op.writes[i][1] = field

\* A save or a reset works towards its identity, and what else is stored is the record.
KeysPromise ==
  /\ op.kind \in {"save", "reset"} => Promises(op.config)
  /\ op.kind \notin {"save", "reset"} /\ ~torn => Promises(config)

\* What a save or a reset is about to make the record.
NextValid == op.kind \in {"save", "reset"} => Valid(op.config)

\* Nobody holds the mutex: nothing is to be written.
IdleIsDone == Idle => op.writes = <<>>

\* The host's level is the record's, or an operation that shows it is under way.
ShownKnown ==
  /\ "hid" \in ready /\ ~unshown /\ (op.kind \notin {"battery", "report"} \/ ~op.show)
       => shown = config.level
  /\ op.kind \in {"save", "reset"} /\ ~op.show => op.config.level = config.level
  /\ op.kind = "report" => op.show

\* No save is served between the request for a restart and its answer.
RestartAlone ==
  restart \in {"prepare", "clear", "answer"} => op.kind \notin {"save", "reset"}

\* The bonds are cleared only for a new identity, and are gone once it is answered for.
BondsKnown ==
  /\ restart = "clear" => restartRequired
  /\ restart \in {"answer", "reboot"} /\ restartRequired /\ ~late => bonds = {}

IInv ==
  /\ TypeOK
  /\ ConfigValid
  /\ KeysFit
  /\ KeysPromise
  /\ NextValid
  /\ IdleIsDone
  /\ ShownKnown
  /\ RestartAlone
  /\ BondsKnown
  /\ HostCanConnect

-----------------------------------------------------------------------------
(* What the drops of a report do *)

\* The function that AfterDrops defines exists ...
LEMMA DropsExist ==
  ASSUME NEW c, NEW k \in Nat
  PROVE  \E f : f = [n \in 0 .. k |-> IF n = 0 THEN c ELSE Drop(f[n - 1])]
<1> DEFINE G == {m \in Nat :
                   \E f : f = [n \in 0 .. m |-> IF n = 0 THEN c ELSE Drop(f[n - 1])]}
<1>1. 0 \in G
  <2> DEFINE f == [n \in 0 .. 0 |-> c]
  <2>1. f = [n \in 0 .. 0 |-> IF n = 0 THEN c ELSE Drop(f[n - 1])] OBVIOUS
  <2>2. QED BY <2>1, Zenon
<1>2. ASSUME NEW m \in Nat, m \in G PROVE m + 1 \in G
  <2>1. PICK g : g = [n \in 0 .. m |-> IF n = 0 THEN c ELSE Drop(g[n - 1])]
    BY <1>2
  <2> DEFINE f == [n \in 0 .. m + 1 |-> IF n = m + 1 THEN Drop(g[m]) ELSE g[n]]
  <2>2. \A n \in 0 .. m + 1 : f[n] = IF n = 0 THEN c ELSE Drop(f[n - 1])
    <3> TAKE n \in 0 .. m + 1
    <3>1. CASE n = m + 1 BY <3>1
    <3>2. CASE n # m + 1 /\ n # 0
      <4>1. n \in 0 .. m /\ n - 1 \in 0 .. m + 1 /\ n - 1 # m + 1 BY <3>2
      <4>2. g[n] = Drop(g[n - 1]) BY <4>1, <2>1, <3>2
      <4>3. f[n] = g[n] /\ f[n - 1] = g[n - 1] BY <4>1, <3>2
      <4>4. QED BY <4>2, <4>3, <3>2
    <3>3. CASE n # m + 1 /\ n = 0
      <4>1. g[0] = c BY <2>1
      <4>2. QED BY <4>1, <3>3
    <3>4. QED BY <3>1, <3>2, <3>3
  <2>3. f = [n \in 0 .. m + 1 |-> IF n = 0 THEN c ELSE Drop(f[n - 1])]
    BY <2>2
  <2>4. \E h : h = [n \in 0 .. m + 1 |-> IF n = 0 THEN c ELSE Drop(h[n - 1])]
    <3> HIDE DEF f
    <3>1. QED BY <2>3, Zenon
  <2>5. QED BY <2>4
<1>3. QED
  <2> HIDE DEF G
  <2>1. Nat \subseteq G BY <1>1, <1>2, SetInduction
  <2>2. QED BY <2>1 DEF G

\* ... and AfterDrops is its last value.
LEMMA DropsRun ==
  ASSUME NEW c, NEW k \in Nat
  PROVE  \E f : /\ f = [n \in 0 .. k |-> IF n = 0 THEN c ELSE Drop(f[n - 1])]
                /\ AfterDrops(c, k) = f[k]
<1> DEFINE Is(f) == f = [n \in 0 .. k |-> IF n = 0 THEN c ELSE Drop(f[n - 1])]
           drops == CHOOSE f : Is(f)
<1>1. AfterDrops(c, k) = drops[k] BY Zenon DEF AfterDrops
<1>2. \E f : Is(f) BY DropsExist
<1> HIDE DEF Is
<1>3. Is(drops) BY <1>2
<1> HIDE DEF drops
<1>4. \E f : Is(f) /\ AfterDrops(c, k) = f[k] BY <1>1, <1>3
<1>5. QED BY <1>4 DEF Is

\* One drop, and so any number of them, changes the level alone, and keeps it in range.
LEMMA DropsKeep ==
  ASSUME NEW c \in Config, Valid(c), NEW k \in Nat
  PROVE  /\ AfterDrops(c, k) = [c EXCEPT !.level = AfterDrops(c, k).level]
         /\ AfterDrops(c, k).level \in Int
         /\ Valid(AfterDrops(c, k))
         /\ k = 0 => AfterDrops(c, k) = c
<1>1. PICK f : /\ f = [n \in 0 .. k |-> IF n = 0 THEN c ELSE Drop(f[n - 1])]
               /\ AfterDrops(c, k) = f[k]
  BY DropsRun
<1> DEFINE Kept == {d \in Config : d.name = c.name /\ d.serial = c.serial /\ d.low = c.low
                                     /\ d.high = c.high /\ Valid(d)}
<1> DEFINE G == {n \in Nat : n <= k => f[n] \in Kept}
<1>2. f[0] = c BY <1>1
<1>3. 0 \in G BY <1>2
<1>4. ASSUME NEW d \in Kept PROVE Drop(d) \in Kept
  BY PercentAssumption DEF Drop, Valid, Config
<1>5. ASSUME NEW n \in Nat, n \in G PROVE n + 1 \in G
  <2>1. CASE n + 1 <= k
    <3>1. f[n + 1] = Drop(f[n]) BY <1>1, <2>1
    <3>2. QED BY <3>1, <2>1, <1>4, <1>5
  <2>2. CASE ~(n + 1 <= k) BY <2>2
  <2>3. QED BY <2>1, <2>2
<1>6. k \in G
  <2> HIDE DEF G
  <2>1. QED BY <1>3, <1>5, SetInduction
<1>7. AfterDrops(c, k) \in Kept BY <1>6, <1>1
<1>8. QED BY <1>7, <1>2, <1>1 DEF Config

\* The active time that is left is less than an interval, and with less than one there
\* is no drop.
LEMMA TimeSplits ==
  ASSUME NEW t \in Nat
  PROVE  /\ t \div Interval \in Nat
         /\ t % Interval \in 0 .. Interval - 1
         /\ t < Interval => t \div Interval = 0 /\ t % Interval = t
BY TimeAssumption

\* The defaults are valid.
LEMMA DefaultsValid == Valid(Defaults) /\ Defaults \in Config
BY PercentAssumption, TextAssumption DEF Valid, Defaults, Config

\* Links and restarts.
OtherStep == RestartStep \/ LinkStep


-----------------------------------------------------------------------------
(* What the steps leave alone *)

\* The operations of the identity service, and their writes.
StoreStep ==
  \/ \E request \in Requests : Save(request)
  \/ Reset \/ BatteryReset
  \/ \E delta \in 0 .. MaxDelta : Report(delta)
  \/ OtherReport \/ EndActivity
  \/ Write \/ Commit \/ Fail

\* The identity service does not touch the link, the bonds and the restart.
LEMMA StoreFrame ==
  ASSUME StoreStep
  PROVE  UNCHANGED <<linkVars, advertised, bonds, restart, boots>>
<1> USE DEF stateVars, hostVars, linkVars, bootVars, counters
<1>1. ASSUME NEW request \in Requests, Save(request)
      PROVE  UNCHANGED <<linkVars, advertised, bonds, restart, boots>>
  BY <1>1 DEF Save
<1>2. CASE Reset
  BY <1>2 DEF Reset
<1>3. CASE BatteryReset
  BY <1>3 DEF BatteryReset
<1>4. ASSUME NEW delta \in 0 .. MaxDelta, Report(delta)
      PROVE  UNCHANGED <<linkVars, advertised, bonds, restart, boots>>
  BY <1>4 DEF Report
<1>5. CASE OtherReport
  BY <1>5 DEF OtherReport
<1>6. CASE EndActivity
  BY <1>6 DEF EndActivity
<1>7. CASE Write
  BY <1>7 DEF Write
<1>8. CASE Commit
  BY <1>8 DEF Commit
<1>9. CASE Fail
  BY <1>9 DEF Fail
<1> QED BY <1>1, <1>2, <1>3, <1>4, <1>5, <1>6, <1>7, <1>8, <1>9
     DEF StoreStep

\* Links and restarts do not touch the record and its keys, and the host is told of the
\* level by START alone.
LEMMA OtherFrame ==
  ASSUME RestartStep \/ LinkStep
  PROVE  /\ NothingStored
         /\ \/ UNCHANGED hostVars /\ ("hid" \in ready' => "hid" \in ready)
            \/ Idle /\ shown' = config.level /\ unshown' = FALSE
<1> USE DEF stateVars, hostVars, linkVars, bootVars, counters
<1> DEFINE Goal == /\ NothingStored
                   /\ \/ UNCHANGED hostVars /\ ("hid" \in ready' => "hid" \in ready)
                      \/ Idle /\ shown' = config.level /\ unshown' = FALSE
<1>1. CASE RestartRequest
  BY <1>1 DEF RestartRequest
<1>2. ASSUME NEW ok \in BOOLEAN, RestartPrepare(ok) PROVE Goal
  BY <1>2 DEF RestartPrepare
<1>3. ASSUME NEW ok \in BOOLEAN, RestartClear(ok) PROVE Goal
  BY <1>3 DEF RestartClear
<1>4. ASSUME NEW ok \in BOOLEAN, RestartAnswer(ok) PROVE Goal
  BY <1>4 DEF RestartAnswer
<1>5. ASSUME NEW event \in Events, NEW ok \in BOOLEAN, AdvertisingReady(event, ok)
      PROVE  Goal
  BY <1>5 DEF AdvertisingReady
<1>6. CASE HostConnects
  BY <1>6 DEF HostConnects
<1>7. CASE LinkGoes
  BY <1>7 DEF LinkGoes
<1>8. ASSUME NEW ok \in BOOLEAN, DisconnectEvent(ok) PROVE Goal
  BY <1>8 DEF DisconnectEvent
<1>9. CASE Pair
  BY <1>9 DEF Pair
<1>10. CASE ConsoleClearBonds
  BY <1>10 DEF ConsoleClearBonds
<1> QED BY <1>1, <1>2, <1>3, <1>4, <1>5, <1>6, <1>7, <1>8, <1>9, <1>10
     DEF RestartStep, LinkStep
-----------------------------------------------------------------------------
(* Each part of the invariant is kept, action by action *)

\* A record that is valid stays so: saves are validated, drops stay in the range, and a
\* boot takes the defaults before a mixture.
LEMMA ValidStep ==
  ASSUME TypeOK, ConfigValid, NextValid, [Next]_vars
  PROVE  ConfigValid' /\ NextValid'
<1> config \in Config /\ op \in Operation /\ active \in 0 .. Interval - 1
  BY DEF TypeOK
<1> Valid(config)
  BY DEF ConfigValid
<1> USE DEF ConfigValid, NextValid, Idle, stateVars
<1>1. ASSUME NEW request \in Requests, Save(request) PROVE ConfigValid' /\ NextValid'
  <2>1. request \in [name : Names, serial : Serials \union {NoText},
                      low : Int, high : Int, level : Int]
    BY RequestsAssumption
  <2>2. Valid(request) => Valid(Effective(request)) BY <2>1 DEF Effective, Valid
  <2>3. QED BY <1>1, <2>2 DEF Save
<1>2. CASE Reset
  BY <1>2, PercentAssumption DEF Reset, Defaults, Valid
<1>3. CASE BatteryReset
  BY <1>3 DEF BatteryReset, Persist, NoOp, Valid, Config
<1>4. ASSUME NEW delta \in 0 .. MaxDelta, Report(delta) PROVE ConfigValid' /\ NextValid'
  <2> DEFINE drops == (active + delta) \div Interval
  <2>1. drops \in Nat BY TimeSplits, TimeAssumption
  <2>2. Valid(AfterDrops(config, drops)) BY <2>1, DropsKeep
  <2>3. config' = config \/ config' = AfterDrops(config, drops)
    BY <1>4 DEF Report
  <2>4. op' = op \/ op'.kind = "report"
    BY <1>4 DEF Report, Persist, NoOp
  <2>5. Valid(config') BY <2>2, <2>3
  <2>6. QED BY <1>4, <2>4, <2>5 DEF Report
<1>5. CASE OtherReport
  BY <1>5 DEF OtherReport
<1>6. CASE EndActivity
  BY <1>6 DEF EndActivity, Persist, NoOp
<1>7. CASE Write
  BY <1>7 DEF Write, Operation
<1>8. CASE Commit
  BY <1>8 DEF Commit, NoOp
<1>9. CASE Fail
  BY <1>9 DEF Fail, NoOp
<1>10. CASE OtherStep
  BY <1>10, OtherFrame DEF OtherStep, NothingStored
<1>11. CASE Boot
  BY <1>11, DefaultsValid DEF Boot, Loaded, NoOp
<1>12. CASE UNCHANGED vars BY <1>12 DEF vars
<1> QED BY <1>1, <1>2, <1>3, <1>4, <1>5, <1>6, <1>7, <1>8, <1>9, <1>10, <1>11, <1>12
     DEF Next, OtherStep
\* The mutex is given back only with nothing left to write.
LEMMA IdleStep ==
  ASSUME TypeOK, IdleIsDone, [Next]_vars
  PROVE  IdleIsDone'
<1> op \in Operation
  BY DEF TypeOK
<1> USE DEF IdleIsDone, Idle
<1>1. ASSUME NEW request \in Requests, Save(request) PROVE IdleIsDone'
  BY <1>1 DEF Save
<1>2. CASE Reset
  BY <1>2 DEF Reset
<1>3. CASE BatteryReset
  BY <1>3 DEF BatteryReset, Persist, NoOp
<1>4. ASSUME NEW delta \in 0 .. MaxDelta, Report(delta) PROVE IdleIsDone'
  BY <1>4 DEF Report, Persist, NoOp
<1>5. CASE OtherReport
  BY <1>5 DEF OtherReport
<1>6. CASE EndActivity
  BY <1>6 DEF EndActivity, Persist, NoOp
<1>7. CASE Write
  BY <1>7 DEF Write, Operation
<1>8. CASE Commit
  BY <1>8 DEF Commit, NoOp
<1>9. CASE Fail
  BY <1>9 DEF Fail, NoOp
<1>10. CASE OtherStep
  BY <1>10, OtherFrame DEF OtherStep, NothingStored
<1>11. CASE Boot
  BY <1>11 DEF Boot, NoOp
<1>12. CASE UNCHANGED vars BY <1>12 DEF vars
<1> QED BY <1>1, <1>2, <1>3, <1>4, <1>5, <1>6, <1>7, <1>8, <1>9, <1>10, <1>11, <1>12
     DEF Next, OtherStep
\* What is written to a key fits it.
LEMMA FitStep ==
  ASSUME TypeOK, ConfigValid, KeysFit, [Next]_vars
  PROVE  KeysFit'
<1> /\ config \in Config /\ op \in Operation /\ nvs \in [Keys -> Value]
    /\ active \in 0 .. Interval - 1
  BY DEF TypeOK
<1> 0 \in 0 .. Interval - 1 /\ Valid(config)
  BY TimeAssumption DEF ConfigValid
<1> USE DEF KeysFit, Fits
<1>1. ASSUME NEW request \in Requests, Save(request) PROVE KeysFit'
  <2>1. /\ request.name \in Names /\ request.serial \in Serials \union {NoText}
        /\ request.low \in Int /\ request.high \in Int /\ request.level \in Int
    BY RequestsAssumption
  <2>2. op'.writes = SaveWrites(request) /\ nvs' = nvs
    BY <1>1 DEF Save
  <2>3. QED BY <2>1, <2>2 DEF SaveWrites
<1>2. CASE Reset
  BY <1>2 DEF Reset
<1>3. CASE BatteryReset
  BY <1>3 DEF BatteryReset, Persist, NoOp, Config
<1>4. ASSUME NEW delta \in 0 .. MaxDelta, Report(delta) PROVE KeysFit'
  <2> DEFINE drops == (active + delta) \div Interval
  <2>1. drops \in Nat /\ (active + delta) % Interval \in 0 .. Interval - 1
    BY TimeSplits, TimeAssumption
  <2>2. CASE UNCHANGED op BY <1>4, <2>2 DEF Report
  <2>3. CASE open /\ active + delta >= Interval
    <3>1. config'.level \in Int BY <1>4, <2>1, <2>3, DropsKeep DEF Report
    <3>2. op'.writes = <<<<"level", config'.level>>, <<"active", active'>>>>
            /\ active' \in 0 .. Interval - 1 /\ nvs' = nvs
      BY <1>4, <2>1, <2>3 DEF Report, Persist, NoOp
    <3>3. QED BY <3>1, <3>2
  <2>4. QED BY <1>4, <2>2, <2>3 DEF Report
<1>5. CASE OtherReport
  BY <1>5 DEF OtherReport
<1>6. CASE EndActivity
  BY <1>6 DEF EndActivity, Persist, NoOp, Config
<1>7. CASE Write
  <2>1. /\ op.writes \in Seq(Keys \X Value) /\ op.writes # <<>>
        /\ op'.writes = Tail(op.writes)
        /\ nvs' = [nvs EXCEPT ![op.writes[1][1]] = op.writes[1][2]]
    BY <1>7 DEF Write, Operation
  <2>2. \A i \in DOMAIN op'.writes : op'.writes[i] = op.writes[i + 1]
                                      /\ i + 1 \in DOMAIN op.writes
    BY <2>1
  <2>3. 1 \in DOMAIN op.writes BY <2>1
  <2>4. \A key \in Keys : IF key = op.writes[1][1] THEN nvs'[key] = op.writes[1][2]
                                                  ELSE nvs'[key] = nvs[key]
    BY <2>1
  <2>5. QED BY <2>2, <2>3, <2>4
<1>8. CASE Commit
  BY <1>8 DEF Commit, NoOp
<1>9. CASE Fail
  BY <1>9 DEF Fail, NoOp
<1>10. CASE OtherStep
  BY <1>10, OtherFrame DEF OtherStep, NothingStored
<1>11. CASE Boot
  BY <1>11 DEF Boot, NoOp
<1>12. CASE UNCHANGED vars BY <1>12 DEF vars
<1> QED BY <1>1, <1>2, <1>3, <1>4, <1>5, <1>6, <1>7, <1>8, <1>9, <1>10, <1>11, <1>12
     DEF Next, OtherStep
\* A save, a reset, a drop and the end of an activity each write all that the keys lack.
LEMMA PromiseStep ==
  ASSUME TypeOK, ConfigValid, IdleIsDone, KeysPromise, [Next]_vars
  PROVE  KeysPromise'
<1> /\ config \in Config /\ op \in Operation /\ nvs \in [Keys -> Value]
    /\ active \in 0 .. Interval - 1 /\ torn \in BOOLEAN
  BY DEF TypeOK
<1> Valid(config)
  BY DEF ConfigValid
<1> DOMAIN Defaults = {"name", "serial", "low", "high", "level"}
  BY DEF Defaults
<1> USE DEF KeysPromise, Promises, stateVars
<1>1. ASSUME NEW request \in Requests, Save(request) PROVE KeysPromise'
  <2>1. /\ request.name \in Names /\ request.serial \in Serials \union {NoText}
        /\ request.low \in Int /\ request.high \in Int /\ request.level \in Int
        /\ request \in [name : Names, serial : Serials \union {NoText},
                        low : Int, high : Int, level : Int]
    BY RequestsAssumption
  <2>2. /\ op'.writes = SaveWrites(request) /\ op'.config = Effective(request)
        /\ op'.kind = "save"
    BY <1>1 DEF Save
  <2>3. QED BY <2>1, <2>2, TextAssumption DEF SaveWrites, Effective, Says, Defaults
<1>2. CASE Reset
  <2>1. /\ op'.kind = "reset" /\ op'.config = Defaults
        /\ op'.writes = <<<<"name", NoText>>, <<"serial", NoText>>, <<"low", NoText>>,
                          <<"high", NoText>>, <<"level", NoText>>, <<"active", NoText>>>>
    BY <1>2 DEF Reset
  <2> DOMAIN op'.writes = 1 .. 6 BY <2>1
  <2>2. \A i \in 1 .. 6 : op'.writes[i][2] = NoText BY <2>1
  <2>3. \A field \in DOMAIN Defaults : \E i \in 1 .. 6 : op'.writes[i][1] = field
    BY <2>1
  <2>4. QED BY <2>1, <2>2, <2>3 DEF Says
<1>3. CASE BatteryReset
  <2>1. op.writes = <<>> BY <1>3 DEF BatteryReset, IdleIsDone
  <2>2. /\ op'.writes = <<<<"level", config.high>>, <<"active", 0>>>>
        /\ op'.kind = "battery"
        /\ config' = [config EXCEPT !.level = config.high] /\ UNCHANGED <<nvs, torn>>
    BY <1>3 DEF BatteryReset, Persist, NoOp
  <2>3. op.kind = "none" BY <1>3 DEF BatteryReset, Idle
  <2>4. config.high # NoText BY TextAssumption DEF Config
  <2>5. QED BY <2>1, <2>2, <2>3, <2>4 DEF Says, Config
<1>4. ASSUME NEW delta \in 0 .. MaxDelta, Report(delta) PROVE KeysPromise'
  <2> DEFINE drops == (active + delta) \div Interval
  <2>1. drops \in Nat /\ (active + delta < Interval => drops = 0)
    BY TimeSplits, TimeAssumption
  <2>2. /\ AfterDrops(config, drops) =
             [config EXCEPT !.level = AfterDrops(config, drops).level]
        /\ AfterDrops(config, drops).level \in Int
        /\ drops = 0 => AfterDrops(config, drops) = config
    BY <2>1, DropsKeep
  <2> HIDE DEF drops
  <2>3. op.writes = <<>> /\ op.kind = "none" /\ UNCHANGED <<nvs, torn>>
    BY <1>4 DEF Report, IdleIsDone, Idle
  <2>4. CASE UNCHANGED <<op, config>>
    BY <2>3, <2>4
  <2>5. CASE open /\ active + delta >= Interval
    <3>1. /\ op'.writes = <<<<"level", config'.level>>, <<"active", active'>>>>
          /\ op'.kind = "report" /\ config' = AfterDrops(config, drops)
      BY <1>4, <2>5 DEF Report, Persist, NoOp, drops
    <3>2. config'.level # NoText BY <3>1, <2>2, TextAssumption
    <3>3. \A field \in DOMAIN Defaults \ {"level"} : config'[field] = config[field]
      BY <3>1, <2>2 DEF Config
    <3>4. QED BY <3>1, <3>2, <3>3, <2>3 DEF Says
  <2>6. CASE open /\ active + delta < Interval
    <3>1. config' = config BY <1>4, <2>1, <2>2, <2>6 DEF Report, drops
    <3>2. ~(active + delta >= Interval) BY <2>6, TimeAssumption
    <3>3. QED BY <1>4, <3>1, <3>2, <2>4, <2>6 DEF Report
  <2>7. CASE ~open BY <1>4, <2>4, <2>7 DEF Report
  <2>8. QED BY <2>5, <2>6, <2>7, TimeAssumption
<1>5. CASE OtherReport
  BY <1>5 DEF OtherReport
<1>6. CASE EndActivity
  <2>1. op.writes = <<>> /\ op.kind = "none" BY <1>6 DEF EndActivity, IdleIsDone, Idle
  <2>2. /\ op'.writes = <<<<"level", config.level>>, <<"active", active>>>>
        /\ op'.kind = "end" /\ UNCHANGED <<nvs, torn, config>>
    BY <1>6 DEF EndActivity, Persist, NoOp
  <2>3. config.level # NoText BY TextAssumption DEF Config
  <2>4. QED BY <2>1, <2>2, <2>3 DEF Says
<1>7. CASE Write
  <2>1. /\ op.writes \in Seq(Keys \X Value) /\ op.writes # <<>>
        /\ op'.writes = Tail(op.writes) /\ op'.config = op.config /\ op'.kind = op.kind
        /\ nvs' = [nvs EXCEPT ![op.writes[1][1]] = op.writes[1][2]]
        /\ UNCHANGED <<config, torn>>
    BY <1>7 DEF Write, Operation
  <2>2. \A i \in DOMAIN op'.writes : op'.writes[i] = op.writes[i + 1]
                                      /\ i + 1 \in DOMAIN op.writes
    BY <2>1
  <2>3. 1 \in DOMAIN op.writes BY <2>1
  <2>4. \A i \in DOMAIN op.writes : i = 1 \/ (i - 1 \in DOMAIN op'.writes
                                                /\ op'.writes[i - 1] = op.writes[i])
    BY <2>1
  <2>5. \A key \in Keys : IF key = op.writes[1][1] THEN nvs'[key] = op.writes[1][2]
                                                  ELSE nvs'[key] = nvs[key]
    BY <2>1
  <2>6. DOMAIN Defaults \subseteq Keys BY DEF Keys
  <2>7. ASSUME NEW c \in Config, Promises(c)
        PROVE  /\ \A i \in DOMAIN op'.writes :
                    op'.writes[i][1] \in DOMAIN Defaults =>
                      Says(op'.writes[i][1], op'.writes[i][2]) = c[op'.writes[i][1]]
               /\ \A field \in DOMAIN Defaults :
                    \/ Says(field, nvs'[field]) = c[field]
                    \/ \E i \in DOMAIN op'.writes : op'.writes[i][1] = field
    <3>1. \A i \in DOMAIN op'.writes :
            op'.writes[i][1] \in DOMAIN Defaults =>
              Says(op'.writes[i][1], op'.writes[i][2]) = c[op'.writes[i][1]]
      BY <2>2, <2>7
    <3>2. ASSUME NEW field \in DOMAIN Defaults,
                 \A i \in DOMAIN op'.writes : op'.writes[i][1] # field
          PROVE  Says(field, nvs'[field]) = c[field]
      <4>1. CASE field = op.writes[1][1]
        <5>1. nvs'[field] = op.writes[1][2] BY <2>5, <2>6, <4>1
        <5>2. QED BY <5>1, <4>1, <2>3, <2>7
      <4>2. CASE field # op.writes[1][1]
        <5>1. nvs'[field] = nvs[field] BY <2>5, <2>6, <4>2
        <5>2. \A i \in DOMAIN op.writes : op.writes[i][1] # field
          BY <2>4, <3>2, <4>2
        <5>3. QED BY <5>1, <5>2, <2>7
      <4>3. QED BY <4>1, <4>2
    <3>3. QED BY <3>1, <3>2
  <2>8. op.config \in Config BY DEF Operation
  <2>9. CASE op.kind \in {"save", "reset"}
    <3>1. Promises(op.config) BY <2>9
    <3>2. op'.config = op.config /\ op'.kind = op.kind BY <2>1
    <3>3. Promises(op.config)'
      <4> HIDE DEF Says
      <4>1. QED BY <3>1, <3>2, <2>7, <2>8
    <3>4. QED BY <3>2, <3>3, <2>9
  <2>10. CASE op.kind \notin {"save", "reset"}
    <3>1. op'.kind = op.kind /\ UNCHANGED <<config, torn>> BY <2>1
    <3>2. CASE torn BY <3>1, <3>2, <2>10
    <3>3. CASE ~torn
      <4>1. Promises(config) BY <3>3, <2>10
      <4>2. Promises(config)' BY <4>1, <3>1, <2>7
      <4>3. QED BY <4>2, <3>1, <2>10
    <3>4. QED BY <3>2, <3>3
  <2>11. QED BY <2>9, <2>10
<1>8. CASE Commit
  <2>1. op.writes = <<>> /\ op'.writes = <<>> /\ op'.kind = "none" /\ nvs' = nvs
    BY <1>8 DEF Commit, NoOp
  <2>2. QED BY <1>8, <2>1 DEF Commit
<1>9. CASE Fail
  BY <1>9 DEF Fail, NoOp
<1>10. CASE OtherStep
  BY <1>10, OtherFrame DEF OtherStep, NothingStored
<1>11. CASE Boot
  <2>1. op'.writes = <<>> /\ op'.kind = "none" /\ nvs' = nvs
    BY <1>11 DEF Boot, NoOp
  <2>2. CASE Valid(Overridden(nvs))
    <3>1. config' = Overridden(nvs) BY <1>11, <2>2 DEF Boot, Loaded
    <3>2. QED BY <3>1, <2>1 DEF Overridden, Says
  <2>3. CASE ~Valid(Overridden(nvs)) BY <1>11, <2>1, <2>3 DEF Boot
  <2>4. QED BY <2>2, <2>3
<1>12. CASE UNCHANGED vars BY <1>12 DEF vars
<1> QED BY <1>1, <1>2, <1>3, <1>4, <1>5, <1>6, <1>7, <1>8, <1>9, <1>10, <1>11, <1>12
     DEF Next, OtherStep
\* Each operation passes a changed level on, or keeps in mind that it did not.
LEMMA ShownStep ==
  ASSUME TypeOK, ConfigValid, IdleIsDone, ShownKnown, [Next]_vars
  PROVE  ShownKnown'
<1> config \in Config /\ op \in Operation /\ unshown \in BOOLEAN
      /\ active \in 0 .. Interval - 1
  BY DEF TypeOK
<1> Valid(config)
  BY DEF ConfigValid
<1> USE DEF ShownKnown, Idle, stateVars, hostVars, linkVars, bootVars, counters
<1>1. ASSUME NEW request \in Requests, Save(request) PROVE ShownKnown'
  BY <1>1 DEF Save
<1>2. CASE Reset
  BY <1>2 DEF Reset
<1>3. CASE BatteryReset
  BY <1>3 DEF BatteryReset, Persist, NoOp, Config
<1>4. ASSUME NEW delta \in 0 .. MaxDelta, Report(delta) PROVE ShownKnown'
  <2> DEFINE drops == (active + delta) \div Interval
  <2>1. drops \in Nat /\ (active + delta < Interval => drops = 0)
    BY TimeSplits, TimeAssumption
  <2>2. drops = 0 => AfterDrops(config, drops) = config
    BY <2>1, DropsKeep
  <2>3. CASE UNCHANGED config BY <1>4, <2>3 DEF Report, Persist, NoOp
  <2>4. CASE open /\ active + delta >= Interval BY <1>4, <2>4 DEF Report, Persist, NoOp
  <2>5. CASE open /\ active + delta < Interval
    BY <1>4, <2>1, <2>2, <2>3, <2>5 DEF Report
  <2>6. CASE ~open BY <1>4, <2>3, <2>6 DEF Report
  <2>7. QED BY <2>4, <2>5, <2>6, TimeAssumption
<1>5. CASE OtherReport
  BY <1>5 DEF OtherReport
<1>6. CASE EndActivity
  BY <1>6 DEF EndActivity, Persist, NoOp
<1>7. CASE Write
  BY <1>7 DEF Write, Operation
<1>8. CASE Commit
  BY <1>8 DEF Commit, NoOp, Show
<1>9. CASE Fail
  BY <1>9 DEF Fail, NoOp, Show
<1>10. CASE OtherStep
  BY <1>10, OtherFrame DEF OtherStep, NothingStored
<1>11. CASE Boot
  BY <1>11 DEF Boot, NoOp
<1>12. CASE UNCHANGED vars BY <1>12 DEF vars
<1> QED BY <1>1, <1>2, <1>3, <1>4, <1>5, <1>6, <1>7, <1>8, <1>9, <1>10, <1>11, <1>12
     DEF Next, OtherStep
\* While a restart is decided on, the server serves nothing else.
LEMMA AloneStep ==
  ASSUME TypeOK, RestartAlone, [Next]_vars
  PROVE  RestartAlone'
<1> op \in Operation
  BY DEF TypeOK
<1> USE DEF RestartAlone, Idle, ServerFree, stateVars, hostVars, linkVars, bootVars,
      counters
<1>1. ASSUME NEW request \in Requests, Save(request) PROVE RestartAlone'
  BY <1>1 DEF Save
<1>2. CASE Reset
  BY <1>2 DEF Reset
<1>3. CASE BatteryReset
  BY <1>3 DEF BatteryReset, Persist, NoOp
<1>4. ASSUME NEW delta \in 0 .. MaxDelta, Report(delta) PROVE RestartAlone'
  BY <1>4 DEF Report, Persist, NoOp
<1>5. CASE OtherReport
  BY <1>5 DEF OtherReport
<1>6. CASE EndActivity
  BY <1>6 DEF EndActivity, Persist, NoOp
<1>7. CASE Write
  BY <1>7 DEF Write, Operation
<1>8. CASE Commit
  BY <1>8 DEF Commit, NoOp
<1>9. CASE Fail
  BY <1>9 DEF Fail, NoOp
<1>10. CASE RestartRequest
  BY <1>10 DEF RestartRequest, NothingStored
<1>11. ASSUME NEW ok \in BOOLEAN, RestartPrepare(ok) PROVE RestartAlone'
  BY <1>11 DEF RestartPrepare, NothingStored
<1>12. ASSUME NEW ok \in BOOLEAN, RestartClear(ok) PROVE RestartAlone'
  BY <1>12 DEF RestartClear, NothingStored, Refuse
<1>13. ASSUME NEW ok \in BOOLEAN, RestartAnswer(ok) PROVE RestartAlone'
  BY <1>13 DEF RestartAnswer, NothingStored, Refuse
<1>14. CASE LinkStep
  BY <1>14 DEF LinkStep, AdvertisingReady, HostConnects, LinkGoes, DisconnectEvent, Pair,
     ConsoleClearBonds, NothingStored
<1>15. CASE Boot
  BY <1>15 DEF Boot, NoOp
<1>16. CASE UNCHANGED vars BY <1>16 DEF vars
<1> QED BY <1>1, <1>2, <1>3, <1>4, <1>5, <1>6, <1>7, <1>8, <1>9, <1>10, <1>11, <1>12,
     <1>13, <1>14, <1>15, <1>16
     DEF Next, RestartStep
\* What the restart decided on holds until the boot, unless something came in between.
LEMMA BondStep ==
  ASSUME TypeOK, RestartAlone, BondsKnown, [Next]_vars
  PROVE  BondsKnown'
<1> restartRequired \in BOOLEAN /\ late \in BOOLEAN
  BY DEF TypeOK
<1> USE DEF BondsKnown, RestartAlone, stateVars, hostVars, linkVars, bootVars, counters
<1>1. ASSUME NEW request \in Requests, Save(request) PROVE BondsKnown'
  BY <1>1 DEF Save
<1>2. CASE Reset
  BY <1>2 DEF Reset
<1>3. CASE BatteryReset
  BY <1>3 DEF BatteryReset
<1>4. ASSUME NEW delta \in 0 .. MaxDelta, Report(delta) PROVE BondsKnown'
  BY <1>4 DEF Report
<1>5. CASE OtherReport
  BY <1>5 DEF OtherReport
<1>6. CASE EndActivity
  BY <1>6 DEF EndActivity
<1>7. CASE Write
  BY <1>7 DEF Write
<1>8. CASE Commit
  BY <1>8 DEF Commit
<1>9. CASE Fail
  BY <1>9 DEF Fail
<1>10. CASE RestartRequest
  BY <1>10 DEF RestartRequest, NothingStored
<1>11. ASSUME NEW ok \in BOOLEAN, RestartPrepare(ok) PROVE BondsKnown'
  BY <1>11 DEF RestartPrepare, NothingStored
<1>12. ASSUME NEW ok \in BOOLEAN, RestartClear(ok) PROVE BondsKnown'
  BY <1>12 DEF RestartClear, NothingStored, Refuse
<1>13. ASSUME NEW ok \in BOOLEAN, RestartAnswer(ok) PROVE BondsKnown'
  BY <1>13 DEF RestartAnswer, NothingStored, Refuse
<1>14. ASSUME NEW event \in Events, NEW ok \in BOOLEAN, AdvertisingReady(event, ok)
      PROVE  BondsKnown'
  BY <1>14 DEF AdvertisingReady, NothingStored
<1>15. CASE HostConnects
  BY <1>15 DEF HostConnects, NothingStored
<1>16. CASE LinkGoes
  BY <1>16 DEF LinkGoes, NothingStored
<1>17. ASSUME NEW ok \in BOOLEAN, DisconnectEvent(ok) PROVE BondsKnown'
  BY <1>17 DEF DisconnectEvent, NothingStored
<1>18. CASE Pair
  BY <1>18 DEF Pair, NothingStored
<1>19. CASE ConsoleClearBonds
  BY <1>19 DEF ConsoleClearBonds, NothingStored
<1>20. CASE Boot
  BY <1>20 DEF Boot
<1>21. CASE UNCHANGED vars BY <1>21 DEF vars
<1> QED BY <1>1, <1>2, <1>3, <1>4, <1>5, <1>6, <1>7, <1>8, <1>9, <1>10, <1>11, <1>12,
     <1>13, <1>14, <1>15, <1>16, <1>17, <1>18, <1>19, <1>20, <1>21
     DEF Next, RestartStep, LinkStep
\* Whoever ends a connection or holds a restart up advertises again, or it is on record.
LEMMA HostStep ==
  ASSUME TypeOK, HostCanConnect, [Next]_vars
  PROVE  HostCanConnect'
<1> advertising \in BOOLEAN /\ muted \in BOOLEAN /\ ready \subseteq Events
  BY DEF TypeOK
<1> USE DEF HostCanConnect, Events, Connected, StartAdvertising, linkVars, bootVars
<1>1. CASE StoreStep
  BY <1>1, StoreFrame
<1>2. CASE RestartRequest
  BY <1>2 DEF RestartRequest
<1>3. ASSUME NEW ok \in BOOLEAN, RestartPrepare(ok) PROVE HostCanConnect'
  BY <1>3 DEF RestartPrepare
<1>4. ASSUME NEW ok \in BOOLEAN, RestartClear(ok) PROVE HostCanConnect'
  BY <1>4 DEF RestartClear, Refuse
<1>5. ASSUME NEW ok \in BOOLEAN, RestartAnswer(ok) PROVE HostCanConnect'
  BY <1>5 DEF RestartAnswer, Refuse
<1>6. ASSUME NEW event \in Events, NEW ok \in BOOLEAN, AdvertisingReady(event, ok)
      PROVE  HostCanConnect'
  BY <1>6 DEF AdvertisingReady
<1>7. CASE HostConnects
  BY <1>7 DEF HostConnects
<1>8. CASE LinkGoes
  BY <1>8 DEF LinkGoes
<1>9. ASSUME NEW ok \in BOOLEAN, DisconnectEvent(ok) PROVE HostCanConnect'
  BY <1>9 DEF DisconnectEvent
<1>10. CASE Pair
  BY <1>10 DEF Pair
<1>11. CASE ConsoleClearBonds
  BY <1>11 DEF ConsoleClearBonds
<1>12. CASE Boot
  BY <1>12 DEF Boot
<1>13. CASE UNCHANGED vars BY <1>13 DEF vars
<1> QED BY <1>1, <1>2, <1>3, <1>4, <1>5, <1>6, <1>7, <1>8, <1>9, <1>10, <1>11, <1>12,
     <1>13
     DEF Next, RestartStep, LinkStep, StoreStep

-----------------------------------------------------------------------------
(* Types *)

RecordTyped ==
  /\ config \in Config /\ restartRequired \in BOOLEAN /\ open \in BOOLEAN
  /\ active \in 0 .. Interval - 1

HostTyped ==
  /\ advertised \in [name : Names, serial : Serials]
  /\ shown \in 0 .. MaxPercent /\ unshown \in BOOLEAN

RestartTyped ==
  /\ bonds \subseteq {"current", "old"} /\ late \in BOOLEAN
  /\ restart \in {"none", "prepare", "clear", "answer", "reboot"}

LinkTyped ==
  /\ ready \subseteq Events /\ advertising \in BOOLEAN
  /\ link \in {"down", "up", "lost"} /\ muted \in BOOLEAN

CountersTyped ==
  /\ changes \in 0 .. MaxChanges /\ boots \in 0 .. MaxBoots /\ torn \in BOOLEAN

\* What the keys say is typed, whatever mixture of operations they hold.
LEMMA KeysSay ==
  ASSUME TypeOK, KeysFit
  PROVE  /\ Overridden(nvs) \in Config
         /\ Loaded(nvs) \in Config /\ Valid(Loaded(nvs))
         /\ LoadedActive(nvs) \in 0 .. Interval - 1
<1>1. Overridden(nvs) = [field \in {"name", "serial", "low", "high", "level"} |->
                           IF nvs[field] = NoText THEN Defaults[field] ELSE nvs[field]]
  BY DEF Overridden, Defaults
<1>2. /\ nvs["name"] \in Names \union {NoText} /\ nvs["serial"] \in Serials \union {NoText}
      /\ nvs["low"] \in Int \union {NoText} /\ nvs["high"] \in Int \union {NoText}
      /\ nvs["level"] \in Int \union {NoText}
      /\ nvs["active"] \in 0 .. Interval - 1 \union {NoText}
  BY DEF KeysFit, Fits, Keys
<1>3. Defaults \in Config /\ Valid(Defaults) BY DefaultsValid
<1>4. Overridden(nvs) \in Config
  BY <1>1, <1>2, <1>3 DEF Config
<1>5. LoadedActive(nvs) \in 0 .. Interval - 1
  BY <1>2, TimeAssumption DEF LoadedActive
<1>6. QED BY <1>3, <1>4, <1>5 DEF Loaded

\* The record keeps its type.
LEMMA RecordTypes ==
  ASSUME TypeOK, ConfigValid, KeysFit, [Next]_vars
  PROVE  RecordTyped'
<1> RecordTyped /\ op \in Operation
  BY DEF TypeOK, RecordTyped
<1> 0 \in 0 .. Interval - 1 /\ Valid(config)
  BY TimeAssumption DEF ConfigValid
<1> USE DEF RecordTyped, stateVars
<1>1. ASSUME NEW request \in Requests, Save(request) PROVE RecordTyped'
  BY <1>1 DEF Save
<1>2. CASE Reset
  BY <1>2 DEF Reset
<1>3. CASE BatteryReset
  BY <1>3 DEF BatteryReset, Config
<1>4. ASSUME NEW delta \in 0 .. MaxDelta, Report(delta) PROVE RecordTyped'
  <2> DEFINE drops == (active + delta) \div Interval
  <2>1. drops \in Nat /\ (active + delta) % Interval \in 0 .. Interval - 1
    BY TimeSplits, TimeAssumption
  <2>2. AfterDrops(config, drops) \in Config
    BY <2>1, DropsKeep DEF Config
  <2>3. QED BY <1>4, <2>1, <2>2 DEF Report
<1>5. CASE OtherReport
  BY <1>5 DEF OtherReport
<1>6. CASE EndActivity
  BY <1>6 DEF EndActivity
<1>7. CASE Write
  BY <1>7 DEF Write
<1>8. CASE Commit
  BY <1>8 DEF Commit, Operation
<1>9. CASE Fail
  BY <1>9 DEF Fail
<1>10. CASE OtherStep
  BY <1>10, OtherFrame DEF OtherStep, NothingStored
<1>11. CASE Boot
  BY <1>11, KeysSay DEF Boot
<1>12. CASE UNCHANGED vars BY <1>12 DEF vars
<1> QED BY <1>1, <1>2, <1>3, <1>4, <1>5, <1>6, <1>7, <1>8, <1>9, <1>10, <1>11, <1>12
     DEF Next, OtherStep
\* persist_activity_locked writes numbers.
LEMMA PersistTyped ==
  ASSUME NEW kind \in {"battery", "report", "end"}, NEW level \in Int, NEW time \in Int,
         NEW show \in BOOLEAN,
         op' = [NoOp EXCEPT !.kind = kind, !.show = show,
                            !.writes = <<<<"level", level>>, <<"active", time>>>>]
  PROVE  op' \in Operation
<1>1. <<<<"level", level>>, <<"active", time>>>> \in Seq(Keys \X Value)
  BY DEF Keys, Value
<1>2. QED BY <1>1, DefaultsValid DEF NoOp, Operation

\* The keys and the operation under way keep their types.
LEMMA StoreTypes ==
  ASSUME TypeOK, ConfigValid, KeysFit, [Next]_vars
  PROVE  nvs' \in [Keys -> Value] /\ op' \in Operation
<1> config \in Config /\ restartRequired \in BOOLEAN /\ active \in 0 .. Interval - 1
      /\ nvs \in [Keys -> Value] /\ op \in Operation
  BY DEF TypeOK
<1> NoOp \in Operation /\ Defaults \in Config
  BY DefaultsValid DEF NoOp, Operation
<1> active \in Int /\ 0 \in Value /\ NoText \in Value
  BY TimeAssumption DEF Value
<1> DEFINE Goal == nvs' \in [Keys -> Value] /\ op' \in Operation
<1>1. ASSUME NEW request \in Requests, Save(request) PROVE Goal
  <2>1. /\ request.name \in Names /\ request.serial \in Serials \union {NoText}
        /\ request.low \in Int /\ request.high \in Int /\ request.level \in Int
        /\ request \in [name : Names, serial : Serials \union {NoText},
                        low : Int, high : Int, level : Int]
    BY RequestsAssumption
  <2>2. Effective(request) \in Config
    BY <2>1, TextAssumption DEF Effective, Config
  <2>3. SaveWrites(request) \in Seq(Keys \X Value)
    BY <2>1 DEF SaveWrites, Keys, Value
  <2>4. op' \in Operation
    BY <1>1, <2>2, <2>3 DEF Save, Operation
  <2>5. QED BY <1>1, <2>4 DEF Save
<1>2. CASE Reset
  <2>1. <<<<"name", NoText>>, <<"serial", NoText>>, <<"low", NoText>>, <<"high", NoText>>,
          <<"level", NoText>>, <<"active", NoText>>>> \in Seq(Keys \X Value)
    BY DEF Keys
  <2>2. op' \in Operation
    BY <1>2, <2>1 DEF Reset, Operation
  <2>3. QED BY <1>2, <2>2 DEF Reset
<1>3. CASE BatteryReset
  <2>1. config.high \in Int BY DEF Config
  <2>2. <<<<"level", config.high>>, <<"active", 0>>>> \in Seq(Keys \X Value)
    BY <2>1 DEF Keys, Value
  <2>3. ASSUME config.level = config.high PROVE op' \in Operation
    <3>1. op' = [NoOp EXCEPT !.kind = "battery", !.show = FALSE,
                             !.writes = <<<<"level", config.high>>, <<"active", 0>>>>]
      BY <1>3, <2>3 DEF BatteryReset, Persist
    <3>2. QED BY <2>2, <3>1, DefaultsValid DEF NoOp, Operation
  <2>4. ASSUME config.level # config.high PROVE op' \in Operation
    <3>1. op' = [NoOp EXCEPT !.kind = "battery", !.show = TRUE,
                             !.writes = <<<<"level", config.high>>, <<"active", 0>>>>]
      BY <1>3, <2>4 DEF BatteryReset, Persist
    <3>2. QED BY <2>2, <3>1, DefaultsValid DEF NoOp, Operation
  <2>5. op' \in Operation BY <2>3, <2>4
  <2>6. QED BY <1>3, <2>5 DEF BatteryReset
<1>4. ASSUME NEW delta \in 0 .. MaxDelta, Report(delta) PROVE Goal
  <2>1. config' \in Config /\ active' \in 0 .. Interval - 1
    BY RecordTypes DEF RecordTyped
  <2>2. config'.level \in Int /\ active' \in Int BY <2>1, TimeAssumption DEF Config
  <2>3. op' \in Operation
    BY <1>4, <2>2, PersistTyped DEF Report, Persist
  <2>4. QED BY <1>4, <2>3 DEF Report
<1>5. CASE OtherReport
  BY <1>5 DEF OtherReport
<1>6. CASE EndActivity
  <2>1. config.level \in Int BY DEF Config
  <2>2. op' \in Operation
    BY <1>6, <2>1, PersistTyped DEF EndActivity, Persist
  <2>3. QED BY <1>6, <2>2 DEF EndActivity
<1>7. CASE Write
  <2>1. op.writes \in Seq(Keys \X Value) /\ op.writes # <<>> BY <1>7 DEF Write, Operation
  <2>2. Tail(op.writes) \in Seq(Keys \X Value) /\ op.writes[1] \in Keys \X Value BY <2>1
  <2>3. op' \in Operation BY <1>7, <2>2 DEF Write, Operation
  <2>4. nvs' \in [Keys -> Value] BY <1>7, <2>2 DEF Write
  <2>5. QED BY <2>3, <2>4
<1>8. CASE Commit
  BY <1>8 DEF Commit
<1>9. CASE Fail
  BY <1>9 DEF Fail
<1>10. CASE OtherStep
  BY <1>10, OtherFrame DEF OtherStep, NothingStored
<1>11. CASE Boot
  BY <1>11 DEF Boot
<1>12. CASE UNCHANGED vars BY <1>12 DEF vars
<1> QED BY <1>1, <1>2, <1>3, <1>4, <1>5, <1>6, <1>7, <1>8, <1>9, <1>10, <1>11, <1>12
     DEF Next, OtherStep
\* A level that is shown is a percentage.
LEMMA HostTypes ==
  ASSUME TypeOK, ConfigValid, NextValid, KeysFit, [Next]_vars
  PROVE  HostTyped'
<1> config \in Config /\ op \in Operation /\ HostTyped
  BY DEF TypeOK, HostTyped
<1> MaxPercent \in 0 .. MaxPercent /\ config.level \in 0 .. MaxPercent
  BY PercentAssumption DEF ConfigValid, Valid
<1> USE DEF HostTyped, hostVars, stateVars, bootVars
<1>1. ASSUME NEW request \in Requests, Save(request) PROVE HostTyped'
  BY <1>1 DEF Save
<1>2. CASE Reset
  BY <1>2 DEF Reset
<1>3. CASE BatteryReset
  BY <1>3 DEF BatteryReset
<1>4. ASSUME NEW delta \in 0 .. MaxDelta, Report(delta) PROVE HostTyped'
  BY <1>4 DEF Report
<1>5. CASE OtherReport
  BY <1>5 DEF OtherReport
<1>6. CASE EndActivity
  BY <1>6 DEF EndActivity
<1>7. CASE Write
  BY <1>7 DEF Write
<1>8. CASE Commit
  <2>1. config'.level \in 0 .. MaxPercent
    BY <1>8, PercentAssumption DEF Commit, NextValid, Valid
  <2>2. QED BY <1>8, <2>1 DEF Commit, Show
<1>9. CASE Fail
  BY <1>9 DEF Fail, Show
<1>10. CASE RestartRequest
  BY <1>10 DEF RestartRequest
<1>11. ASSUME NEW ok \in BOOLEAN, RestartPrepare(ok) PROVE HostTyped'
  BY <1>11 DEF RestartPrepare
<1>12. ASSUME NEW ok \in BOOLEAN, RestartClear(ok) PROVE HostTyped'
  BY <1>12 DEF RestartClear
<1>13. ASSUME NEW ok \in BOOLEAN, RestartAnswer(ok) PROVE HostTyped'
  BY <1>13 DEF RestartAnswer
<1>14. ASSUME NEW event \in Events, NEW ok \in BOOLEAN, AdvertisingReady(event, ok)
      PROVE  HostTyped'
  BY <1>14 DEF AdvertisingReady
<1>15. CASE HostConnects
  BY <1>15 DEF HostConnects
<1>16. CASE LinkGoes
  BY <1>16 DEF LinkGoes
<1>17. ASSUME NEW ok \in BOOLEAN, DisconnectEvent(ok) PROVE HostTyped'
  BY <1>17 DEF DisconnectEvent
<1>18. CASE Pair
  BY <1>18 DEF Pair
<1>19. CASE ConsoleClearBonds
  BY <1>19 DEF ConsoleClearBonds
<1>20. CASE Boot
  <2>1. advertised' \in [name : Names, serial : Serials]
    BY <1>20, KeysSay DEF Boot, Identity, Config
  <2>2. QED BY <1>20, <2>1 DEF Boot
<1>21. CASE UNCHANGED vars BY <1>21 DEF vars
<1> QED BY <1>1, <1>2, <1>3, <1>4, <1>5, <1>6, <1>7, <1>8, <1>9, <1>10, <1>11, <1>12,
     <1>13, <1>14, <1>15, <1>16, <1>17, <1>18, <1>19, <1>20, <1>21
     DEF Next, RestartStep, LinkStep
\* The bonds and the restart keep their types.
LEMMA RestartTypes ==
  ASSUME TypeOK, [Next]_vars
  PROVE  RestartTyped'
<1> RestartTyped
  BY DEF TypeOK, RestartTyped
<1> USE DEF RestartTyped, bootVars
<1>1. ASSUME NEW request \in Requests, Save(request) PROVE RestartTyped'
  BY <1>1 DEF Save
<1>2. CASE Reset
  BY <1>2 DEF Reset
<1>3. CASE BatteryReset
  BY <1>3 DEF BatteryReset
<1>4. ASSUME NEW delta \in 0 .. MaxDelta, Report(delta) PROVE RestartTyped'
  BY <1>4 DEF Report
<1>5. CASE OtherReport
  BY <1>5 DEF OtherReport
<1>6. CASE EndActivity
  BY <1>6 DEF EndActivity
<1>7. CASE Write
  BY <1>7 DEF Write
<1>8. CASE Commit
  BY <1>8 DEF Commit
<1>9. CASE Fail
  BY <1>9 DEF Fail
<1>10. CASE RestartRequest
  BY <1>10 DEF RestartRequest
<1>11. ASSUME NEW ok \in BOOLEAN, RestartPrepare(ok) PROVE RestartTyped'
  BY <1>11 DEF RestartPrepare
<1>12. ASSUME NEW ok \in BOOLEAN, RestartClear(ok) PROVE RestartTyped'
  BY <1>12 DEF RestartClear, Refuse
<1>13. ASSUME NEW ok \in BOOLEAN, RestartAnswer(ok) PROVE RestartTyped'
  BY <1>13 DEF RestartAnswer, Refuse
<1>14. ASSUME NEW event \in Events, NEW ok \in BOOLEAN, AdvertisingReady(event, ok)
      PROVE  RestartTyped'
  BY <1>14 DEF AdvertisingReady
<1>15. CASE HostConnects
  BY <1>15 DEF HostConnects
<1>16. CASE LinkGoes
  BY <1>16 DEF LinkGoes
<1>17. ASSUME NEW ok \in BOOLEAN, DisconnectEvent(ok) PROVE RestartTyped'
  BY <1>17 DEF DisconnectEvent
<1>18. CASE Pair
  BY <1>18 DEF Pair
<1>19. CASE ConsoleClearBonds
  BY <1>19 DEF ConsoleClearBonds
<1>20. CASE Boot
  BY <1>20 DEF Boot
<1>21. CASE UNCHANGED vars BY <1>21 DEF vars
<1> QED BY <1>1, <1>2, <1>3, <1>4, <1>5, <1>6, <1>7, <1>8, <1>9, <1>10, <1>11, <1>12,
     <1>13, <1>14, <1>15, <1>16, <1>17, <1>18, <1>19, <1>20, <1>21
     DEF Next, RestartStep, LinkStep
\* The link and the advertising keep their types.
LEMMA LinkTypes ==
  ASSUME TypeOK, [Next]_vars
  PROVE  LinkTyped'
<1> LinkTyped
  BY DEF TypeOK, LinkTyped
<1> USE DEF LinkTyped, linkVars
<1>1. CASE StoreStep
  BY <1>1, StoreFrame
<1>2. CASE RestartRequest
  BY <1>2 DEF RestartRequest
<1>3. ASSUME NEW ok \in BOOLEAN, RestartPrepare(ok) PROVE LinkTyped'
  BY <1>3 DEF RestartPrepare
<1>4. ASSUME NEW ok \in BOOLEAN, RestartClear(ok) PROVE LinkTyped'
  BY <1>4 DEF RestartClear, Refuse
<1>5. ASSUME NEW ok \in BOOLEAN, RestartAnswer(ok) PROVE LinkTyped'
  BY <1>5 DEF RestartAnswer, Refuse
<1>6. ASSUME NEW event \in Events, NEW ok \in BOOLEAN, AdvertisingReady(event, ok)
      PROVE  LinkTyped'
  BY <1>6 DEF AdvertisingReady, StartAdvertising
<1>7. CASE HostConnects
  BY <1>7 DEF HostConnects
<1>8. CASE LinkGoes
  BY <1>8 DEF LinkGoes
<1>9. ASSUME NEW ok \in BOOLEAN, DisconnectEvent(ok) PROVE LinkTyped'
  BY <1>9 DEF DisconnectEvent, StartAdvertising
<1>10. CASE Pair
  BY <1>10 DEF Pair
<1>11. CASE ConsoleClearBonds
  BY <1>11 DEF ConsoleClearBonds
<1>12. CASE Boot
  BY <1>12 DEF Boot
<1>13. CASE UNCHANGED vars BY <1>13 DEF vars
<1> QED BY <1>1, <1>2, <1>3, <1>4, <1>5, <1>6, <1>7, <1>8, <1>9, <1>10, <1>11, <1>12,
     <1>13
     DEF Next, StoreStep, RestartStep, LinkStep
\* The counters stay within their bounds.
LEMMA CounterTypes ==
  ASSUME TypeOK, [Next]_vars
  PROVE  CountersTyped'
<1> CountersTyped
  BY DEF TypeOK, CountersTyped
<1> USE BoundsAssumption
<1> USE DEF CountersTyped, counters
<1>1. ASSUME NEW request \in Requests, Save(request) PROVE CountersTyped'
  BY <1>1 DEF Save
<1>2. CASE Reset
  BY <1>2 DEF Reset
<1>3. CASE BatteryReset
  BY <1>3 DEF BatteryReset
<1>4. ASSUME NEW delta \in 0 .. MaxDelta, Report(delta) PROVE CountersTyped'
  BY <1>4 DEF Report
<1>5. CASE OtherReport
  BY <1>5 DEF OtherReport
<1>6. CASE EndActivity
  BY <1>6 DEF EndActivity
<1>7. CASE Write
  BY <1>7 DEF Write
<1>8. CASE Commit
  BY <1>8 DEF Commit
<1>9. CASE Fail
  BY <1>9 DEF Fail
<1>10. CASE OtherStep
  BY <1>10, OtherFrame DEF OtherStep, NothingStored
<1>11. CASE Boot
  BY <1>11 DEF Boot
<1>12. CASE UNCHANGED vars BY <1>12 DEF vars
<1> QED BY <1>1, <1>2, <1>3, <1>4, <1>5, <1>6, <1>7, <1>8, <1>9, <1>10, <1>11, <1>12
     DEF Next, OtherStep
-----------------------------------------------------------------------------
(* The theorems *)

\* The invariant holds in every state, whatever the constants.
THEOREM InvariantHolds == Spec => []IInv
<1>1. Init => IInv
  <2> SUFFICES ASSUME Init PROVE IInv
    OBVIOUS
  <2> USE DEF Init
  <2>1. Defaults \in Config /\ Valid(Defaults) BY DefaultsValid
  <2>2. TypeOK
    <3>1. NoOp \in Operation BY <2>1 DEF NoOp, Operation
    <3>2. Identity(Defaults) \in [name : Names, serial : Serials]
      BY TextAssumption DEF Identity, Defaults
    <3>3. 0 \in 0 .. Interval - 1 /\ MaxPercent \in 0 .. MaxPercent
            /\ 0 \in 0 .. MaxChanges /\ 0 \in 0 .. MaxBoots
      BY TimeAssumption, PercentAssumption, BoundsAssumption
    <3>4. nvs \in [Keys -> Value] BY DEF Value
    <3>5. QED BY <2>1, <3>1, <3>2, <3>3, <3>4 DEF TypeOK
  <2>3. op.writes = <<>> /\ op.kind = "none" BY DEF NoOp
  <2>4. ConfigValid /\ NextValid /\ RestartAlone /\ BondsKnown /\ IdleIsDone
    BY <2>1, <2>3 DEF ConfigValid, NextValid, RestartAlone, BondsKnown, IdleIsDone
  <2>5. KeysFit BY <2>3 DEF KeysFit, Fits
  <2>6. KeysPromise
    BY <2>3 DEF KeysPromise, Promises, Says, Keys, Defaults
  <2>7. ShownKnown BY <2>3 DEF ShownKnown
  <2>8. HostCanConnect BY DEF HostCanConnect, Events
  <2>9. QED BY <2>2, <2>4, <2>5, <2>6, <2>7, <2>8 DEF IInv
<1>2. IInv /\ [Next]_vars => IInv'
  <2> SUFFICES ASSUME IInv, [Next]_vars PROVE IInv'
    OBVIOUS
  <2> USE DEF IInv
  <2>1. TypeOK'
    BY RecordTypes, StoreTypes, HostTypes, RestartTypes, LinkTypes, CounterTypes
    DEF TypeOK, RecordTyped, HostTyped, RestartTyped, LinkTyped, CountersTyped
  <2>2. QED
    BY <2>1, ValidStep, IdleStep, FitStep, PromiseStep, ShownStep, AloneStep, BondStep,
       HostStep
<1>3. QED BY <1>1, <1>2, PTL DEF Spec

\* Every variable keeps its type: no boot reads from the keys a value of another kind,
\* and no level that is shown is above a hundred percent.
THEOREM TypeCorrect == Spec => []TypeOK
BY InvariantHolds, PTL DEF IInv

\* However saves, resets, drops, failures and boots follow each other, the record is an
\* identity the validator accepts.
THEOREM ConfigValidHolds == Spec => []ConfigValid
BY InvariantHolds, PTL DEF IInv

\* The next boot reads the record as it is, unless an operation has broken off since.
THEOREM RecordIsStoredHolds == Spec => []RecordIsStored
<1>1. IInv => RecordIsStored
  <2> SUFFICES ASSUME IInv, Idle, ~torn PROVE Loaded(nvs) = config
    BY DEF RecordIsStored
  <2> USE DEF IInv
  <2>1. op.writes = <<>> /\ op.kind = "none" BY DEF IdleIsDone, Idle
  <2>2. \A field \in DOMAIN Defaults : Says(field, nvs[field]) = config[field]
    BY <2>1 DEF KeysPromise, Promises
  <2>3. config \in Config /\ Valid(config) BY DEF TypeOK, ConfigValid
  <2>4. Overridden(nvs) = [field \in DOMAIN Defaults |-> config[field]]
    BY <2>2 DEF Overridden, Says
  <2>5. [field \in DOMAIN Defaults |-> config[field]] = config
    BY <2>3 DEF Config, Defaults
  <2>6. QED BY <2>3, <2>4, <2>5 DEF Loaded
<1>2. QED BY <1>1, InvariantHolds, PTL

\* A host is never left with a level the record has not got, but for the one gap that
\* unshown records.
THEOREM LevelIsShownHolds == Spec => []LevelIsShown
<1>1. IInv => LevelIsShown
  BY DEF IInv, ShownKnown, LevelIsShown, Idle
<1>2. QED BY <1>1, InvariantHolds, PTL

\* A board that is up and has no host can be found by one.
THEOREM HostCanConnectHolds == Spec => []HostCanConnect
BY InvariantHolds, PTL DEF IInv

\* A restart takes the bonds of an old identity, all of them, and no others.
THEOREM RestartBondsHolds == Spec => RestartBonds
<1> DEFINE Kept == /\ restart' # restart /\ ~(bonds \subseteq bonds') /\ bonds' # {"old"}
                        => restartRequired
                   /\ restart = "reboot" /\ restartRequired /\ ~late /\ restart' = "none"
                        => bonds' = {}
<1>1. IInv /\ [Next]_vars => [Kept]_vars
  <2> SUFFICES ASSUME IInv, Next PROVE Kept
    BY Zenon
  <2> USE DEF IInv, BondsKnown, bootVars
  <2>1. CASE StoreStep BY <2>1, StoreFrame
  <2>2. CASE RestartStep
    BY <2>2 DEF RestartStep, RestartRequest, RestartPrepare, RestartClear, RestartAnswer,
         Refuse
  <2>3. CASE LinkStep
    BY <2>3 DEF LinkStep, AdvertisingReady, HostConnects, LinkGoes, DisconnectEvent, Pair,
         ConsoleClearBonds
  <2>4. CASE Boot BY <2>4 DEF Boot
  <2>5. QED BY <2>1, <2>2, <2>3, <2>4 DEF Next, StoreStep
<1>2. QED BY <1>1, InvariantHolds, PTL DEF Spec, RestartBonds
==============================================================================
