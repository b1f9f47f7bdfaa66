--------------------------------- MODULE Boards ---------------------------------
(***************************************************************************)
(* The boards the firmware runs on, and how a device that has recognised   *)
(* its board hands out the GPIOs, I2C ports, PWM channels and timers:      *)
(* first to what is on the board, then to what is configured.              *)
(* A pin object is named by the name it is registered with.                *)
(***************************************************************************)
EXTENDS Naturals, Sequences, FiniteSets, TLC

CONSTANT MaxPeripherals        \* configured peripherals, bound

ASSUME BoardsAssumption == MaxPeripherals \in Nat

NoGauge == [kind |-> "none"]
Bq(sda, scl, boot, shutdown) == [kind |-> "bq27220", sda |-> sda, scl |-> scl, boot |-> boot, shutdown |-> shutdown]
Adc(pin, boot, shutdown) == [kind |-> "analog", pin |-> pin, boot |-> boot, shutdown |-> shutdown]

GenericDevice(chip) ==
  [model |-> "generic", revision |-> 1, chip |-> chip, boot |-> IF chip = "s3" THEN 0 ELSE 9,
   status |-> IF chip = "s3" THEN 48 ELSE 8, gauge |-> NoGauge, high |-> {}, parked |-> {}, motors |-> <<>>,
   bits |-> 10, fault |-> {}, sensed |-> {}, enable |-> {}, buzzer |-> {}, ina219 |-> FALSE, modem |-> {},
   rs485 |-> {}, switched |-> FALSE, bitbang |-> FALSE, external |-> <<>>, pins |-> <<>>]

\* Two bridges: four inputs, two of each motor.
Bridges(a1, a2, b1, b2) == <<<<a1, a2>>, <<b1, b2>>>>

UglyDucklingMk5 ==
  [model |-> "mk5", revision |-> 2, boot |-> 0, status |-> 2, motors |-> Bridges("AIN1", "AIN2", "BIN1", "BIN2"),
   bits |-> 8, fault |-> {"NFault"}, sensed |-> {"AIPROPI", "BIPROPI"}, enable |-> {"NSLEEP"},
   external |-> <<"SDA", "SCL">>,
   pins |-> [BATTERY |-> 1, AIPROPI |-> 4, A1 |-> 5, A2 |-> 6, BIPROPI |-> 7, B1 |-> 15, AIN1 |-> 16, AIN2 |-> 17,
     BIN1 |-> 18, BIN2 |-> 8, DMINUS |-> 19, DPLUS |-> 20, B2 |-> 9, NSLEEP |-> 10, NFault |-> 11, C4 |-> 12, C3 |-> 13,
     C2 |-> 14, C1 |-> 21, D4 |-> 47, D3 |-> 48, SDA |-> 35, SCL |-> 36, D1 |-> 37, D2 |-> 38, TCK |-> 39, TDO |-> 40,
     TDI |-> 41, TMS |-> 42, RXD0 |-> 44, TXD0 |-> 43]] @@ GenericDevice("s3")

UglyDucklingMk6Base ==
  [model |-> "mk6", boot |-> 0, status |-> 2, high |-> {"LEDA_RED"}, gauge |-> Adc("BATTERY", 3600, 3400),
   motors |-> Bridges("AIN1", "AIN2", "BIN1", "BIN2"), fault |-> {"NFault"}, external |-> <<"SDA", "SCL">>,
   pins |-> [BATTERY |-> 1, STATUS2 |-> 4, B1 |-> 5, A1 |-> 6, DIPROPI |-> 7, A2 |-> 15, AIN1 |-> 16, AIN2 |-> 17,
     BIN2 |-> 18, BIN1 |-> 8, DMINUS |-> 19, DPLUS |-> 20, LEDA_RED |-> 46, LEDA_GREEN |-> 9, NFault |-> 11, BTN1 |-> 12,
     BTN2 |-> 13, C4 |-> 14, C3 |-> 21, C2 |-> 47, C1 |-> 48, B2 |-> 45, SDA |-> 35, SCL |-> 36, LEDB_GREEN |-> 37,
     LEDB_RED |-> 38, TCK |-> 39, TDO |-> 40, TDI |-> 41, TMS |-> 42, RXD0 |-> 44, TXD0 |-> 43, LOADEN |-> 10]]
  @@ GenericDevice("s3")
UglyDucklingMk6Rev1 == [revision |-> 1, enable |-> {"C2"}] @@ UglyDucklingMk6Base
UglyDucklingMk6Rev2 == [revision |-> 2, enable |-> {"C2"}] @@ UglyDucklingMk6Base
UglyDucklingMk6Rev3 == [revision |-> 3, enable |-> {"LOADEN"}] @@ UglyDucklingMk6Base

UglyDucklingMk7 ==
  [model |-> "mk7", boot |-> 0, status |-> 15, high |-> {"STATUS2"}, gauge |-> Bq("SDA", "SCL", 3600, 3000),
   motors |-> Bridges("DAIN1", "DAIN2", "DBIN1", "DBIN2"), fault |-> {"DNFault"}, enable |-> {"LOADEN"},
   external |-> <<"A1", "A2">>,
   pins |-> [A2 |-> 1, A1 |-> 2, A3 |-> 3, B3 |-> 4, B1 |-> 5, B2 |-> 6, BAT_GPIO |-> 8, FSPIHD |-> 9, FSPICS0 |-> 10,
     FSPID |-> 11, FSPICLK |-> 12, FSPIQ |-> 13, FSPIWP |-> 14, LOADEN |-> 16, SCL |-> 17, SDA |-> 18, DMINUS |-> 19,
     DPLUS |-> 20, X1 |-> 21, DBIN1 |-> 37, DBIN2 |-> 38, DAIN2 |-> 39, DAIN1 |-> 40, DNFault |-> 41, TXD0 |-> 43,
     RXD0 |-> 44, X2 |-> 45, STATUS2 |-> 46, B4 |-> 47, A4 |-> 48]] @@ GenericDevice("s3")

UglyDucklingMk8Base ==
  [model |-> "mk8", boot |-> 0, status |-> 45, high |-> {"STATUS2"}, gauge |-> Bq("SDA", "SCL", 3500, 3300),
   motors |-> Bridges("DAIN1", "DAIN2", "DBIN1", "DBIN2"), fault |-> {"NFAULT"}, enable |-> {"LOADEN"},
   external |-> <<"A1", "A2">>,
   pins |-> [SDA |-> 1, SCL |-> 2, WDI |-> 3, B3 |-> 4, B1 |-> 5, B2 |-> 6, B4 |-> 7, BAT_GAUGE |-> 8, SBUSY |-> 9,
     SCS |-> 10, SSDI |-> 11, SSCLK |-> 12, SRES |-> 13, SDC |-> 14, A3 |-> 15, A1 |-> 16, A2 |-> 17, A4 |-> 18,
     DMINUS |-> 19, DPLUS |-> 20, DAIN2 |-> 35, DAIN1 |-> 36, DBIN1 |-> 37, DBIN2 |-> 38, TCK |-> 39, TDO |-> 40,
     TDI |-> 41, TMS |-> 42, RXD0 |-> 43, TXD0 |-> 44, STATUS2 |-> 46, LOADEN |-> 47, NFAULT |-> 48]]
  @@ GenericDevice("s3")
UglyDucklingMk8Rev1 == UglyDucklingMk8Base
UglyDucklingMk8Rev2 == [revision |-> 2, ina219 |-> TRUE] @@ UglyDucklingMk8Base

UglyDucklingMk9Rev1 ==
  [model |-> "mk9", boot |-> 0, status |-> 45, high |-> {"STATUS2"}, gauge |-> Bq("SDA", "SCL", 3600, 3500),
   motors |-> Bridges("DAIN1", "DAIN2", "DBIN1", "DBIN2"), fault |-> {"NFAULT"}, enable |-> {"LOADEN"}, ina219 |-> TRUE,
   external |-> <<"EXT_SDA", "EXT_SCL">>,
   pins |-> [ISOILML |-> 2, EXT_SDA |-> 10, EXT_SCL |-> 11, IFLOWA |-> 12, BAT_GAUGE |-> 13, SCL |-> 14, SDA |-> 21,
     DMINUS |-> 19, DPLUS |-> 20, DAIN2 |-> 35, DAIN1 |-> 36, DBIN2 |-> 37, DBIN1 |-> 38, ISOILTL |-> 39, NENSOILM |-> 41,
     IFLOWB |-> 42, RXD0 |-> 43, TXD0 |-> 44, STATUS2 |-> 46, LOADEN |-> 47, NFAULT |-> 48]] @@ GenericDevice("s3")

\* What the boards on the ESP32-C6 share.
Carrot == [boot |-> 9, status |-> 8, motors |-> Bridges("DAIN1", "DAIN2", "DBIN1", "DBIN2"), fault |-> {"NFAULT"},
           enable |-> {"LOADEN"}, external |-> <<"EXT_SDA", "EXT_SCL">>] @@ GenericDevice("c6")
BridgePins == [DAIN2 |-> 18, DAIN1 |-> 19, DBIN2 |-> 20, DBIN1 |-> 21, LOADEN |-> 22]
CrystalPins == [XTAL_32K_P |-> 0, XTAL_32K_N |-> 1]
PortPins == [STATUS2 |-> 9, EXT_SCL |-> 10, EXT_SDA |-> 11, DMINUS |-> 12, DPLUS |-> 13, TXD0 |-> 16, RXD0 |-> 17]

UglyDucklingMk10Rev1 ==
  [model |-> "mk10", gauge |-> Bq("SDA", "SCL", 3600, 3500), ina219 |-> TRUE, bitbang |-> TRUE,
   pins |-> [BAT_GAUGE |-> 0, IFLOWA |-> 1, SCL |-> 2, SDA |-> 3, IFLOWB |-> 15, NFAULT |-> 23] @@ PortPins @@ BridgePins]
  @@ Carrot
UglyDucklingMk11Rev1 ==
  [model |-> "mk11", gauge |-> Adc("BAT_LEVEL", 3600, 3500),
   pins |-> [BAT_LEVEL |-> 2, IFLOWA |-> 3, SDA |-> 6, SCL |-> 7, IFLOWB |-> 15, NFAULT |-> 23]
            @@ CrystalPins @@ PortPins @@ BridgePins] @@ Carrot
UglyDucklingMk12Rev1 ==
  [model |-> "mk12", gauge |-> Bq("LP_SDA", "LP_SCL", 3600, 3500), high |-> {"BUZZER"}, buzzer |-> {"BUZZER"},
   pins |-> [NFAULT |-> 2, IFLOWB |-> 3, BAT_GPOUT |-> 4, IFLOWA |-> 5, LP_SDA |-> 6, LP_SCL |-> 7, BUZZER |-> 23]
            @@ CrystalPins @@ PortPins @@ BridgePins] @@ Carrot
UglyDucklingMk13Rev1 ==
  [model |-> "mk13", gauge |-> Bq("LP_SDA", "LP_SCL", 3600, 3500), parked |-> {"BUZZER"}, buzzer |-> {"BUZZER"},
   pins |-> [NFAULT |-> 2, IFLOWB |-> 3, IFLOWA |-> 5, LP_SDA |-> 6, LP_SCL |-> 7, BUZZER |-> 23]
            @@ CrystalPins @@ PortPins @@ BridgePins] @@ Carrot
UglyDucklingMk14Rev1 ==
  [model |-> "mk14", gauge |-> Bq("LP_SDA", "LP_SCL", 3600, 3500), parked |-> {"BUZZER"}, buzzer |-> {"BUZZER"},
   motors |-> <<<<"AIN1", "AIN2">>>>, modem |-> {"TXD0", "RXD0", "MDM_CTS", "MDM_RTS", "MDM_DTR", "MDM_RI", "MDM_RESET"},
   rs485 |-> {"RS485_TX", "RS485_RX"}, switched |-> TRUE, external |-> <<"LP_SDA", "LP_SCL">>,
   pins |-> [NFAULT |-> 2, MDM_RI |-> 3, MDM_RESET |-> 4, IFLOWA |-> 5, LP_SDA |-> 6, LP_SCL |-> 7, STATUS2 |-> 9,
     RS485_TX |-> 10, RS485_RX |-> 11, DMINUS |-> 12, DPLUS |-> 13, MDM_DTR |-> 15, TXD0 |-> 16, RXD0 |-> 17, AIN2 |-> 18,
     AIN1 |-> 19, MDM_RTS |-> 20, MDM_CTS |-> 21, LOADEN |-> 22, BUZZER |-> 23] @@ CrystalPins] @@ Carrot

-----------------------------------------------------------------------------
(* Which board it is: by the identity burned into it, then by its MAC.     *)

ByMac ==
  [s3 |-> "f4:12:fa:52" :> UglyDucklingMk5 @@ "34:85:18" :> UglyDucklingMk6Rev1 @@ "ec:da:3b:5b" :> UglyDucklingMk6Rev2
          @@ "f0:9e:9e:55" :> UglyDucklingMk6Rev3 @@ "48:27:e2:82" :> UglyDucklingMk7
          @@ "98:a3:16:1a" :> UglyDucklingMk8Rev1 @@ "58:e6:c5:41" :> UglyDucklingMk9Rev1
          @@ "58:e6:c5:42" :> UglyDucklingMk9Rev1,
   c6 |-> "e8:f6:0a" :> UglyDucklingMk10Rev1]
ByIdentity ==
  10 :> UglyDucklingMk10Rev1 @@ 11 :> UglyDucklingMk11Rev1 @@ 12 :> UglyDucklingMk12Rev1 @@ 13 :> UglyDucklingMk13Rev1
  @@ 14 :> UglyDucklingMk14Rev1

\* The record burned into the eFuse counts if its magic and format are known.
getHardwareVersion(u) == IF u.record \in {"none", "unreadable", "foreign"} THEN 0 ELSE u.generation

\* What the unit u takes itself for.
DeviceFor(u) ==
  IF u.chip = "c6" /\ getHardwareVersion(u) \in DOMAIN ByIdentity THEN ByIdentity[getHardwareVersion(u)]
  ELSE IF u.mac \in DOMAIN ByMac[u.chip] THEN ByMac[u.chip][u.mac]
  ELSE GenericDevice(u.chip)

\* The units there are: each board with the MACs it came with, identities burned since the MK11.
Units ==
  {[chip |-> "s3", is |-> ByMac["s3"][mac].model, mac |-> mac, record |-> "none", generation |-> 0] : mac \in DOMAIN ByMac["s3"]}
  \cup {[chip |-> "s3", is |-> "mk8", mac |-> "other", record |-> "none", generation |-> 0],
        [chip |-> "c6", is |-> "mk10", mac |-> "e8:f6:0a", record |-> "none", generation |-> 0],
        [chip |-> "c6", is |-> "mk15", mac |-> "other", record |-> "burned", generation |-> 15]}
  \cup {[chip |-> "c6", is |-> ByIdentity[g].model, mac |-> mac, record |-> r, generation |-> g] :
          g \in 11..14, mac \in {"e8:f6:0a", "other"}, r \in {"burned", "unreadable", "foreign"}}

-----------------------------------------------------------------------------
(* Ports, channels and timers.                                             *)

HpPorts == [s3 |-> 2, c6 |-> 1]
LpPort == 2                       \* LP_I2C_NUM_0; only the ESP32-C6 has one
LedcTimers == 4
LedcChannels == [s3 |-> 8, c6 |-> 6]
AdcPins == [s3 |-> 1..20, c6 |-> 0..6]

PortName == <<"i2c0", "i2c1", "lp_i2c">>

-----------------------------------------------------------------------------
(* What is on the board b, of its table.                                   *)

\* The definition's constructors register BOOT and STATUS, then the pins: by name, and the last of a GPIO.
PinsOf(b) == b.pins @@ [BOOT |-> b.boot, STATUS |-> b.status]
LatestOf(b) ==
  LET pins == PinsOf(b)
      latest == {p \in DOMAIN pins : p \notin {"BOOT", "STATUS"} \/ pins[p] \notin {b.pins[q] : q \in DOMAIN b.pins}}
  IN [g \in {pins[p] : p \in latest} |-> CHOOSE p \in latest : pins[p] = g]

\* Who uses which pin: what is held at boot, the indicators, the modem, the gauge's bus or pin, and the
\* board's own drivers, whose enable pin is nSleep.
UsesOf(b, pins, user) == {<<PinsOf(b)[p], user>> : p \in pins}
HeldUses(b) ==
  UsesOf(b, b.high \ b.buzzer, "strap") \cup UsesOf(b, b.parked \cup (b.high \cap b.buzzer), "buzzer")
  \cup (IF b.switched THEN UsesOf(b, b.enable, "enable") ELSE {})
IndicatorUses(b) == UsesOf(b, {"STATUS"}, "status") \cup UsesOf(b, {"BOOT"}, "switch")
ModemUses(b) == UsesOf(b, b.modem, "modem")
BusUses(b, sda, scl, port) == UsesOf(b, {sda, scl}, PortName[port + 1])
MotorPins(b) == UNION {{b.motors[i][1], b.motors[i][2]} : i \in DOMAIN b.motors}
DriverUses(b, nSleep) ==
  UsesOf(b, MotorPins(b), "motors") \cup UsesOf(b, b.fault, "fault") \cup UsesOf(b, b.sensed, "current")
  \cup UsesOf(b, nSleep, "enable") \cup UsesOf(b, b.buzzer, "buzzer")
\* The enable pin may be configured on the MK6.
EnablePins(b) == {b.enable} \cup (IF b.model = "mk6" THEN {{"C1"}} ELSE {})
PwmSettings(b) ==
  (IF MotorPins(b) = {} THEN {} ELSE {<<25000, b.bits>>}) \cup (IF b.buzzer = {} THEN {} ELSE {<<2700, 8>>})

\* I2C pins that a sensor may be configured on, given by name or by number.
I2cPairs(b) == {b.external} \cup (IF b.gauge.kind = "bq27220" THEN {<<b.gauge.sda, b.gauge.scl>>} ELSE {})
               \cup (IF b.model = "mk11" THEN {<<"SDA", "SCL">>} ELSE {}) \cup {<<"A1", "A2">>, <<"B1", "B2">>}
PairsOf(b) == {q \in I2cPairs(b) : q # <<>> /\ {q[1], q[2]} \subseteq DOMAIN PinsOf(b)}
OnLpPins(b, sda, scl) == b.chip = "c6" /\ PinsOf(b)[sda] = 6 /\ PinsOf(b)[scl] = 7

\* What the tables are relied on for, board by board: no GPIO has two users; there are channels and timers;
\* a gauge is where it can be, and boots on a battery it keeps running on; the current sensor is on the
\* gauge's bus.  I2C pins are found under one name, one pair is on the LP port's pins, and if the external
\* pins find the ports taken, that is by A or B, but on the MK10, whose gauge has the only HP port.
GaugeUses(b) ==
  IF b.gauge.kind = "analog" THEN UsesOf(b, {b.gauge.pin}, "battery")
  ELSE IF b.gauge.kind = "bq27220"
  THEN BusUses(b, b.gauge.sda, b.gauge.scl, IF OnLpPins(b, b.gauge.sda, b.gauge.scl) THEN LpPort ELSE 0)
  ELSE {}
AllUses(b) ==
  HeldUses(b) \cup GaugeUses(b) \cup IndicatorUses(b) \cup ModemUses(b)
  \cup UNION {DriverUses(b, nSleep) : nSleep \in EnablePins(b)}
GaugeFits(b) ==
  /\ b.gauge.kind \in {"none", "bq27220", "analog"}
  /\ b.gauge.kind = "none" => ~b.ina219
  /\ b.gauge.kind = "bq27220" => b.gauge.boot > b.gauge.shutdown /\ <<b.gauge.sda, b.gauge.scl>> \in PairsOf(b)
  /\ b.gauge.kind = "analog" =>
       /\ b.gauge.boot > b.gauge.shutdown /\ PinsOf(b)[b.gauge.pin] \in AdcPins[b.chip] /\ ~b.ina219
PairsKnown(b) ==
  /\ PairsOf(b) \subseteq STRING \X STRING
  /\ \A q \in PairsOf(b): LatestOf(b)[PinsOf(b)[q[1]]] = q[1] /\ LatestOf(b)[PinsOf(b)[q[2]]] = q[2]
  /\ \A q, r \in PairsOf(b): OnLpPins(b, q[1], q[2]) /\ OnLpPins(b, r[1], r[2]) => q = r
PortsSuffice(b) ==
  b.model # "mk10" /\ ~OnLpPins(b, b.external[1], b.external[2]) =>
    \A q, r \in PairsOf(b) \ {b.external}:
      /\ b.chip = "c6" /\ ~OnLpPins(b, q[1], q[2]) => q[1] \in {"A1", "B1"}
      /\ q # r => q[1] \in {"A1", "B1"} \/ r[1] \in {"A1", "B1"}
Wired(b) ==
  /\ b.chip \in {"s3", "c6"}
  /\ \A c, d \in AllUses(b): c[1] = d[1] => c[2] = d[2]
  /\ Cardinality(MotorPins(b) \cup b.buzzer) \in 0..LedcChannels[b.chip] /\ Cardinality(PwmSettings(b)) \in 0..LedcTimers
  /\ GaugeFits(b) /\ PairsKnown(b) /\ (b.external # <<>> => PortsSuffice(b))

\* It mentions no constant: TLC evaluates it over all units.
ASSUME TablesAssumption ==
  \A u \in Units:
    /\ Wired(GenericDevice(u.chip)) /\ Wired(DeviceFor(u)) /\ GenericDevice(u.chip).gauge.kind = "none"
    /\ DeviceFor(u).model # u.is =>
         DeviceFor(u).model = "generic" \/ (DeviceFor(u).model = "mk10" /\ u.record # "burned")

-----------------------------------------------------------------------------
(* Setting up: state.                                                      *)

VARIABLES
  unit, board,
  step, created,   \* how far startDevice() is, and the peripherals configured
  names, byGpio,   \* InternalPin::INTERNAL_BY_NAME and INTERNAL_BY_GPIO
  claims,          \* who uses which GPIO: pairs of a GPIO and its user
  buses,           \* I2CManager::buses
  timers, channels,   \* PwmManager::timers and pins
  aborted,         \* esp_system_abort(): out of channels or timers
  refused          \* what a configured peripheral was refused

boardVars == <<unit, board, step, created, names, byGpio, claims, buses, timers, channels, aborted, refused>>

Gpio(pin) == names[pin]

\* For contrast: ports are taken without a look at who has them.
selectAnyHpPort(sda, scl) == IF board.chip = "c6" THEN {0} ELSE {0, 1}
\* I2CManager::selectPort: none if the HP ports are taken.
selectPort(sda, scl) ==
  IF OnLpPins(board, sda, scl) THEN {LpPort}
  ELSE IF board.chip = "c6" THEN {0} \ {buses[i].port : i \in DOMAIN buses}
  ELSE IF Len(buses) >= HpPorts["s3"] THEN {} ELSE {Len(buses)}

\* I2CManager::getBusFor(), by the pin objects: the buses after it, and the ports it returns one of.
getBusFor(sda, scl) ==
  LET known == {i \in DOMAIN buses : buses[i].sda = sda /\ buses[i].scl = scl}
      ports == selectPort(sda, scl)
  IN IF known # {} THEN [ok |-> TRUE, buses |-> buses, port |-> buses[CHOOSE i \in known : TRUE].port]
     ELSE IF ports = {} THEN [ok |-> FALSE, buses |-> buses, port |-> 0]
     ELSE LET port == CHOOSE q \in ports : TRUE
          IN [ok |-> TRUE, port |-> port, buses |-> Append(buses, [port |-> port, sda |-> sda, scl |-> scl])]

\* PwmManager::getOrCreateTimer() of each setting, and registerPin() of each pin.
SeenTimers(known, settings) == known \cup settings
registerPwm(pins, settings) ==
  /\ timers' = SeenTimers(timers, settings)
  /\ channels' = channels + Cardinality(pins)
  /\ aborted' = (Cardinality(timers') > LedcTimers \/ channels' > LedcChannels[board.chip])

-----------------------------------------------------------------------------
(* Setting up, in the order of startDevice().                              *)

BoardsInit ==
  /\ unit \in Units /\ board = GenericDevice(unit.chip) /\ step = "app_main" /\ created = 0
  /\ names = <<>> /\ byGpio = <<>> /\ claims = {} /\ buses = <<>> /\ timers = {} /\ channels = 0
  /\ aborted = FALSE /\ refused = {}

\* startDeviceBasedOnHardware(), and the definition's constructors: BOOT and STATUS, then the pins.
StartDevice ==
  /\ step = "app_main" /\ step' = "constructed"
  /\ board' = DeviceFor(unit)
  /\ names' = PinsOf(board') /\ byGpio' = LatestOf(board') /\ claims' = HeldUses(board')
  /\ UNCHANGED <<unit, created, buses, timers, channels, aborted, refused>>

\* initBattery(): the gauge is the first on an I2C bus, or a pin that can do ADC.
CreateBatteryDriver ==
  /\ step = "constructed" /\ step' = "battery"
  /\ CASE board.gauge.kind = "bq27220" ->
            LET got == getBusFor(board.gauge.sda, board.gauge.scl)
            IN /\ buses' = got.buses
               /\ claims' = claims \cup (IF got.ok THEN BusUses(board, board.gauge.sda, board.gauge.scl, got.port) ELSE {})
               /\ refused' = IF got.ok THEN refused ELSE refused \cup {<<"gauge", <<>>>>}
       [] board.gauge.kind = "analog" ->
            /\ claims' = claims \cup UsesOf(board, {board.gauge.pin}, "battery")
            /\ refused' = IF Gpio(board.gauge.pin) \in AdcPins[board.chip] THEN refused ELSE refused \cup {<<"gauge", <<>>>>}
            /\ UNCHANGED buses
       [] OTHER -> UNCHANGED <<buses, claims, refused>>
  /\ UNCHANGED <<unit, board, created, names, byGpio, timers, channels, aborted>>

\* The status LED and the boot button.
InitIndicators ==
  /\ step = "battery" /\ step' = "indicators"
  /\ claims' = claims \cup IndicatorUses(board)
  /\ UNCHANGED <<unit, board, created, names, byGpio, buses, timers, channels, aborted, refused>>

\* initConnectivity(): over WiFi, or over the modem where the board has one.
InitConnectivity ==
  /\ step = "indicators" /\ step' = "connected"
  /\ claims' \in {claims, claims \cup ModemUses(board)}
  /\ UNCHANGED <<unit, board, created, names, byGpio, buses, timers, channels, aborted, refused>>

\* The board's own drivers: the motors' bridges, the buzzer, then the current sensor.
RegisterFactories ==
  /\ step = "connected" /\ step' = "factories"
  /\ registerPwm(MotorPins(board) \cup board.buzzer, PwmSettings(board))
  /\ \E nSleep \in EnablePins(board):
       LET sense == IF board.ina219 THEN getBusFor(board.gauge.sda, board.gauge.scl)
                    ELSE [ok |-> FALSE, buses |-> buses, port |-> 0]
       IN /\ claims' = claims \cup DriverUses(board, nSleep)
                       \cup (IF sense.ok THEN BusUses(board, board.gauge.sda, board.gauge.scl, sense.port) ELSE {})
          /\ buses' = sense.buses
          /\ refused' = IF board.ina219 /\ ~sense.ok THEN refused \cup {<<"ina219", <<>>>>} ELSE refused
  /\ UNCHANGED <<unit, board, created, names, byGpio>>

\* What may be configured: a sensor on I2C pins of the board, a Spadefoot Toad on software I2C, an RS485
\* probe, a motor's door or valve, an analog sensor.
Requests ==
  {<<"i2c", pair>> : pair \in PairsOf(board)}
  \cup {<<"toad-bb", board.external>>, <<"rs485", <<>>>>, <<"motor", <<"a">>>>, <<"motor", <<"b">>>>, <<"motor", <<"">>>>}
  \cup {<<"analog", <<p>>>> : p \in {"IFLOWA", "ISOILML", "B1"} \cap DOMAIN names}

\* InternalPin::byGpio() of a registered pin's number, and byName(), find a pin of that GPIO.
Found(pin) == {pin, byGpio[Gpio(pin)]}

\* findMotor(): by name, or the only one.
findMotor(name) == IF name = "" THEN Len(board.motors) = 1 ELSE Len(board.motors) >= (IF name = "a" THEN 1 ELSE 2)

CreatePeripheral ==
  /\ step = "factories" /\ ~aborted
  /\ created < MaxPeripherals /\ created' = created + 1
  /\ \E r \in Requests:
       \/ /\ r[1] = "i2c"
          /\ \E sda \in Found(r[2][1]), scl \in Found(r[2][2]):
               LET got == getBusFor(sda, scl)
               IN buses' = got.buses /\ refused' = IF got.ok THEN refused ELSE refused \cup {r}
       \/ /\ r[1] # "i2c" /\ UNCHANGED buses
          /\ LET made == CASE r[1] = "toad-bb" -> board.bitbang
                           [] r[1] = "rs485" -> board.rs485 # {}
                           [] r[1] = "motor" -> findMotor(r[2][1])
                           [] OTHER -> Gpio(r[2][1]) \in AdcPins[board.chip]
             IN refused' = IF made THEN refused ELSE refused \cup {r}
  /\ UNCHANGED <<unit, board, step, names, byGpio, claims, timers, channels, aborted>>

BoardsNext ==
  \/ StartDevice \/ CreateBatteryDriver \/ InitIndicators \/ InitConnectivity \/ RegisterFactories \/ CreatePeripheral

-----------------------------------------------------------------------------
(* Properties.                                                             *)

BoardsTypeOK ==
  /\ unit \in Units
  /\ step \in {"app_main", "constructed", "battery", "indicators", "connected", "factories"}
  /\ created \in 0..MaxPeripherals
  /\ \A i \in DOMAIN buses: buses[i].port \in 0..LpPort
  /\ channels \in Nat /\ aborted \in BOOLEAN

\* A unit runs as the board it is or as none, if its identity is burned or its MAC tells it apart
\* (main.cpp:116-120, 156).
RightBoard == step # "app_main" /\ board.model # unit.is => board.model = "generic" \/ (board.model = "mk10" /\ unit.record # "burned")

\* No GPIO is used twice by what is on the board; its parts have their ports, channels and timers; and it
\* boots on a battery it keeps running on (DeviceDefinition.hpp:43-64, PwmManager.hpp:118-148,
\* BootHelpers.hpp:73-80).
OnBoardApart ==
  /\ \A c, d \in claims: c[1] = d[1] => c[2] = d[2]
  /\ ~aborted /\ \A r \in refused: r[1] \notin {"gauge", "ina219"}
  /\ board.gauge.kind # "none" => board.gauge.boot > board.gauge.shutdown

\* A bus has its port to itself and the LP port its pins, and a sensor is refused only when the HP ports
\* are taken: on the MK10 by the board, elsewhere by sensors on other pins (I2CManager.hpp:170-214,
\* UglyDucklingMk10.hpp:62-67).
BusesServed ==
  /\ \A i, j \in DOMAIN buses: buses[i].port = buses[j].port => i = j
  /\ \A i \in DOMAIN buses: buses[i].port = LpPort => Gpio(buses[i].sda) = 6 /\ Gpio(buses[i].scl) = 7
  /\ <<"i2c", board.external>> \in refused =>
       board.model = "mk10" \/ \E i \in DOMAIN buses: buses[i].sda \in {"A1", "B1"}

BoardsSound == RightBoard /\ OnBoardApart /\ BusesServed

=============================================================================
