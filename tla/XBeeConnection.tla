--------------------------- MODULE XBeeConnection ---------------------------
(***************************************************************************)
(* The connection of the daemon to its XBee antenna: the loop of the XBee  *)
(* thread (XBeeInterface::run, xbee/xbeeinterface.cpp) and the property    *)
(* USBPort of the model, that clients set on the main thread               *)
(* (NetworkModel::setValue).  _state, _wishedPort and _forcePort are       *)
(* shared without a lock: a handler is cut where the other thread can see  *)
(* or change them.                                                         *)
(***************************************************************************)
EXTENDS Naturals

CONSTANTS
  Ports,        \* names of USB serial ports
  NoPort,       \* the empty name
  MaxSets,      \* bound: how many times clients set USBPort
  MaxPlugs      \* bound: how many times a port is plugged or unplugged

ASSUME ConnectionAssumption ==
  /\ NoPort \notin Ports
  /\ MaxSets \in Nat /\ MaxPlugs \in Nat

Names == Ports \cup {NoPort}

VARIABLES
  plugged,      \* the ports listPort() returns
  state,        \* _state
  wishedPort,   \* _wishedPort
  forcePort,    \* _forcePort
  opened,       \* the port _xbee is open on
  at,           \* where the XBee thread is in its loop
  usbPort,      \* USBPort in the model
  setting,      \* the port NetworkModel::setValue is about to write in the model
  clearing,     \* forcePort("") has cleared the wish and not yet the state
  sets, plugs   \* how often clients set USBPort, and ports were plugged

connectionVars == <<plugged, state, wishedPort, forcePort, opened, at, usbPort, setting, clearing, sets, plugs>>

ConnectionInit ==
  /\ plugged \in SUBSET Ports
  /\ state = "DISCONNECTED"
  /\ wishedPort = NoPort
  /\ forcePort = FALSE
  /\ opened = NoPort
  /\ at = "loop"
  /\ usbPort = NoPort
  /\ setting = "nothing" /\ clearing = FALSE
  /\ sets = 0 /\ plugs = 0

-----------------------------------------------------------------------------
(* XBee thread *)

(* tryToConnect: the wished port first, then, unless a port is forced, any port
   of the list.  A port that opens is taken: the answer of the device to
   xbee_cmd_query_status is not looked at. *)
TryWished ==
  /\ at = "loop" /\ state = "DISCONNECTED"
  /\ wishedPort \in plugged
  /\ opened' = wishedPort
  /\ at' = "opened"
  /\ UNCHANGED <<plugged, state, wishedPort, forcePort, usbPort, setting, clearing, sets, plugs>>

(* Mutant: the test of _forcePort is inverted. *)
MutTryListed ==
  /\ at = "loop" /\ state = "DISCONNECTED"
  /\ wishedPort \notin plugged
  /\ forcePort
  /\ \E port \in plugged : opened' = port
  /\ at' = "opened"
  /\ UNCHANGED <<plugged, state, wishedPort, forcePort, usbPort, setting, clearing, sets, plugs>>

TryListed ==
  /\ at = "loop" /\ state = "DISCONNECTED"
  /\ wishedPort \notin plugged
  /\ ~ forcePort
  /\ \E port \in plugged : opened' = port
  /\ at' = "opened"
  /\ UNCHANGED <<plugged, state, wishedPort, forcePort, usbPort, setting, clearing, sets, plugs>>

(* tryToConnectOnPort after its waiting loop: the port becomes the wished one. *)
AdoptPort ==
  /\ at = "opened"
  /\ at' = IF wishedPort # opened THEN "adopted" ELSE "connected"
  /\ wishedPort' = opened
  /\ UNCHANGED <<plugged, state, forcePort, opened, usbPort, setting, clearing, sets, plugs>>

(* NetworkModel::setXbeeUsbPort *)
ShowPort ==
  /\ at = "adopted"
  /\ usbPort' = opened
  /\ at' = "connected"
  /\ UNCHANGED <<plugged, state, wishedPort, forcePort, opened, setting, clearing, sets, plugs>>

(* run() after tryToConnect returned true *)
StartInitializing ==
  /\ at = "connected"
  /\ state' = "INITIALIZING"
  /\ at' = "loop"
  /\ UNCHANGED <<plugged, wishedPort, forcePort, opened, usbPort, setting, clearing, sets, plugs>>

(* initialize() always succeeds. *)
Initialize ==
  /\ at = "loop" /\ state = "INITIALIZING"
  /\ state' = "CONNECTED"
  /\ UNCHANGED <<plugged, wishedPort, forcePort, opened, at, usbPort, setting, clearing, sets, plugs>>

(* Mutant: the port is only watched while it is forced. *)
MutLosePort ==
  /\ at = "loop" /\ state = "CONNECTED"
  /\ wishedPort \notin plugged /\ forcePort
  /\ state' = "DISCONNECTED"
  /\ UNCHANGED <<plugged, wishedPort, forcePort, opened, at, usbPort, setting, clearing, sets, plugs>>

(* isStillConnected() fails: the wished port is not in the list. *)
LosePort ==
  /\ at = "loop" /\ state = "CONNECTED"
  /\ wishedPort \notin plugged
  /\ state' = "DISCONNECTED"
  /\ at' = IF forcePort THEN "loop" ELSE "lost"
  /\ UNCHANGED <<plugged, wishedPort, forcePort, opened, usbPort, setting, clearing, sets, plugs>>

(* set("USBPort", "") on the XBee thread: forcePort("") and the model *)
ForgetPort ==
  /\ at = "lost"
  /\ forcePort' = FALSE
  /\ wishedPort' = NoPort
  /\ state' = "DISCONNECTED"
  /\ at' = "forgot"
  /\ UNCHANGED <<plugged, opened, usbPort, setting, clearing, sets, plugs>>

ShowNoPort ==
  /\ at = "forgot"
  /\ usbPort' = NoPort
  /\ at' = "loop"
  /\ UNCHANGED <<plugged, state, wishedPort, forcePort, opened, setting, clearing, sets, plugs>>

ThreadStep ==
  TryWished \/ TryListed \/ AdoptPort \/ ShowPort \/ StartInitializing \/ Initialize
    \/ LosePort \/ ForgetPort \/ ShowNoPort

-----------------------------------------------------------------------------
(* Main thread: NetworkModel::setValue("USBPort", port) *)

(* XBeeInterface::forcePort: an empty name clears the choice and disconnects, a
   name only changes the wish. *)
ForcePort(port) ==
  /\ setting = "nothing" /\ sets < MaxSets
  /\ setting' = port
  /\ sets' = sets + 1
  /\ wishedPort' = port
  /\ forcePort' = (port # NoPort)
  /\ clearing' = (port = NoPort)
  /\ UNCHANGED <<plugged, state, opened, at, usbPort, plugs>>

ForceDisconnect ==
  /\ clearing
  /\ clearing' = FALSE
  /\ state' = "DISCONNECTED"
  /\ UNCHANGED <<plugged, wishedPort, forcePort, opened, at, usbPort, setting, sets, plugs>>

(* setString *)
SetUsbPort ==
  /\ setting # "nothing" /\ ~ clearing
  /\ usbPort' = setting
  /\ setting' = "nothing"
  /\ UNCHANGED <<plugged, state, wishedPort, forcePort, opened, at, clearing, sets, plugs>>

(* The list of ports changes. *)
Plug ==
  /\ plugs < MaxPlugs
  /\ \E port \in Ports :
       plugged' = IF port \in plugged THEN plugged \ {port} ELSE plugged \cup {port}
  /\ plugs' = plugs + 1
  /\ UNCHANGED <<state, wishedPort, forcePort, opened, at, usbPort, setting, clearing, sets>>

ConnectionNext ==
  \/ ThreadStep
  \/ \E port \in Names : ForcePort(port)
  \/ ForceDisconnect
  \/ SetUsbPort
  \/ Plug

(* The XBee thread loops for ever and the main thread finishes its handlers. *)
ConnectionSpec ==
  /\ ConnectionInit /\ [][ConnectionNext]_connectionVars
  /\ WF_connectionVars(ThreadStep)
  /\ WF_connectionVars(ForceDisconnect \/ SetUsbPort)

-----------------------------------------------------------------------------
(* While no port is forced, an antenna that stays plugged is found again after
   any unplugging and whatever forcePort overwrites while the thread connects. *)
AntennaFound ==
  \A port \in Ports :
    <>[](plugged = {port} /\ ~ forcePort) => <>[](state = "CONNECTED" /\ opened = port)

(* The daemon does not stay connected to a port that is gone. *)
LossNoticed == <>[](plugged = {}) => <>[](state # "CONNECTED")

=============================================================================
