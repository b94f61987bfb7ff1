---------------------------- MODULE CommandTarget ----------------------------
(***************************************************************************)
(* The operations a serial line or an HTTP request makes of the device     *)
(* (Esp32SerialCommandTarget and the web* callbacks of ESP32Wiimote.cpp),  *)
(* and the states they may find it in.  Those states are HciLink's and     *)
(* WifiControl's; a command sees no more of them than this.                *)
(***************************************************************************)

\* started: BluetoothController::isStarted(); inited: deviceInited, set later
\* by the Bluetooth task; handle: the connection table has an entry; wifi:
\* Wi-Fi control is enabled.
Targets ==
    {t \in [started : BOOLEAN, inited : BOOLEAN, connected : BOOLEAN, scanning : BOOLEAN,
            handle : BOOLEAN, wifi : BOOLEAN] :
        /\ t.inited => t.started
        /\ t.connected \/ t.handle \/ t.scanning => t.inited}

Accepts(op, t) ==
    CASE op \in {"setLeds", "setReportingMode", "requestStatus"} -> t.connected /\ t.handle
      [] op = "disconnect" -> t.inited /\ t.connected /\ t.handle
      [] op = "startDiscovery" -> t.inited /\ ~t.connected /\ ~t.scanning
      [] op = "stopDiscovery" -> t.inited /\ ~t.connected /\ t.scanning
      [] op = "scanOn" -> t.inited /\ (t.connected \/ ~t.scanning)
      [] op = "scanOff" -> t.inited /\ (t.connected \/ t.scanning)
      [] op \in {"setAutoReconnect", "clearReconnectCache"} -> t.inited
      [] op = "restartWifi" -> t.wifi
      [] OTHER -> TRUE

=============================================================================
