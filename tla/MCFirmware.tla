----------------------------- MODULE MCFirmware -----------------------------
(* A remote alone with its XBee: commands of every kind arrive, one at a time,
   while the buttons move and the XBee sleeps. *)
EXTENDS Firmware

MCCommands == {<<LED_CMD, 255, 255>>, <<35, 255, 255>>, <<34, 254, 255>>,
               <<ACTIVE_MODE_CMD, 255>>, <<MUTE_MODE_CMD, 255>>,
               <<ASK_MODE_CMD, 255>>, <<BATT_STATUS_CMD, 255>>, <<SLEEP_CMD, 1, 255>>}

(* A command arrives once the one before was read and its answer was written. *)
ReceiveFrame(frame) ==
  /\ awake
  /\ serialIn = <<>>
  /\ tx = <<>> \/ phase = "wait"
  /\ serialIn' = frame
  /\ UNCHANGED <<serialOut, rx, tx, phase, activeMute, ledStatus, buttonBuff, pin, awake>>

(* The XBee sends what it was given. *)
Radiate ==
  /\ serialOut # <<>>
  /\ serialOut' = <<>>
  /\ UNCHANGED <<serialIn, rx, tx, phase, activeMute, ledStatus, buttonBuff, pin, awake>>

(* The pins are only sampled after the reading loop, so a button that moves
   earlier or later moves just before a sample; the XBee sends before the next
   step of the loop. *)
FirmwareNext ==
  \/ serialOut = <<>> /\ LoopStep
  \/ phase = "read" /\ serialIn = <<>> /\ serialOut = <<>> /\ \E b \in Buttons : MoveButton(b)
  \/ ToggleSleep
  \/ \E frame \in MCCommands : ReceiveFrame(frame)
  \/ Radiate

FirmwareSpec == FirmwareInit /\ [][FirmwareNext]_firmwareVars
=============================================================================
