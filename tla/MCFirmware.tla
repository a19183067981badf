----------------------------- MODULE MCFirmware ------------------------------
(* The three parts of the firmware in one run. They share no state: each     *)
(* moves while the other two rest where they start, Boot on one board.       *)
EXTENDS MCBoot, MCUsbLink, Sampler

OneBoard == CHOOSE b \in Boards : TRUE

BootRests == stage = "mpu" /\ board = OneBoard

FirmwareInit == BootInit /\ UsbInit /\ SamplerInit

FirmwareNext ==
    \/ UsbInit /\ SamplerInit /\ BootNext /\ UNCHANGED <<usbVars, samplerVars>>
    \/ BootRests /\ SamplerInit /\ UsbNext /\ UNCHANGED <<bootVars, samplerVars>>
    \/ BootRests /\ UsbInit /\ SamplerNext /\ UNCHANGED <<bootVars, usbVars>>

\* The fairness is UsbSpec's: the other two have none.
FirmwareSpec ==
    /\ FirmwareInit /\ [][FirmwareNext]_<<bootVars, usbVars, samplerVars>>
    /\ WF_usbVars(UsbTask) /\ WF_usbVars(Poll)
==============================================================================
