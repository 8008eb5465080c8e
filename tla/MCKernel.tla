------------------------------ MODULE MCKernel ------------------------------
(***************************************************************************)
(* Small machines for Kernel: three letters to a line and two lines to a   *)
(* screen, or none; pictures of three pixels of which two are looked at.   *)
(***************************************************************************)
EXTENDS Kernel

Device(slot, func, driver, bar) ==
    [slot |-> slot, func |-> func, driver |-> driver, bar |-> bar]

Machine(width, height, fb, bus) ==
    [width |-> width, height |-> height, fb |-> fb, bus |-> bus]

\* Everything at function 0; the sound behind another function and two network
\* controllers; registers out of reach; no screen and nothing on the bus.
MCMachines ==
    {Machine(35, 32, "low",
             {Device(0, 0, "NVMe", "high"), Device(1, 0, "USB", "high"),
              Device(2, 0, "audio", "low"), Device(3, 0, "network", "high")}),
     Machine(26, 44, "low",
             {Device(0, 0, "none", "low"), Device(0, 3, "audio", "high"),
              Device(1, 0, "network", "low"), Device(2, 0, "network", "high")}),
     Machine(35, 32, "high", {}),
     Machine(35, 20, "low", {Device(0, 0, "audio", "high")}),
     Machine(0, 0, "high", {})}

MCTexts == {<<Newline>>, <<Letter, Letter, Newline>>, <<Letter, Letter, Letter, Letter>>}

MCCamFrames == {<<0, 0, 9>>, <<200, 130, 0>>}
MCMicFrames == {<<0, 0, 7>>, <<-5, 2, 0>>, <<7, -7, 1>>}
=============================================================================
