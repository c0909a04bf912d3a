---------------------------- MODULE MCDeviceForm ----------------------------
(***************************************************************************)
(* A small instance of DeviceForm: one or two identities of each kind, one *)
(* configuration file, and entries as an older version or a hand may have  *)
(* left them.                                                              *)
(***************************************************************************)
EXTENDS DeviceForm

MCDiscovered ==
    (<<"USB", FALSE>> :> {"wheel", "pedals"}) @@ (<<"USB", TRUE>> :> {"rumble"})
        @@ (<<"Sound", FALSE>> :> {"sink"}) @@ (<<"Serial", TRUE>> :> {"ttyACM0"})

MCTyped ==
    ("frequency" :> {-5, 0, 40}) @@ ("frequencyMax" :> {0, 20}) @@ ("granularity" :> {3})
        @@ ("config" :> {"tach.xml", "missing.lua"}) @@ ("devpath" :> {"ttyUSB0"})

\* The fields whose values decide what the host opens and where it plays.
MCEditedFields ==
    {"device", "type", "subtype", "devid", "devpath", "config", "granularity", "channels",
     "channelMask", "motors", "effect", "modulation", "frequency", "frequencyMax"}

\* A sound device of the C program (a pan, no mask), one with channels it has
\* not, a wheel with an id and a path, and motors at a position there is none of.
MCHandWritten ==
    {("device" :> "Sound") @@ ("devid" :> "sink") @@ ("effect" :> "Gear") @@ ("channels" :> n)
         @@ ("pan" :> p) : n \in {1, 2}, p \in {-1, 1}}
        \cup {("device" :> "Sound") @@ ("devid" :> "sink") @@ ("effect" :> "ABS")
                  @@ ("channels" :> 2) @@ ("channelMask" :> {2, 3})}
        \cup {("device" :> "USB") @@ ("type" :> "UsbWheel") @@ ("subtype" :> "LogitechG29")
                  @@ ("devid" :> "wheel") @@ ("devpath" :> "rumble")}
        \cup {("device" :> "Serial") @@ ("type" :> "SerialHaptic") @@ ("devpath" :> "ttyACM0")
                  @@ ("motors" :> n) : n \in {-1, 20}}
=============================================================================
