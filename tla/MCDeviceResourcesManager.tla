---------------------- MODULE MCDeviceResourcesManager ----------------------
(* A small instance of DeviceResourcesManager. *)
EXTENDS DeviceResourcesManager, TLC

(* Three pools of two streams, unless no pools are asked for.                *)
Shapes == {<<3, 2>>}

(* Devices are alike, and so are the threads that call no setter.            *)
Alike == Permutations(Devices) \cup Permutations(Threads \ Setters)
=============================================================================
