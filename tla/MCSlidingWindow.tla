-------------------------- MODULE MCSlidingWindow --------------------------
(* Model checking of SlidingWindow: devices are interchangeable.           *)
EXTENDS SlidingWindow, TLC

DeviceSymmetry == Permutations(Devices)
=============================================================================
