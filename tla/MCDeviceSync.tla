---------------------------- MODULE MCDeviceSync ----------------------------
EXTENDS DeviceSync, TLC

Symmetry == Permutations(Device)

=============================================================================
