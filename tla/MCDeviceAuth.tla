---------------------------- MODULE MCDeviceAuth ----------------------------
EXTENDS DeviceAuth, TLC

Symmetry == Permutations(Request)

=============================================================================
