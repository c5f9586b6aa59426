---------------------------- MODULE MCDeviceGrant ----------------------------
EXTENDS DeviceGrant

CONSTANTS ada, guest, sub, k1
==============================================================================
