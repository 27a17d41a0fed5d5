SPECIFICATION XhciSpec
CONSTANTS
    UsbPorts = 3
    UsbSlots = 3
    UsbKinds = {"none", "keyboard", "mouse", "storage", "other"}
    UsbRing = 26
    MaxUsbFaults = 2
    MaxUsbTransfers = 1
INVARIANT UsbRolesRight
INVARIANT UsbDevicesServe
CHECK_DEADLOCK FALSE
