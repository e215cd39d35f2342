SPECIFICATION Spec
CONSTANTS
    Dirs = {"usb0", "usb1"}
    Images = {"a"}
    Slots = {5, 6}
    Sticks = FALSE
    Operator = FALSE
INVARIANTS NotTwice
