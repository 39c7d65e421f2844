\* One request is enough to meet the countdown of grub.cfg.
SPECIFICATION Spec
CONSTANTS
    o1 = o1
    o2 = o2
    Ops <- OneOp
PROPERTY ThreeAttempts
