CONSTANTS
    Tasks = {t1, t2, t3}
    MaxDisk = 3
SPECIFICATION Spec
PROPERTIES CommandReflectsInstall
SYMMETRY TaskSymmetry
CHECK_DEADLOCK FALSE
