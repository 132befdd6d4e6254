CONSTANTS
    Tx = {t1, t2, t3}
    MaxSegments = 4
    SizeMax = 16
    MaxAllocs = 2
    MaxFailures = 0
SPECIFICATION Spec
SYMMETRY Perms
PROPERTIES NewSegments
