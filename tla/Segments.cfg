CONSTANTS
    Tx = {t1, t2, t3}
    MaxSegments = 4
    SizeMax = 16
    MaxAllocs = 2
    MaxFailures = 1
SPECIFICATION Spec
SYMMETRY Perms
INVARIANTS TypeOK SegmentsSurvive AbortReleases 
