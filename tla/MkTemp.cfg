\* Templates with two X's over an alphabet of two characters: four candidates.
SPECIFICATION FairSpec
CONSTANTS
    Proc = {p1, p2}
    Actions = {"mkostemps", "mktemp"}
    Positions = 2
    Pads = 2
    Nobody = Nobody
    Somebody = Somebody
INVARIANTS TypeOK OwnsItsFile EexistIsExhaustion
PROPERTIES NeverTwice SearchEnds
CHECK_DEADLOCK FALSE
