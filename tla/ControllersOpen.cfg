CONSTANTS
    m1 = m1
    m2 = m2
    c1 = c1
    c2 = c2
    c3 = c3
    file = file
    zip = zip
    None = None
    Modules <- TwoModules
    Natives <- ThreeNatives
    Owner <- OwnerOf
    Names <- TwoNames
    NameOf <- FileFileZip
    Instances = {i1, i2, i3}
    Entities = {e1}
    Allowed <- AllClauses
SPECIFICATION Spec
SYMMETRY Symmetric
INVARIANTS CallsReachLoadedCode OneOwner StopLeavesNone FaultsExplained CInv
CHECK_DEADLOCK FALSE
