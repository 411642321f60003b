SPECIFICATION Spec
CONSTANTS
    a = a
    b = b
    c = c
    VmIds <- MCVmIds
    Gc = gc
    None = none
    Deployments <- MCDeployments
    Digest <- MCDigest
    HashBits = 4
    AddrBits = 5
    Subnets <- MCSubnets
    Allowlists <- MCAllowlists
    FirstCid = 3
    LastCid = 4
    CidHash <- MCCidHash
    Images = {img1, img2}
INVARIANTS
    TypeOK
    ConfinedWhileComposed
    ConnectedWhileComposed
    CidExclusive
    RefusedOnlyWhenFull
    AddressUsable
    JailServesSpec
    ReleasedIsClean
